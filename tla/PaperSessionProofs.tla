-------------------------- MODULE PaperSessionProofs --------------------------
(***************************************************************************)
(* Theorems about PaperSession, for every value of its constants: what a   *)
(* session keeps up through ticks, steps, commits, crashes and restarts.   *)
(*                                                                         *)
(* A restart brings back what the disk holds, so the argument has two      *)
(* halves.  A sound state stays sound under the calls of the session; and  *)
(* the disk holds tables a session can resume from, a sound state being    *)
(* what it finds there.  Another strategy's session may commit between two *)
(* rows of a call, so every prefix of a call's rows has to leave such      *)
(* tables.  What needs all the rows of a call (ExactInv, Exact) is claimed *)
(* where no such commit has been, which the history variable cut says.     *)
(***************************************************************************)
EXTENDS PaperSession, SimBrokerProofs

------------------------------------------------------------------------------
(* What a sound state is.  The parts are stated of tables of orders and of *)
(* positions, since they are needed of the disk as well as of the state.   *)

Times == 0 .. MaxTime \cup {None}

ExecutedIn(o) == {i \in DOMAIN o : o[i].status = "FILLED"}
ExitOpen(o, i) == o[i].status = "OPEN" /\ ~o[i].opening
EntriesIn(o, s) ==
    {i \in DOMAIN o : o[i].symbol = s /\ o[i].opening /\ o[i].status = "FILLED"}

\* Exits carry no bracket; the MARKET ones among them are the strategy's own.
PlainExits(o) ==
    \A i \in DOMAIN o : /\ ~o[i].opening => o[i].bracket = None
                        /\ ExitOpen(o, i) => (o[i].oco = 0 <=> o[i].type = "MARKET")

\* The open exits of a symbol are for all of its position, and are one bracket
\* or one order without a parent.
ExitsFit(o, p) ==
    \A i \in DOMAIN o : ExitOpen(o, i) =>
        /\ o[i].qty = Abs(p[o[i].symbol].qty)
        /\ \A j \in DOMAIN o : ExitOpen(o, j) /\ o[j].symbol = o[i].symbol =>
              o[j].oco = o[i].oco /\ (o[i].oco = 0 => j = i)

\* A filled entry with a bracket has an exit, open or not.
Attached(o) ==
    \A i \in ExecutedIn(o) : o[i].bracket # None => \E j \in DOMAIN o : o[j].oco = i

\* Every row of the fills table has its executed order; and the other way round.
Backed(o, f) == Len(f) <= Cardinality(ExecutedIn(o))
Counted(o, f) == Cardinality(ExecutedIn(o)) = Len(f)

OrdersInv ==
    /\ orders = [i \in DOMAIN orders |-> orders[i]]
    /\ PlainExits(orders) /\ ExitsFit(orders, pos) /\ Backed(orders, fills)

\* A pending entry is the only open order of a symbol that is not held.
EntriesAlone ==
    \A i \in Pending : /\ orders[i].symbol \notin Held /\ orders[i].bracket # None
                       /\ OpenFor(orders[i].symbol) = {i}

\* An entry counts from the moment it is accepted.
Bought(s) == {i \in DOMAIN orders : /\ orders[i].symbol = s /\ orders[i].opening
                                    /\ orders[i].status \in {"OPEN", "FILLED"}}
TakenInv ==
    /\ \A s \in Symbols : Cardinality(Bought(s)) <= taken[s] /\ taken[s] <= TradesPerSymbol
    /\ SumFunction(taken) <= TradesPerDay

TimesInv == clock \in Times /\ \A k \in DOMAIN fills : fills[k].at \in Times

StateInv ==
    /\ IInv /\ AccountInv /\ OrdersInv /\ EntriesAlone /\ TakenInv /\ TimesInv
    /\ SessionTypeOK

\* What all the rows of every call give in addition.
ExactInv ==
    OneExitPerBracket /\ CashReconciles /\ Attached(orders) /\ Counted(orders, fills)

------------------------------------------------------------------------------
(* What the tables of a sound state are, taken by themselves.              *)

TypedTables(d) ==
    /\ \E m \in Nat : DOMAIN d.orders \subseteq 1 .. m
    /\ \A i \in DOMAIN d.orders : d.orders[i] \in Order
    /\ d.fills \in Seq(Execution) /\ d.trades \in Seq(Closed)
    /\ \A k \in DOMAIN d.fills : d.fills[k].at \in Times

WellFormed(o) ==
    \A i \in DOMAIN o :
        /\ o[i].status = "OPEN" => o[i].qty > 0
        /\ o[i].oco # 0 => /\ ~o[i].opening /\ o[i].oco \in DOMAIN o
                           /\ o[o[i].oco].symbol = o[i].symbol
                           /\ o[o[i].oco].status = "FILLED"

\* The exits resume re-arms, with the positions p: the rest is cancelled.
Rearmed(o, p, i) == ExitOpen(o, i) /\ o[i].oco # 0 /\ p[o[i].symbol].qty # 0
ExitsRearm(o, p) ==
    \A i \in DOMAIN o : Rearmed(o, p, i) =>
        /\ Reduces(p[o[i].symbol], o[i].side) /\ o[i].qty = Abs(p[o[i].symbol].qty)
        /\ \A j \in DOMAIN o :
              Rearmed(o, p, j) /\ o[j].symbol = o[i].symbol => o[j].oco = o[i].oco
OneOf(o) ==
    \A i, j \in DOMAIN o :
        i # j /\ o[i].oco # 0 /\ o[i].oco = o[j].oco /\ o[i].status = "FILLED"
        => o[j].status \notin {"FILLED", "OPEN"}
Mirrors(p, t) ==
    \A s \in Symbols :
        /\ t[s].dir = "LONG" <=> p[s].qty > 0
        /\ t[s].dir = "SHORT" <=> p[s].qty < 0
        /\ Abs(p[s].qty) = t[s].entryQty - t[s].exitQty
        /\ t[s].dir = "NONE" => t[s] = NoTrade
HeldIn(p) == {s \in Symbols : p[s].qty # 0}
Capped(o) ==
    /\ \A s \in Symbols : Cardinality(EntriesIn(o, s)) <= TradesPerSymbol
    /\ SumFunction([s \in Symbols |-> Cardinality(EntriesIn(o, s))]) <= TradesPerDay
Reconciled(c, ts, t) ==
    c = StartingCapital + NetSum(ts) + SumFunction([s \in Symbols |-> TradeFlow(t[s])])

\* Tables a session can resume from: it is sound then.
SoundOrders(o, p) == WellFormed(o) /\ PlainExits(o) /\ ExitsRearm(o, p) /\ Capped(o)
SoundBook(b) ==
    /\ b = [pos |-> b.pos, trade |-> b.trade, cash |-> b.cash]
    /\ b.pos \in [Symbols -> Position] /\ b.trade \in [Symbols -> Trade] /\ b.cash \in Int
    /\ Mirrors(b.pos, b.trade) /\ Cardinality(HeldIn(b.pos)) <= MaxOpenPositions
Usable(d) ==
    LET b == Replay(d.fills)
    IN  /\ TypedTables(d) /\ SoundBook(b) /\ SoundOrders(d.orders, b.pos)
        /\ Backed(d.orders, d.fills)

\* And with all the rows of every call.
Exact(d) ==
    LET b == Replay(d.fills)
    IN  /\ OneOf(d.orders) /\ Attached(d.orders) /\ Counted(d.orders, d.fills)
        /\ Reconciled(b.cash, d.trades, b.trade)

------------------------------------------------------------------------------
(* What the connection's tables are: the state's, less the rows queued.    *)

IsTables(d) ==
    /\ d = [orders |-> d.orders, fills |-> d.fills, trades |-> d.trades]
    /\ d.orders = [i \in DOMAIN d.orders |-> d.orders[i]]

AnyRow == [table : {"orders", "fills", "trades"}, id : Nat,
           row : Order \cup Execution \cup Closed]
QueuedIn(q, table) == {k \in DOMAIN q : q[k].table = table}

RowsRight ==
    /\ queue \in Seq(AnyRow)
    /\ \A k \in QueuedIn(queue, "orders") :
          queue[k].id \in DOMAIN orders /\ queue[k].row = orders[queue[k].id]
    /\ \A k \in QueuedIn(queue, "fills") : fills = Append(db.fills, queue[k].row)
    /\ \A k \in QueuedIn(queue, "trades") : trades = Append(db.trades, queue[k].row)
    /\ \A table \in {"fills", "trades"} : \A j, k \in QueuedIn(queue, table) : j = k

NothingMissing ==
    /\ DOMAIN db.orders \subseteq DOMAIN orders
    /\ \A i \in DOMAIN orders :
          \/ i \in DOMAIN db.orders /\ db.orders[i] = orders[i]
          \/ \E k \in QueuedIn(queue, "orders") : queue[k].id = i
    /\ QueuedIn(queue, "fills") = {} => db.fills = fills
    /\ QueuedIn(queue, "trades") = {} => db.trades = trades

LedgerInv == IsTables(db) /\ IsTables(disk) /\ RowsRight /\ NothingMissing

\* Why every prefix of a call's rows leaves usable tables: an executed order comes before
\* its fill, and both before the orders that follow from it.
ExecutedRow(r) == r.table = "orders" /\ r.row.status = "FILLED"
ExecutedFirst(q) ==
    \A j, k \in DOMAIN q :
        /\ ExecutedRow(q[k]) /\ ~ExecutedRow(q[j]) => k < j
        /\ q[k].table = "fills" /\ q[j].table = "orders" /\ ~ExecutedRow(q[j]) => k < j

\* The order of a row keeps all but its status, which is final once not open.
OrdersFollow ==
    \A i \in DOMAIN db.orders :
        LET a == db.orders[i]
            b == orders[i]
        IN  /\ b.symbol = a.symbol /\ b.side = a.side /\ b.qty = a.qty /\ b.type = a.type
            /\ b.bracket = a.bracket /\ b.oco = a.oco /\ b.opening = a.opening
            /\ a.status # "OPEN" => b.status = a.status

\* While the rows of an execution are missing, the exits in the connection's tables that
\* would be re-armed with the position it leaves are open.
NewRow(o, r) == r.table = "orders" /\ r.id \notin DOMAIN o
Executing(o, r) ==
    \/ r.table = "fills"
    \/ NewRow(o, r) /\ r.row.status = "OPEN" /\ ~r.row.opening /\ r.row.oco # 0
ExitsStand ==
    (\E k \in DOMAIN queue : Executing(db.orders, queue[k])) =>
        \A i \in DOMAIN db.orders :
            ExitOpen(db.orders, i) /\ pos[db.orders[i].symbol].qty # 0 => orders[i].status = "OPEN"
QueueInv ==
    /\ ExecutedFirst(queue) /\ OrdersFollow /\ ExitsStand
    /\ \A k \in DOMAIN queue : NewRow(db.orders, queue[k]) /\ ExecutedRow(queue[k]) =>
                               queue[k].row.oco = 0

\* What history says: tables without part of a call's rows are exact.
CutInv ==
    /\ queue = <<>> => "db" \notin cut
    /\ "session" \notin cut => /\ ExactInv
                               /\ "db" \notin cut => Exact(db)
                               /\ "disk" \notin cut => Exact(disk)

SInv == StateInv /\ LedgerInv /\ QueueInv /\ CutInv /\ Usable(db) /\ Usable(disk)

------------------------------------------------------------------------------
(* The actions of a session are calls of the broker.                       *)

LEMMA Constants ==
    /\ MaxTime \in Nat /\ SquareOff \in Nat /\ SquareOff <= MaxTime /\ MaxOpenPositions \in Nat
    /\ TradesPerSymbol \in Nat /\ TradesPerDay \in Nat /\ MaxRestarts \in Nat
    /\ \A p \in Prices : TickBar(p) \in Bars
    /\ 0 .. MaxTime \subseteq Nat /\ Times \subseteq Nat \cup {None}
BY TimeAssumption, LimitsAssumption, SessionAssumption DEF Times

\* The stamps of a session are times of the day.
LEMMA StampTime ==
    ASSUME TimesInv, NEW at \in 0 .. MaxTime
    PROVE  Stamp(at) \in 0 .. MaxTime
BY Constants DEF Stamp, Higher, TimesInv, Times

\* A strategy's exit: everything open for the symbol is cancelled, and an order
\* for all of the position is accepted.
LEMMA ExitPlaces ==
    ASSUME TypeOK, NEW s \in Held, ExitPosition(s)
    PROVE  LET o == orders'[n + 1]
           IN  /\ n + 1 \notin DOMAIN orders /\ n' = n + 1 /\ n \in Nat
               /\ DOMAIN orders' = DOMAIN orders \cup {n + 1}
               /\ orders' = [i \in DOMAIN orders' |-> orders'[i]]
               /\ \A i \in DOMAIN orders : orders'[i] = Cancelled(s)[i]
               /\ o \in Order /\ o.symbol = s /\ o.qty = Abs(pos[s].qty) /\ o.qty > 0
               /\ Reduces(pos[s], o.side) /\ ~o.opening /\ o.bracket = None /\ o.oco = 0
               /\ o.type = "MARKET" /\ o.status = "OPEN"
               /\ phase = "idle" /\ UNCHANGED <<book, last, seq, time, call>>
<1> DEFINE side == IF pos[s].qty > 0 THEN "SELL" ELSE "BUY"
           x == NewOrder(s, side, Abs(pos[s].qty), "MARKET", 0, None)
           st == IF Accepted(x) THEN "OPEN" ELSE "REJECTED"
           o == [x EXCEPT !.status = st]
<1>1. s \in Symbols /\ pos[s].qty \in Int /\ pos[s].qty # 0 /\ n \in Nat
      /\ DOMAIN orders \subseteq 1 .. n
    BY DEF Held, TypeOK, BooksTyped, Position, OrdersTyped
<1>2. Abs(pos[s].qty) \in Nat /\ Abs(pos[s].qty) > 0 /\ Reduces(pos[s], side) /\ side \in Side
    BY <1>1 DEF Abs, Reduces, Side
<1>3. x.symbol = s /\ x.side = side /\ x.qty = Abs(pos[s].qty) /\ x.type = "MARKET"
      /\ x.bracket = None /\ x.oco = 0 /\ x.opening = ~Reduces(pos[s], side)
    BY DEF NewOrder
<1>4. Accepted(x)
    <2> HIDE DEF x, side
    <2>1. ~x.opening
        BY <1>2, <1>3
    <2>2. x.qty > 0 /\ x.type = "MARKET" /\ x.qty <= Abs(pos[x.symbol].qty)
        BY <1>2, <1>3
    <2> QED BY <2>1, <2>2 DEF Accepted
<1>5. o.symbol = s /\ o.side = side /\ o.qty = Abs(pos[s].qty) /\ o.type = "MARKET"
      /\ o.bracket = None /\ o.oco = 0 /\ o.opening = ~Reduces(pos[s], side)
      /\ o.status = st
    BY DEF NewOrder
<1>6. o \in Order
    <2>1. CallTyped /\ "MARKET" \in OrderType /\ st \in Status /\ 0 \in Int
          /\ None \in Bracket \cup {None}
        BY DEF TypeOK, OrderType, Status
    <2> DEFINE q == Abs(pos[s].qty)
    <2>2. q \in Nat /\ side \in Side
        BY <1>2
    <2> HIDE DEF st, side, q
    <2>3. [NewOrder(s, side, q, "MARKET", 0, None) EXCEPT !.status = st] \in Order
        BY <1>1, <2>1, <2>2, NewOrderType
    <2> QED BY <2>3 DEF q
<1>7. orders' = Put(Cancelled(s), n + 1, o) /\ n' = n + 1 /\ phase = "idle"
      /\ UNCHANGED <<book, last, seq, time, call>>
    BY DEF ExitPosition
<1>8. st = "OPEN"
    BY <1>4
<1> HIDE DEF o, x, st, side
<1>9. DOMAIN Cancelled(s) = DOMAIN orders
    BY DEF Cancelled
<1>10. /\ DOMAIN orders' = DOMAIN orders \cup {n + 1} /\ orders'[n + 1] = o
       /\ \A i \in DOMAIN orders : i # n + 1 => orders'[i] = Cancelled(s)[i]
       /\ orders' = [i \in DOMAIN orders' |-> orders'[i]]
    BY <1>7, <1>9 DEF Put
<1>11. n + 1 \notin DOMAIN orders
    BY <1>1
<1> QED BY <1>1, <1>2, <1>5, <1>6, <1>7, <1>8, <1>10, <1>11

\* What it does to the orders that were there.
LEMMA ExitCancels ==
    ASSUME TypeOK, NEW s \in Held, ExitPosition(s)
    PROVE  /\ \A i \in OpenFor(s) : orders'[i] = [orders[i] EXCEPT !.status = "CANCELLED"]
           /\ \A i \in DOMAIN orders \ OpenFor(s) : orders'[i] = orders[i]
           /\ Open' = (Open \ OpenFor(s)) \cup {n + 1}
<1>1. /\ \A i \in OpenFor(s) : orders'[i] = [orders[i] EXCEPT !.status = "CANCELLED"]
      /\ \A i \in DOMAIN orders \ OpenFor(s) : orders'[i] = orders[i]
    BY ExitPlaces DEF Cancelled, OpenFor, Open
<1>2. \A i \in DOMAIN orders : orders[i] \in Order
    BY DEF TypeOK, OrdersTyped
<1>3. \A i \in OpenFor(s) : i \in Open /\ orders'[i].status = "CANCELLED"
    BY <1>1, <1>2 DEF OpenFor, Open, Order
<1>4. Open' = (Open \ OpenFor(s)) \cup {n + 1}
    BY <1>1, <1>3, ExitPlaces DEF Open
<1> QED BY <1>1, <1>4

\* The exit keeps the broker's invariant, although it is not one of its calls.
LEMMA ExitKeeps ==
    ASSUME IInv, AccountInv, NEW s \in Held, ExitPosition(s)
    PROVE  IInv' /\ AccountInv'
<1>0. TypeOK /\ OrdersWellFormed /\ NoOrphanExit /\ TradeMirrorsPosition
      /\ SlotLimit /\ FlatOnceSquared /\ SquareOffClosesAll
    BY DEF IInv
<1>1. \A i \in DOMAIN orders : orders[i] \in Order
    BY <1>0 DEF TypeOK, OrdersTyped
<1> DEFINE o == orders'[n + 1]
<1>2. /\ n + 1 \notin DOMAIN orders /\ n' = n + 1 /\ n \in Nat
      /\ DOMAIN orders' = DOMAIN orders \cup {n + 1}
      /\ o \in Order /\ o.symbol = s /\ o.qty > 0
      /\ Reduces(pos[s], o.side) /\ ~o.opening /\ o.oco = 0 /\ o.status = "OPEN"
      /\ phase = "idle" /\ UNCHANGED <<book, last, seq, time, call>>
    BY <1>0, ExitPlaces
<1>3. /\ \A i \in OpenFor(s) : orders'[i] = [orders[i] EXCEPT !.status = "CANCELLED"]
      /\ \A i \in DOMAIN orders \ OpenFor(s) : orders'[i] = orders[i]
      /\ Open' = (Open \ OpenFor(s)) \cup {n + 1}
    BY <1>0, ExitCancels
<1> HIDE DEF o
<1>4. UNCHANGED <<pos, trade, trades, cash, fills, last, seq, clock, squared, phase, event,
                  seen, todo>>
    BY <1>2 DEF book, time, call
<1>5. \A i \in DOMAIN orders :
         /\ orders'[i].symbol = orders[i].symbol /\ orders'[i].oco = orders[i].oco
         /\ orders'[i].opening = orders[i].opening /\ orders'[i].qty = orders[i].qty
         /\ orders'[i].side = orders[i].side
         /\ orders'[i].status = IF i \in OpenFor(s) THEN "CANCELLED" ELSE orders[i].status
    <2> TAKE i \in DOMAIN orders
    <2>1. CASE i \in OpenFor(s)
        <3>1. orders[i] \in Order /\ orders'[i] = [orders[i] EXCEPT !.status = "CANCELLED"]
            BY <1>1, <1>3, <2>1
        <3> QED BY <2>1, <3>1 DEF Order
    <2>2. CASE i \notin OpenFor(s)
        BY <1>3, <2>2
    <2> QED BY <2>1, <2>2
<1>a. \A i \in DOMAIN orders : orders'[i] \in Order
    <2> TAKE i \in DOMAIN orders
    <2>1. CASE i \in OpenFor(s)
        <3>1. orders[i] \in Order /\ orders'[i] = [orders[i] EXCEPT !.status = "CANCELLED"]
            BY <1>1, <1>3, <2>1
        <3> QED BY <3>1 DEF Order, Status
    <2> QED BY <1>1, <1>3, <2>1
<1>6. OrdersTyped'
    <2>1. DOMAIN orders' \subseteq 1 .. n' /\ n' \in Nat
        BY <1>0, <1>2 DEF TypeOK, OrdersTyped
    <2>2. \A i \in DOMAIN orders' : orders'[i] \in Order
        BY <1>2, <1>a DEF o
    <2> QED BY <2>1, <2>2 DEF OrdersTyped
<1>7. BooksTyped' /\ CallTyped'
    <2>1. BooksTyped'
        BY <1>0, <1>4 DEF TypeOK, BooksTyped
    <2>2. seen \subseteq 1 .. n /\ n' = n + 1 /\ n \in Nat
        BY <1>0, <1>2 DEF TypeOK, CallTyped
    <2>3. seen' \subseteq 1 .. n'
        BY <1>4, <2>2
    <2>4. CallTyped'
        BY <1>0, <1>4, <2>3 DEF TypeOK, CallTyped
    <2> QED BY <2>1, <2>4
<1>8. OrdersWellFormed'
    <2> SUFFICES ASSUME NEW i \in DOMAIN orders'
                 PROVE  /\ orders'[i].status = "OPEN" => orders'[i].qty > 0
                        /\ orders'[i].oco # 0 =>
                              /\ ~orders'[i].opening /\ orders'[i].oco \in DOMAIN orders'
                              /\ orders'[orders'[i].oco].symbol = orders'[i].symbol
                              /\ orders'[orders'[i].oco].status = "FILLED"
        BY DEF OrdersWellFormed
    <2>1. CASE i = n + 1
        BY <1>2, <2>1 DEF o
    <2>2. CASE i \in DOMAIN orders
        <3>1. /\ orders[i].status = "OPEN" => orders[i].qty > 0
              /\ orders[i].oco # 0 =>
                    /\ ~orders[i].opening /\ orders[i].oco \in DOMAIN orders
                    /\ orders[orders[i].oco].symbol = orders[i].symbol
                    /\ orders[orders[i].oco].status = "FILLED"
            BY <1>0, <2>2 DEF OrdersWellFormed
        <3>2. \A j \in DOMAIN orders : orders[j].status = "FILLED" => j \notin OpenFor(s)
            BY DEF OpenFor, Open
        <3>3. orders'[i].status = "OPEN" => orders[i].status = "OPEN"
            BY <1>5, <2>2
        <3> QED BY <1>2, <1>5, <2>2, <3>1, <3>2, <3>3
    <2> QED BY <1>2, <2>1, <2>2
<1>9. SquareOffClosesAll'
    BY <1>2, <1>4 DEF SquareOffClosesAll
<1>10. NoOrphanExit'
    <2> SUFFICES ASSUME NEW i \in Open', ~orders'[i].opening
                 PROVE  Reduces(pos'[orders'[i].symbol], orders'[i].side)
        BY DEF NoOrphanExit
    <2>1. CASE i = n + 1
        BY <1>2, <1>4, <2>1 DEF o
    <2>2. CASE i \in Open
        BY <1>0, <1>4, <1>5, <2>2 DEF NoOrphanExit, Open
    <2> QED BY <1>3, <2>1, <2>2
<1>11. TradeMirrorsPosition'
    BY <1>0, <1>4 DEF TradeMirrorsPosition
<1>13. SlotLimit'
    <2>1. Held' = Held
        BY <1>4 DEF Held
    <2>2. Pending' \subseteq Pending /\ \A i \in Pending' : orders'[i].symbol = orders[i].symbol
        BY <1>2, <1>3, <1>5 DEF Pending, Open, o
    <2>3. InUse' \subseteq InUse
        BY <2>1, <2>2 DEF InUse
    <2>4. IsFiniteSet(InUse)
        <3>1. InUse \subseteq Symbols
            BY <1>1 DEF InUse, Held, Pending, Open, Order
        <3> QED BY <3>1, SymbolsAssumption, FS_Subset
    <2>5. Cardinality(InUse') \in Nat /\ Cardinality(InUse) \in Nat
          /\ Cardinality(InUse') <= Cardinality(InUse)
        BY <2>3, <2>4, FS_Subset, FS_CardinalityType
    <2> QED BY <1>0, <2>5, Constants DEF SlotLimit
<1>14. FlatOnceSquared'
    <2>1. ~squared
        BY <1>0 DEF FlatOnceSquared
    <2> QED BY <1>4, <2>1 DEF FlatOnceSquared
<1>15. IInv'
    BY <1>6, <1>7, <1>8, <1>9, <1>10, <1>11, <1>13, <1>14 DEF IInv, TypeOK
<1>16. AccountInv'
    BY <1>4 DEF AccountInv, NoneIsEmpty, ReplayRebuildsBook, Replay
<1> QED BY <1>15, <1>16

\* It adds nothing to the books and no exit of a bracket.
LEMMA ExitExact ==
    ASSUME TypeOK, OneExitPerBracket, CashReconciles, NEW s \in Held, ExitPosition(s)
    PROVE  OneExitPerBracket' /\ CashReconciles'
<1>1. /\ DOMAIN orders' = DOMAIN orders \cup {n + 1} /\ orders'[n + 1].oco = 0
      /\ UNCHANGED book
    BY ExitPlaces
<1>2. \A i \in DOMAIN orders :
         /\ orders'[i].oco = orders[i].oco
         /\ orders'[i].status = IF i \in OpenFor(s) THEN "CANCELLED" ELSE orders[i].status
    <2> TAKE i \in DOMAIN orders
    <2>1. CASE i \in OpenFor(s)
        <3>1. orders[i] \in Order /\ orders'[i] = [orders[i] EXCEPT !.status = "CANCELLED"]
            BY <2>1, ExitCancels DEF TypeOK, OrdersTyped
        <3> QED BY <2>1, <3>1 DEF Order
    <2>2. CASE i \notin OpenFor(s)
        BY <2>2, ExitCancels
    <2> QED BY <2>1, <2>2
<1>3. OneExitPerBracket'
    <2> SUFFICES ASSUME NEW i \in DOMAIN orders', NEW j \in DOMAIN orders', i # j,
                        orders'[i].oco # 0, orders'[i].oco = orders'[j].oco,
                        orders'[i].status = "FILLED"
                 PROVE  orders'[j].status \notin {"FILLED", "OPEN"}
        BY DEF OneExitPerBracket
    <2>1. i \in DOMAIN orders /\ j \in DOMAIN orders
        BY <1>1
    <2>2. orders[i].oco # 0 /\ orders[i].oco = orders[j].oco /\ orders[i].status = "FILLED"
        BY <1>2, <2>1
    <2>3. orders[j].status \notin {"FILLED", "OPEN"}
        BY <2>1, <2>2 DEF OneExitPerBracket
    <2> QED BY <1>2, <2>1, <2>3
<1>4. CashReconciles'
    <2>1. cash' = cash /\ NetSum(trades') = NetSum(trades) /\ Flows' = Flows
        BY <1>1 DEF book, Flows
    <2>2. (cash = StartingCapital + NetSum(trades) + SumFunction(Flows))'
        BY <2>1, CashForm
    <2> QED BY <2>2, CashForm, PTL
<1> QED BY <1>3, <1>4

------------------------------------------------------------------------------
(* What a step does to the orders and the positions, as far as a session   *)
(* has to know: nothing much, or it places or executes an entry or an exit.*)

\* An order keeps all but its status, and keeps that too once it is not open.
Keeps(i) ==
    LET a == orders[i]
        b == orders'[i]
    IN  /\ b.symbol = a.symbol /\ b.side = a.side /\ b.qty = a.qty /\ b.type = a.type
        /\ b.bracket = a.bracket /\ b.oco = a.oco /\ b.opening = a.opening
        /\ a.status # "OPEN" => b.status = a.status
Grown ==
    /\ DOMAIN orders \subseteq DOMAIN orders'
    /\ orders' = [i \in DOMAIN orders' |-> orders'[i]]
    /\ \A i \in DOMAIN orders : Keeps(i)
Executed == ExecutedIn(orders)

\* Orders are cancelled or refused at most; an exit only by the square-off.
Calm ==
    /\ Grown /\ DOMAIN orders' = DOMAIN orders
    /\ Open' \subseteq Open /\ Executed' = Executed
    /\ \A i \in Open \ Open' : orders[i].opening \/ phase' = "square"
    /\ pos' = pos /\ fills' = fills /\ taken' = taken

EntryPlaced(s, i) ==
    /\ s \in Symbols /\ s \notin Held /\ OpenFor(s) = {}
    /\ Grown /\ i \notin DOMAIN orders /\ DOMAIN orders' = DOMAIN orders \cup {i}
    /\ orders'[i].symbol = s /\ orders'[i].opening /\ orders'[i].bracket # None
    /\ orders'[i].status \in {"OPEN", "REJECTED"}
    /\ Open' = Open \cup {j \in {i} : orders'[j].status = "OPEN"} /\ Executed' = Executed
    /\ pos' = pos /\ fills' = fills
    /\ taken[s] < TradesPerSymbol /\ SumFunction(taken) < TradesPerDay
    /\ taken' = [taken EXCEPT ![s] = IF orders'[i].status = "OPEN" THEN @ + 1 ELSE @]

ExitPlaced(s, i) ==
    /\ s \in Held /\ (TimeDue(s) \/ StallDue(s)) /\ phase = "idle" /\ phase' = "idle"
    /\ Grown /\ i \notin DOMAIN orders /\ DOMAIN orders' = DOMAIN orders \cup {i}
    /\ orders'[i].symbol = s /\ ~orders'[i].opening /\ orders'[i].bracket = None
    /\ orders'[i].oco = 0 /\ orders'[i].type = "MARKET" /\ orders'[i].qty = Abs(pos[s].qty)
    /\ orders'[i].status = "OPEN"
    /\ Open' = (Open \ OpenFor(s)) \cup {i} /\ Executed' = Executed
    /\ pos' = pos /\ fills' = fills /\ taken' = taken

\* The position of s is q; the others are left alone.
MovedTo(s, q) ==
    /\ DOMAIN pos' = Symbols /\ pos'[s].qty = q
    /\ \A r \in Symbols \ {s} : pos'[r] = pos[r]
RowAdded(s, opens) ==
    \E x \in Execution : /\ x.symbol = s /\ x.opening = opens /\ x.at = clock
                         /\ fills' = Append(fills, x)

EntryDone(s, i) ==
    /\ i \in Open /\ orders[i].opening /\ orders[i].symbol = s /\ s \in Symbols
    /\ Grown
    /\ \A j \in DOMAIN orders' \ DOMAIN orders :
          /\ orders'[j].symbol = s /\ ~orders'[j].opening /\ orders'[j].bracket = None
          /\ orders'[j].oco = i /\ orders'[j].type # "MARKET"
          /\ orders'[j].qty = orders[i].qty /\ orders'[j].status = "OPEN"
    /\ orders[i].bracket # None => DOMAIN orders' \ DOMAIN orders # {}
    /\ Open' = (Open \ {i}) \cup (DOMAIN orders' \ DOMAIN orders)
    /\ Executed' = Executed \cup {i}
    /\ orders'[i].status = "FILLED"
    /\ MovedTo(s, pos[s].qty + Sign(orders[i].side) * orders[i].qty)
    /\ RowAdded(s, TRUE) /\ phase = "tick" /\ taken' = taken

\* An executed exit closes its position, and every other exit with it.
ExitDone(s, i) ==
    /\ s \in Held /\ i \in Nat /\ (i \in Open \/ i \notin DOMAIN orders)
    /\ Grown /\ DOMAIN orders' = DOMAIN orders \cup {i}
    /\ orders'[i].symbol = s /\ ~orders'[i].opening /\ orders'[i].bracket = None
    /\ orders'[i].status = "FILLED" /\ (i \notin DOMAIN orders => orders'[i].oco = 0)
    /\ Open' = Open \ OpenFor(s) /\ Executed' = Executed \cup {i}
    /\ MovedTo(s, 0) /\ RowAdded(s, FALSE) /\ taken' = taken

LEMMA Basics ==
    ASSUME StateInv
    PROVE  /\ TypeOK /\ OrdersWellFormed /\ NoOrphanExit /\ SquareOffClosesAll
           /\ n \in Nat /\ DOMAIN orders \subseteq 1 .. n
           /\ \A i \in DOMAIN orders : orders[i] \in Order /\ i \in Nat
           /\ \A s \in Symbols : pos[s].qty \in Int
           /\ DOMAIN pos = Symbols
           /\ orders = [i \in DOMAIN orders |-> orders[i]]
           /\ PlainExits(orders) /\ ExitsFit(orders, pos)
           /\ Backed(orders, fills) /\ EntriesAlone /\ TakenInv /\ TimesInv /\ SessionTypeOK
BY DEF StateInv, IInv, OrdersInv, TypeOK, OrdersTyped, BooksTyped, Position

LEMMA StillCalm ==
    ASSUME StateInv, UNCHANGED <<orders, pos, fills, taken>>
    PROVE  Calm
BY Basics DEF Calm, Grown, Keeps, Executed, Open

LEMMA DropCalm ==
    ASSUME StateInv, NEW i \in Open, NEW st \in {"CANCELLED", "REJECTED"},
           orders[i].opening, orders' = [orders EXCEPT ![i].status = st],
           UNCHANGED <<pos, fills, taken>>
    PROVE  Calm
<1>1. /\ i \in DOMAIN orders /\ orders[i] \in Order /\ orders[i].status = "OPEN"
      /\ DOMAIN orders' = DOMAIN orders /\ orders'[i] = [orders[i] EXCEPT !.status = st]
      /\ \A j \in DOMAIN orders \ {i} : orders'[j] = orders[j]
      /\ orders' = [j \in DOMAIN orders' |-> orders'[j]]
    BY Basics DEF Open
<1>2. Keeps(i) /\ orders'[i].status = st
    BY <1>1 DEF Keeps, Order
<1>3. \A j \in DOMAIN orders : Keeps(j)
    BY <1>1, <1>2 DEF Keeps
<1>4. Open' = Open \ {i} /\ Executed' = Executed
    BY <1>1, <1>2 DEF Open, Executed, ExecutedIn
<1> QED BY <1>1, <1>3, <1>4 DEF Calm, Grown

LEMMA CancelCalm ==
    ASSUME StateInv, NEW at \in 0 .. MaxTime, BeginSquareOff(at), taken' = taken
    PROVE  Calm
<1>1. /\ orders' = [i \in DOMAIN orders |->
                       IF i \in Open THEN [orders[i] EXCEPT !.status = "CANCELLED"]
                                     ELSE orders[i]]
      /\ phase' = "square" /\ UNCHANGED <<pos, fills>>
    BY DEF BeginSquareOff, book
<1>2. DOMAIN orders' = DOMAIN orders /\ orders' = [i \in DOMAIN orders' |-> orders'[i]]
    BY <1>1
<1>3. \A i \in DOMAIN orders : Keeps(i) /\ orders'[i].status # "OPEN"
                               /\ (orders'[i].status = "FILLED" <=> orders[i].status = "FILLED")
    <2> TAKE i \in DOMAIN orders
    <2>1. CASE i \in Open
        <3>1. orders[i] \in Order /\ orders'[i] = [orders[i] EXCEPT !.status = "CANCELLED"]
              /\ orders[i].status = "OPEN"
            BY <1>1, <2>1, Basics DEF Open
        <3> QED BY <3>1 DEF Keeps, Order
    <2>2. CASE i \notin Open
        BY <1>1, <2>2 DEF Open, Keeps
    <2> QED BY <2>1, <2>2
<1>4. Open' = {} /\ Executed' = Executed
    BY <1>2, <1>3 DEF Open, Executed, ExecutedIn
<1> QED BY <1>1, <1>2, <1>3, <1>4 DEF Calm, Grown

LEMMA ExitPlacing ==
    ASSUME StateInv, NEW s \in Held, ExitPosition(s), TimeDue(s) \/ StallDue(s), taken' = taken
    PROVE  ExitPlaced(s, n + 1)
<1>1. /\ \A i \in OpenFor(s) : orders'[i] = [orders[i] EXCEPT !.status = "CANCELLED"]
      /\ \A i \in DOMAIN orders \ OpenFor(s) : orders'[i] = orders[i]
      /\ Open' = (Open \ OpenFor(s)) \cup {n + 1}
    BY Basics, ExitCancels
<1> DEFINE o == orders'[n + 1]
<1>2. /\ n + 1 \notin DOMAIN orders
      /\ DOMAIN orders' = DOMAIN orders \cup {n + 1}
      /\ orders' = [i \in DOMAIN orders' |-> orders'[i]]
      /\ o.symbol = s /\ o.qty = Abs(pos[s].qty)
      /\ ~o.opening /\ o.bracket = None /\ o.oco = 0
      /\ o.type = "MARKET" /\ o.status = "OPEN"
      /\ phase = "idle" /\ UNCHANGED <<book, last, seq, time, call>>
    BY Basics, ExitPlaces
<1> HIDE DEF o
<1>3. \A i \in DOMAIN orders :
         Keeps(i) /\ (orders'[i].status = "FILLED" <=> orders[i].status = "FILLED")
    <2> TAKE i \in DOMAIN orders
    <2>1. CASE i \in OpenFor(s)
        <3>1. orders[i] \in Order /\ orders'[i] = [orders[i] EXCEPT !.status = "CANCELLED"]
              /\ orders[i].status = "OPEN"
            BY <1>1, <2>1, Basics DEF Open, OpenFor
        <3> QED BY <3>1 DEF Keeps, Order
    <2>2. CASE i \notin OpenFor(s)
        BY <1>1, <2>2 DEF Keeps
    <2> QED BY <2>1, <2>2
<1>4. Executed' = Executed
    BY <1>2, <1>3 DEF Executed, ExecutedIn, o
<1> QED BY <1>1, <1>2, <1>3, <1>4 DEF ExitPlaced, Grown, book, call, o

LEMMA EntryPlacing ==
    ASSUME StateInv, NEW s \in Symbols, NEW side \in Side, NEW q \in Quantities,
           NEW b \in Brackets, Enter(s, side, q, b)
    PROVE  EntryPlaced(s, n + 1)
<1> DEFINE x == NewOrder(s, side, q, "MARKET", 0, b)
           st == IF Accepted(x) THEN "OPEN" ELSE "REJECTED"
           o == [x EXCEPT !.status = st]
<1>1. s \notin Held /\ OpenFor(s) = {} /\ b # None /\ pos[s].qty = 0
      /\ taken[s] < TradesPerSymbol /\ SumFunction(taken) < TradesPerDay
    BY DEF Enter, Held
<1>2. orders' = Put(orders, n + 1, o) /\ n' = n + 1 /\ UNCHANGED <<pos, fills>>
    BY DEF Enter, PlaceOrder, book
<1>3. taken' = [taken EXCEPT ![s] = IF n' \in Open' THEN @ + 1 ELSE @]
    BY DEF Enter
<1>4. ~Reduces(pos[s], side)
    BY <1>1 DEF Reduces
<1>5. o.symbol = s /\ o.opening /\ o.bracket = b /\ o.status = st
    BY <1>4 DEF NewOrder
<1> HIDE DEF o, x
<1>6. st \in {"OPEN", "REJECTED"}
    OBVIOUS
<1> HIDE DEF st
<1>7. /\ n + 1 \notin DOMAIN orders /\ DOMAIN orders' = DOMAIN orders \cup {n + 1}
      /\ orders'[n + 1] = o /\ \A j \in DOMAIN orders : orders'[j] = orders[j]
      /\ orders' = [i \in DOMAIN orders' |-> orders'[i]]
    BY <1>2, Basics DEF Put
<1>8. /\ Open' = Open \cup {j \in {n + 1} : orders'[j].status = "OPEN"}
      /\ Executed' = Executed
    BY <1>5, <1>6, <1>7 DEF Open, Executed, ExecutedIn
<1>9. n' \in Open' <=> orders'[n + 1].status = "OPEN"
    BY <1>2, <1>7 DEF Open
<1>10. taken' = [taken EXCEPT ![s] = IF orders'[n + 1].status = "OPEN" THEN @ + 1 ELSE @]
    BY <1>3, <1>9
<1>11. Grown
    BY <1>7 DEF Grown, Keeps
<1> QED BY <1>1, <1>2, <1>5, <1>6, <1>7, <1>8, <1>10, <1>11 DEF EntryPlaced

\* The row an execution adds to the ledger's fills.
LEMMA FillRow ==
    ASSUME StateInv, NEW o \in Order, NEW price \in Int, Fill(o, price)
    PROVE  RowAdded(o.symbol, o.opening)
<1> DEFINE x == ExecutionOf(o, price)
<1>1. clock \in Nat \cup {None}
    BY Basics DEF TypeOK, CallTyped
<1>2. x \in Execution /\ x.symbol = o.symbol /\ x.opening = o.opening /\ x.at = clock
    BY <1>1 DEF ExecutionOf, Execution, Order
<1>3. fills' = Append(fills, x)
    BY DEF Fill
<1> HIDE DEF x
<1> QED BY <1>2, <1>3 DEF RowAdded

LEMMA EntryFilling ==
    ASSUME StateInv, NEW i \in DOMAIN orders, EntryFills(i), taken' = taken
    PROVE  EntryDone(orders[i].symbol, i)
<1> DEFINE o == orders[i]
           s == o.symbol
           price == EventPrice(o)
           filled == [orders EXCEPT ![i].status = "FILLED"]
           new == DOMAIN orders' \ DOMAIN orders
<1>1. /\ Visited(i) /\ phase = "tick" /\ FillEntry(i, o, price) /\ Fill(o, price) /\ o.opening
    BY DEF EntryFills, Visit, Visited, FillEntry
<1>2. EntryEffect(i)
    BY Basics, EntryFilled
<1>3. /\ o \in Order /\ o.status = "OPEN" /\ i \in Open /\ s \in Symbols /\ price \in Int
      /\ n \in Nat /\ DOMAIN orders \subseteq 1 .. n
    BY <1>1, Basics, VisitTypes DEF Open, Order
<1>4. RowAdded(s, TRUE)
    BY <1>1, <1>3, FillRow, Zenon
<1>5. MovedTo(s, pos[s].qty + Sign(o.side) * o.qty)
    BY <1>2 DEF EntryEffect, Moved, MovedTo
<1>6. /\ DOMAIN filled = DOMAIN orders /\ filled[i] = [o EXCEPT !.status = "FILLED"]
      /\ \A j \in DOMAIN orders \ {i} : filled[j] = orders[j]
      /\ filled = [j \in DOMAIN filled |-> filled[j]]
    BY Basics
<1> DEFINE exits(x) == /\ x.symbol = s /\ ~x.opening /\ x.bracket = None
                       /\ x.oco = i /\ x.type # "MARKET" /\ x.qty = o.qty /\ x.status = "OPEN"
           stop == StopExit(o, i, price)
           target == TargetExit(o, i, price)
<1>7. exits(stop) /\ exits(target)
    BY DEF StopExit, TargetExit, Exit
<1> DEFINE effect == /\ DOMAIN orders \subseteq DOMAIN orders'
                     /\ orders' = [j \in DOMAIN orders' |-> orders'[j]]
                     /\ orders'[i] = filled[i]
                     /\ \A j \in DOMAIN orders \ {i} : orders'[j] = orders[j]
                     /\ \A j \in new : exits(orders'[j])
                     /\ o.bracket # None => new # {}
<1>8. effect
    <2>1. CASE o.bracket = None
        <3>1. orders' = filled
            BY <1>1, <2>1 DEF FillEntry
        <3> HIDE DEF filled
        <3>2. DOMAIN orders' = DOMAIN orders
            BY <1>6, <3>1
        <3>3. new = {}
            BY <3>2
        <3>4. orders' = [j \in DOMAIN orders' |-> orders'[j]]
            BY <3>1 DEF filled
        <3>5. orders'[i] = filled[i] /\ \A j \in DOMAIN orders \ {i} : orders'[j] = orders[j]
            BY <1>6, <3>1
        <3>6. \A j \in new : exits(orders'[j])
            BY <3>3
        <3> HIDE DEF new, exits
        <3> QED BY <2>1, <3>2, <3>4, <3>5, <3>6
    <2>2. CASE o.bracket # None /\ o.bracket.target = None
        <3>1. orders' = Put(filled, n + 1, stop)
            BY <1>1, <2>2 DEF FillEntry
        <3> HIDE DEF filled, exits, stop
        <3>2. n + 1 \notin DOMAIN orders /\ n + 1 # i
            BY <1>3
        <3>3. /\ DOMAIN orders' = DOMAIN orders \cup {n + 1} /\ orders'[n + 1] = stop
              /\ \A j \in DOMAIN orders : orders'[j] = filled[j]
              /\ orders' = [j \in DOMAIN orders' |-> orders'[j]]
            BY <1>6, <3>1, <3>2 DEF Put
        <3> QED BY <1>6, <1>7, <3>2, <3>3
    <2>3. CASE o.bracket # None /\ o.bracket.target # None
        <3>1. orders' = Put(Put(filled, n + 1, stop), n + 2, target)
            BY <1>1, <2>3 DEF FillEntry
        <3> HIDE DEF filled, exits, stop, target
        <3>2. n + 1 \notin DOMAIN orders /\ n + 2 \notin DOMAIN orders /\ n + 1 # n + 2
              /\ n + 1 # i /\ n + 2 # i
            BY <1>3
        <3>3. /\ DOMAIN orders' = DOMAIN orders \cup {n + 1, n + 2} /\ orders'[n + 1] = stop
              /\ orders'[n + 2] = target
              /\ \A j \in DOMAIN orders : orders'[j] = filled[j]
              /\ orders' = [j \in DOMAIN orders' |-> orders'[j]]
            BY <1>6, <3>1, <3>2 DEF Put
        <3> QED BY <1>6, <1>7, <3>2, <3>3
    <2> QED BY <2>1, <2>2, <2>3
<1>9. orders'[i] = [o EXCEPT !.status = "FILLED"]
    BY <1>6, <1>8
<1>10. Keeps(i) /\ orders'[i].status = "FILLED"
    BY <1>3, <1>9 DEF Keeps, Order
<1> HIDE DEF filled, price, exits, stop, target, new
<1>11. Grown
    BY <1>8, <1>10 DEF Grown, Keeps
<1>12. \A j \in new : exits(orders'[j])
    BY <1>8
<1>13. \A j \in new : orders'[j].status = "OPEN"
    BY <1>12 DEF exits
<1>14. DOMAIN orders' = DOMAIN orders \cup new /\ DOMAIN orders \cap new = {}
    BY <1>8 DEF new
<1>15. Open' = (Open \ {i}) \cup new /\ Executed' = Executed \cup {i}
    BY <1>3, <1>8, <1>10, <1>13, <1>14 DEF Open, Executed, ExecutedIn
<1> QED BY <1>1, <1>3, <1>4, <1>5, <1>8, <1>10, <1>11, <1>12, <1>15 DEF EntryDone, exits, new

\* An executed exit takes its symbol flat, since it fits the position.
LEMMA Exiting ==
    ASSUME StateInv, NEW i \in Nat, NEW o \in Order, ExitEffect(i, o), o.symbol \in Symbols,
           o.bracket = None, o.qty = Abs(pos[o.symbol].qty), RowAdded(o.symbol, FALSE),
           taken' = taken
    PROVE  ExitDone(o.symbol, i)
<1> DEFINE s == o.symbol
<1>1. /\ ~o.opening /\ o.status = "OPEN" /\ Reduces(pos[s], o.side) /\ Moved(o)
      /\ (i \in Open /\ o = orders[i]) \/ (i \notin DOMAIN orders /\ o.oco = 0)
      /\ orders' = OrdersAfterExit(i, o, pos'[s].qty = 0) /\ o.side \in Side
    <2>1. o.side \in Side
        BY DEF Order
    <2>2. orders' = OrdersAfterExit(i, o, pos'[s].qty = 0)
        BY DEF ExitEffect
    <2> QED BY <2>1, <2>2 DEF ExitEffect
<1>2. pos[s].qty \in Int /\ pos[s].qty # 0 /\ s \in Held
    BY <1>1, Basics DEF Reduces, Held
<1>3. MovedTo(s, 0)
    BY <1>1, <1>2 DEF Moved, MovedTo, Reduces, Sign, Abs, Side
<1>4. \A j \in OpenFor(s) : ~orders[j].opening
    BY <1>2, Basics DEF EntriesAlone, Pending, OpenFor
<1>5. \A j \in OpenFor(s) : o.oco # 0 /\ orders[j].oco = o.oco => orders[j].symbol = s
    BY DEF OpenFor
<1>6. CancelledBy(o, pos'[s].qty = 0) = OpenFor(s)
    BY <1>3, <1>4 DEF CancelledBy, MovedTo
<1>7. /\ DOMAIN orders' = DOMAIN orders \cup {i}
      /\ orders' = [j \in DOMAIN orders' |-> orders'[j]]
      /\ orders'[i] = [o EXCEPT !.status = "FILLED"]
      /\ \A j \in OpenFor(s) \ {i} : orders'[j] = [orders[j] EXCEPT !.status = "CANCELLED"]
      /\ \A j \in (DOMAIN orders \ OpenFor(s)) \ {i} : orders'[j] = orders[j]
    BY <1>1, <1>6 DEF OrdersAfterExit, OpenFor, Open
<1>8. /\ orders'[i].symbol = s /\ ~orders'[i].opening /\ orders'[i].bracket = None
      /\ orders'[i].status = "FILLED" /\ orders'[i].oco = o.oco
    BY <1>1, <1>7 DEF Order
<1>9. i \in Open => Keeps(i) /\ i \in OpenFor(s)
    <2>1. i \in Open => orders'[i] = [orders[i] EXCEPT !.status = "FILLED"] /\ orders[i] \in Order
                        /\ orders[i].status = "OPEN" /\ i \in DOMAIN orders /\ o = orders[i]
        BY <1>1, <1>7, Basics DEF Open
    <2> QED BY <2>1 DEF Keeps, Order, OpenFor
<1>10. \A j \in OpenFor(s) \ {i} : Keeps(j) /\ orders'[j].status = "CANCELLED"
    <2> TAKE j \in OpenFor(s) \ {i}
    <2>1. orders'[j] = [orders[j] EXCEPT !.status = "CANCELLED"] /\ orders[j] \in Order
          /\ orders[j].status = "OPEN"
        BY <1>7, Basics DEF OpenFor, Open
    <2> QED BY <2>1 DEF Keeps, Order
<1>11. \A j \in (DOMAIN orders \ OpenFor(s)) \ {i} : Keeps(j)
    BY <1>7 DEF Keeps
<1>12. (i \in Open \/ i \notin DOMAIN orders) /\ (i \notin DOMAIN orders => o.oco = 0)
    BY <1>1 DEF Open
<1>13. \A j \in DOMAIN orders : Keeps(j)
    BY <1>9, <1>10, <1>11, <1>12
<1>14. Open' = Open \ OpenFor(s) /\ Executed' = Executed \cup {i}
    BY <1>7, <1>8, <1>9, <1>10, <1>12 DEF Open, OpenFor, Executed, ExecutedIn
<1> QED BY <1>2, <1>3, <1>7, <1>8, <1>12, <1>13, <1>14 DEF ExitDone, Grown

LEMMA ExitFilling ==
    ASSUME StateInv, NEW i \in DOMAIN orders, ExitFills(i), taken' = taken
    PROVE  ExitDone(orders[i].symbol, i)
<1> DEFINE o == orders[i]
           price == EventPrice(o)
<1>1. Visited(i) /\ Fill(o, price) /\ ~o.opening
    BY DEF ExitFills, Visit, FillExit
<1>2. /\ o \in Order /\ o.status = "OPEN" /\ o.symbol \in Symbols /\ price \in Int /\ i \in Nat
    BY <1>1, Basics, VisitTypes DEF Order
<1>3. ExitEffect(i, o)
    BY Basics, ExitFilled
<1>4. o.bracket = None /\ o.qty = Abs(pos[o.symbol].qty)
    BY <1>1, <1>2, Basics DEF PlainExits, ExitsFit, ExitOpen
<1>5. RowAdded(o.symbol, o.opening)
    BY <1>1, <1>2, FillRow
<1>6. o.opening = FALSE
    BY <1>1, <1>2 DEF Order
<1>7. RowAdded(o.symbol, FALSE)
    BY <1>5, <1>6, Zenon
<1> HIDE DEF o
<1>8. ExitDone(o.symbol, i)
    BY <1>2, <1>3, <1>4, <1>7, Exiting
<1> QED BY <1>8 DEF o

LEMMA Closing ==
    ASSUME StateInv, NEW s \in Symbols, ClosePosition(s), taken' = taken
    PROVE  ExitDone(s, n + 1)
<1> DEFINE o == ClosingOrder(s)
           ref == IF last[s] = None THEN pos[s].avg ELSE last[s]
           price == Slip(ref, o.side)
<1>1. Fill(o, price) /\ o.symbol = s /\ o.opening = FALSE /\ o.bracket = None
      /\ o.qty = Abs(pos[s].qty)
    BY DEF ClosePosition, FillExit, ClosingOrder
<1>2. ExitEffect(n + 1, o)
    BY Basics, PositionClosed
<1>3. o \in Order /\ n + 1 \in Nat
    BY <1>2, Basics DEF ExitEffect
<1>4. ref \in Int
    BY Basics DEF TypeOK, BooksTyped, CallTyped, Position
<1>5. price \in Int
    BY <1>4, SlipInt
<1> HIDE DEF o, price
<1>6. RowAdded(o.symbol, o.opening)
    BY <1>1, <1>3, <1>5, FillRow
<1>7. RowAdded(o.symbol, FALSE)
    BY <1>1, <1>6, Zenon
<1>8. ExitDone(o.symbol, n + 1)
    BY <1>1, <1>2, <1>3, <1>7, Exiting
<1> QED BY <1>1, <1>8

\* Only the loop of a market event executes entries.
NoEntryDone ==
    \/ Calm
    \/ \E s \in Symbols, i \in Nat : EntryPlaced(s, i) \/ ExitPlaced(s, i) \/ ExitDone(s, i)
Effect == NoEntryDone \/ \E s \in Symbols, i \in Nat : EntryDone(s, i)
BrokerStep == [Next]_vars \/ \E s \in Held : ExitPosition(s)

\* An order the loop of a market event drops is an entry: an exit always fits.
LEMMA Dropping ==
    ASSUME StateInv, NEW i \in DOMAIN orders, taken' = taken,
           ExitTooLate(i) \/ EntryOpposed(i) \/ EntryUnfunded(i)
    PROVE  Calm
<1>1. Visited(i) /\ i \in Open /\ (Drop(i, "CANCELLED") \/ Drop(i, "REJECTED"))
    BY DEF ExitTooLate, EntryOpposed, EntryUnfunded, Visit, Visited, Live, OpenFor
<1>2. ~CannotExit(orders[i])
    <2>1. CASE orders[i].opening
        BY <2>1 DEF CannotExit
    <2>2. CASE ~orders[i].opening
        <3>1. orders[i].status = "OPEN" /\ orders[i].symbol \in Symbols
            BY <1>1, Basics DEF Open, Order
        <3>2. Reduces(pos[orders[i].symbol], orders[i].side)
            BY <1>1, <2>2, Basics DEF NoOrphanExit
        <3>3. orders[i].qty = Abs(pos[orders[i].symbol].qty)
            BY <2>2, <3>1, Basics DEF ExitsFit, ExitOpen
        <3>4. Abs(pos[orders[i].symbol].qty) \in Int
            BY <3>1, Basics DEF Abs
        <3> QED BY <3>2, <3>3, <3>4 DEF CannotExit
    <2> QED BY <2>1, <2>2
<1>3. orders[i].opening
    BY <1>2 DEF ExitTooLate, EntryOpposed, EntryUnfunded, AgainstPosition, Unfunded
<1>4. UNCHANGED <<pos, fills>>
    BY <1>1 DEF Drop, book
<1> QED BY <1>1, <1>3, <1>4, DropCalm DEF Drop

Entering == \E i \in DOMAIN orders : TickEntry(i) /\ EntryDone(orders[i].symbol, i)

LEMMA TickEffect ==
    ASSUME StateInv, TickSteps
    PROVE  (Entering \/ (TickOther /\ NoEntryDone)) /\ BrokerStep
<1>1. ASSUME NEW i \in DOMAIN orders, TickEntry(i)
      PROVE  Entering /\ BrokerStep
    <2>1. EntryFills(i) /\ taken' = taken
        BY <1>1 DEF TickEntry
    <2>2. EntryDone(orders[i].symbol, i)
        BY <2>1, EntryFilling
    <2>3. [Next]_vars
        BY <2>1 DEF Next, Tick
    <2> QED BY <1>1, <2>2, <2>3 DEF Entering, BrokerStep
<1>2. ASSUME TickOther
      PROVE  NoEntryDone /\ BrokerStep
    <2>0. taken' = taken
        BY <1>2 DEF TickOther, strategy
    <2>1. [Next]_vars
        BY <1>2 DEF TickOther, Next, Tick
    <2>2. ASSUME NEW i \in DOMAIN orders, VisitUntouched(i)
          PROVE  Calm
        BY <2>0, <2>2, StillCalm DEF VisitUntouched, book
    <2>3. EndTick => Calm
        BY <2>0, StillCalm DEF EndTick, book
    <2>4. ASSUME NEW i \in DOMAIN orders, ExitFills(i)
          PROVE  ExitDone(orders[i].symbol, i) /\ orders[i].symbol \in Symbols /\ i \in Nat
        BY <2>0, <2>4, ExitFilling, Basics DEF Order
    <2> QED BY <1>2, <2>0, <2>1, <2>2, <2>3, <2>4, Dropping DEF TickOther, NoEntryDone, BrokerStep
<1> QED BY <1>1, <1>2 DEF TickSteps

LEMMA StampsBounded ==
    ASSUME StateInv
    PROVE  /\ minute \in 0 .. MaxTime /\ EndTime \in 0 .. MaxTime
           /\ Stamp(minute) \in 0 .. MaxTime /\ Stamp(EndTime) \in 0 .. MaxTime
<1>1. /\ minute \in 0 .. MaxTime /\ stepped \in -1 .. minute
      /\ asOf \in 0 .. stepped \cup {None} /\ TimesInv
    BY Basics DEF SessionTypeOK
<1>2. EndTime \in 0 .. MaxTime
    BY <1>1, Constants DEF EndTime
<1> QED BY <1>1, <1>2, StampTime

\* The broker calls of the minute's step and of the end of the day.
LEMMA MinuteEffect ==
    ASSUME StateInv, MinuteSteps \/ Stop
    PROVE  NoEntryDone /\ BrokerStep
<1>1. ASSUME NEW at \in 0 .. MaxTime, BeginSquareOff(at), taken' = taken
      PROVE  NoEntryDone /\ BrokerStep
    <2>1. Calm
        BY <1>1, CancelCalm
    <2>2. [Next]_vars
        BY <1>1 DEF Next, SquareOffCall
    <2> QED BY <2>1, <2>2 DEF NoEntryDone, BrokerStep
<1>2. ASSUME UNCHANGED vars, taken' = taken
      PROVE  NoEntryDone /\ BrokerStep
    <2>1. UNCHANGED <<orders, pos, fills>>
        BY <1>2 DEF vars, book
    <2>2. Calm
        BY <1>2, <2>1, StillCalm
    <2> QED BY <1>2, <2>2 DEF NoEntryDone, BrokerStep
<1>3. CASE BeginStep \/ CallStrategy \/ SkipStrategy \/ EndExits \/ EndEntries \/ Commit
    <2>1. UNCHANGED vars /\ taken' = taken
        BY <1>3 DEF BeginStep, CallStrategy, SkipStrategy, EndExits, EndEntries, Commit, strategy
    <2> QED BY <1>2, <2>1
<1>4. CASE CloseDay
    <2>1. BeginSquareOff(Stamp(minute)) /\ taken' = taken
        BY <1>4 DEF CloseDay, strategy
    <2> QED BY <1>1, <2>1, StampsBounded
<1>5. CASE Stop
    <2>1. taken' = taken /\ (BeginSquareOff(Stamp(EndTime)) \/ UNCHANGED vars)
        BY <1>5 DEF Stop, strategy
    <2> QED BY <1>1, <1>2, <2>1, StampsBounded
<1>6. ASSUME NEW s \in Symbols, TimeExit(s)
      PROVE  NoEntryDone /\ BrokerStep
    <2>1. s \in Held /\ TimeDue(s) /\ ExitPosition(s) /\ taken' = taken
        BY <1>6 DEF TimeExit, Overdue, TimeDue, HeldFor, strategy
    <2>2. ExitPlaced(s, n + 1) /\ n + 1 \in Nat
        BY <2>1, ExitPlacing, Basics
    <2> QED BY <2>1, <2>2 DEF NoEntryDone, BrokerStep
<1>7. CASE ClosingStep
    <2>1. PICK s \in Symbols : ClosePosition(s)
        BY <1>7 DEF ClosingStep
    <2>2. taken' = taken
        BY <1>7 DEF ClosingStep, strategy
    <2>3. ExitDone(s, n + 1) /\ n + 1 \in Nat
        BY <2>1, <2>2, Closing, Basics
    <2>4. [Next]_vars
        BY <2>1 DEF Next, SquareOffCall
    <2> QED BY <2>3, <2>4 DEF NoEntryDone, BrokerStep
<1>8. CASE SquareOffDone
    <2>1. EndSquareOff /\ taken' = taken
        BY <1>8 DEF SquareOffDone, strategy
    <2>2. Calm
        BY <2>1, StillCalm DEF EndSquareOff, book
    <2>3. [Next]_vars
        BY <2>1 DEF Next, SquareOffCall
    <2> QED BY <2>2, <2>3 DEF NoEntryDone, BrokerStep
<1> QED BY <1>3, <1>4, <1>5, <1>6, <1>7, <1>8 DEF MinuteSteps

LEMMA StrategyEffect ==
    ASSUME StateInv, StrategySteps
    PROVE  NoEntryDone /\ BrokerStep
<1>1. ASSUME NEW s \in Symbols, NEW p \in Prices, PumpTick(s, p)
      PROVE  NoEntryDone /\ BrokerStep
    <2>1. BeginTick(s, TickBar(p), Stamp(minute)) /\ taken' = taken
        BY <1>1 DEF PumpTick, strategy
    <2>2. TickBar(p) \in Bars /\ Stamp(minute) \in 0 .. MaxTime
        BY Constants, StampsBounded
    <2>3. Calm
        BY <2>1, StillCalm DEF BeginTick, book
    <2>4. [Next]_vars
        BY <2>1, <2>2 DEF Next, Tick
    <2> QED BY <2>3, <2>4 DEF NoEntryDone, BrokerStep
<1>2. ASSUME NEW s \in Symbols, NEW p \in Prices, MarkBar(s, p)
      PROVE  NoEntryDone /\ BrokerStep
    <2>1. Mark(s, p) /\ taken' = taken
        BY <1>2 DEF MarkBar, strategy
    <2>2. Calm
        BY <2>1, StillCalm DEF Mark, book
    <2>3. [Next]_vars
        BY <2>1 DEF Next
    <2> QED BY <2>2, <2>3 DEF NoEntryDone, BrokerStep
<1>3. ASSUME NEW s \in Symbols, StallExit(s)
      PROVE  NoEntryDone /\ BrokerStep
    <2>1. s \in Held /\ StallDue(s) /\ ExitPosition(s) /\ taken' = taken
        BY <1>3 DEF StallExit, StallDue, HeldFor, strategy
    <2>2. ExitPlaced(s, n + 1) /\ n + 1 \in Nat
        BY <2>1, ExitPlacing, Basics
    <2> QED BY <2>1, <2>2 DEF NoEntryDone, BrokerStep
<1>4. ASSUME NEW s \in Symbols, NEW side \in Side, NEW q \in Quantities, NEW b \in Brackets,
             Enter(s, side, q, b)
      PROVE  NoEntryDone /\ BrokerStep
    <2>1. EntryPlaced(s, n + 1) /\ n + 1 \in Nat
        BY <1>4, EntryPlacing, Basics
    <2>2. PlaceOrder(s, side, q, "MARKET", 0, b)
        BY <1>4 DEF Enter
    <2>3. [Next]_vars
        BY <2>2 DEF Next, Place
    <2> QED BY <2>1, <2>3 DEF NoEntryDone, BrokerStep
<1> QED BY <1>1, <1>2, <1>3, <1>4 DEF StrategySteps

\* on_fill alone notes when an entry was executed.
LEMMA EnteredKept ==
    ASSUME TickOther \/ MinuteSteps \/ StrategySteps \/ Stop \/ WriteRow \/ Elapse
           \/ ForeignCommit \/ UNCHANGED svars
    PROVE  entered' = entered
<1>1. TickOther \/ WriteRow \/ Elapse \/ ForeignCommit \/ UNCHANGED svars => entered' = entered
    BY DEF TickOther, WriteRow, Elapse, ForeignCommit, svars, strategy
<1>2. MinuteSteps \/ Stop => entered' = entered
    BY DEF MinuteSteps, BeginStep, CallStrategy, CloseDay, SkipStrategy, TimeExit, EndExits,
          EndEntries, ClosingStep, SquareOffDone, Commit, Stop, strategy
<1>3. StrategySteps => entered' = entered
    BY DEF StrategySteps, PumpTick, MarkBar, StallExit, Enter, strategy
<1> QED BY <1>1, <1>2, <1>3

LEMMA Effects ==
    ASSUME StateInv, [SNext]_svars, ~Restart
    PROVE  /\ Effect /\ BrokerStep
           /\ Entering \/ (NoEntryDone /\ entered' = entered)
<1> DEFINE done == (Entering \/ (NoEntryDone /\ entered' = entered)) /\ BrokerStep
<1>1. ASSUME UNCHANGED vars, taken' = taken
      PROVE  NoEntryDone /\ BrokerStep
    <2>1. UNCHANGED <<orders, pos, fills>>
        BY <1>1 DEF vars, book
    <2>2. Calm
        BY <1>1, <2>1, StillCalm
    <2> QED BY <1>1, <2>2 DEF NoEntryDone, BrokerStep
<1>2. ASSUME WriteRow \/ Elapse \/ ForeignCommit \/ UNCHANGED svars
      PROVE  done
    <2>1. UNCHANGED vars /\ taken' = taken
        BY <1>2 DEF WriteRow, Elapse, ForeignCommit, svars, strategy
    <2>2. entered' = entered
        BY <1>2, EnteredKept
    <2>3. NoEntryDone /\ BrokerStep
        BY <1>1, <2>1
    <2> QED BY <2>2, <2>3
<1>3. TickSteps => done
    BY TickEffect, EnteredKept
<1>4. MinuteSteps \/ Stop \/ StrategySteps => done
    BY MinuteEffect, StrategyEffect, EnteredKept
<1>5. done
    BY <1>2, <1>3, <1>4 DEF SNext
<1>6. Entering => Effect
    <2> SUFFICES ASSUME NEW i \in DOMAIN orders, EntryDone(orders[i].symbol, i) PROVE Effect
        BY DEF Entering
    <2>1. orders[i].symbol \in Symbols /\ i \in Nat
        BY Basics DEF EntryDone
    <2> QED BY <2>1 DEF Effect
<1> QED BY <1>5, <1>6 DEF Effect

------------------------------------------------------------------------------
(* The parts of a sound state are kept by each effect.                     *)

\* What all the effects have in common.
LEMMA EffectGrows ==
    ASSUME StateInv, Effect
    PROVE  /\ Grown
           /\ \A i \in DOMAIN orders : Keeps(i) /\ (i \in Open' => i \in Open)
           /\ \A i \in DOMAIN orders :
                 /\ orders'[i].symbol = orders[i].symbol /\ orders'[i].oco = orders[i].oco
                 /\ orders'[i].opening = orders[i].opening /\ orders'[i].qty = orders[i].qty
                 /\ orders'[i].bracket = orders[i].bracket /\ orders'[i].type = orders[i].type
<1>1. Grown
    BY DEF Effect, NoEntryDone, Calm, EntryPlaced, ExitPlaced, EntryDone, ExitDone
<1>2. \A i \in DOMAIN orders : Keeps(i)
    BY <1>1 DEF Grown
<1> QED BY <1>1, <1>2 DEF Keeps, Open

LEMMA PlainKept ==
    ASSUME StateInv, Effect
    PROVE  PlainExits(orders')
<1> SUFFICES ASSUME NEW j \in DOMAIN orders'
             PROVE  /\ ~orders'[j].opening => orders'[j].bracket = None
                    /\ ExitOpen(orders', j)
                          => (orders'[j].oco = 0 <=> orders'[j].type = "MARKET")
    BY DEF PlainExits
<1>1. ExitOpen(orders', j) <=> j \in Open' /\ ~orders'[j].opening
    BY DEF ExitOpen, Open
<1>2. CASE j \in DOMAIN orders
    <2>1. j \in Open' => j \in Open
        BY <1>2, EffectGrows
    <2>2. /\ orders'[j].opening = orders[j].opening /\ orders'[j].bracket = orders[j].bracket
          /\ orders'[j].oco = orders[j].oco /\ orders'[j].type = orders[j].type
        BY <1>2, EffectGrows
    <2>3. /\ ~orders[j].opening => orders[j].bracket = None
          /\ j \in Open /\ ~orders[j].opening => (orders[j].oco = 0 <=> orders[j].type = "MARKET")
        BY <1>2, Basics DEF PlainExits, ExitOpen, Open
    <2> QED BY <1>1, <2>1, <2>2, <2>3
<1>3. CASE j \notin DOMAIN orders
    <2>1. Calm => FALSE
        BY <1>3 DEF Calm
    <2>2. ASSUME NEW s \in Symbols, NEW i \in Nat, EntryPlaced(s, i)
          PROVE  j = i /\ orders'[j].opening
        BY <1>3, <2>2 DEF EntryPlaced
    <2>3. ASSUME NEW s \in Symbols, NEW i \in Nat, ExitPlaced(s, i)
          PROVE  orders'[j].bracket = None /\ orders'[j].oco = 0 /\ orders'[j].type = "MARKET"
        BY <1>3, <2>3 DEF ExitPlaced
    <2>4. ASSUME NEW s \in Symbols, NEW i \in Nat, EntryDone(s, i)
          PROVE  orders'[j].bracket = None /\ orders'[j].oco # 0 /\ orders'[j].type # "MARKET"
        <3>1. i # 0
            BY <2>4, Basics DEF EntryDone, Open
        <3> QED BY <1>3, <2>4, <3>1 DEF EntryDone
    <2>5. ASSUME NEW s \in Symbols, NEW i \in Nat, ExitDone(s, i)
          PROVE  orders'[j].bracket = None /\ orders'[j].status = "FILLED"
        BY <1>3, <2>5 DEF ExitDone
    <2> QED BY <1>1, <2>1, <2>2, <2>3, <2>4, <2>5 DEF Effect, NoEntryDone, ExitOpen
<1> QED BY <1>2, <1>3

\* The same of the exits that fit their positions; the open exits of an effect
\* are old ones, of positions that have not moved, or new ones.
LEMMA FitKept ==
    ASSUME StateInv, Effect
    PROVE  ExitsFit(orders', pos')
<1> DEFINE exit(i) == i \in Open' /\ ~orders'[i].opening
           fits(i, p) == /\ orders'[i].qty = Abs(p)
                         /\ \A j : exit(j) /\ orders'[j].symbol = orders'[i].symbol
                              => orders'[j].oco = orders'[i].oco
                                 /\ (orders'[i].oco = 0 => j = i)
<1>1. \A i : i \in DOMAIN orders' /\ ExitOpen(orders', i) <=> exit(i)
    BY DEF ExitOpen, Open
<1>2. SUFFICES \A i : exit(i) => fits(i, pos'[orders'[i].symbol].qty)
    BY <1>1, <1>2 DEF ExitsFit
<1>3. ASSUME NEW i \in Open, ~orders[i].opening
      PROVE  /\ orders[i].qty = Abs(pos[orders[i].symbol].qty)
             /\ \A j \in Open : ~orders[j].opening /\ orders[j].symbol = orders[i].symbol
                  => orders[j].oco = orders[i].oco /\ (orders[i].oco = 0 => j = i)
    BY <1>3, Basics DEF ExitsFit, ExitOpen, Open
<1>4. \A i \in Open : i \in DOMAIN orders /\ orders[i].symbol \in Symbols
    BY Basics DEF Open, Order
<1>5. ASSUME NEW i, exit(i), i \in Open, pos'[orders[i].symbol] = pos[orders[i].symbol],
             \A j : exit(j) /\ orders'[j].symbol = orders[i].symbol => j \in Open
      PROVE  fits(i, pos'[orders'[i].symbol].qty)
    <2>1. i \in DOMAIN orders
        BY <1>4, <1>5
    <2>2. orders'[i].symbol = orders[i].symbol /\ orders'[i].oco = orders[i].oco
          /\ ~orders[i].opening /\ orders'[i].qty = orders[i].qty
        BY <1>5, <2>1, EffectGrows
    <2>3. \A j : exit(j) /\ orders'[j].symbol = orders'[i].symbol
             => j \in Open /\ ~orders[j].opening /\ orders[j].symbol = orders[i].symbol
                /\ orders'[j].oco = orders[j].oco
        BY <1>4, <1>5, <2>2, EffectGrows
    <2>4. orders[i].qty = Abs(pos[orders[i].symbol].qty)
        BY <1>3, <1>5, <2>2
    <2>5. \A j \in Open : ~orders[j].opening /\ orders[j].symbol = orders[i].symbol
                  => orders[j].oco = orders[i].oco /\ (orders[i].oco = 0 => j = i)
        BY <1>3, <1>5, <2>2
    <2> HIDE DEF exit
    <2> QED BY <1>5, <2>2, <2>3, <2>4, <2>5
<1> HIDE DEF fits
<1>6. ASSUME Calm, NEW i, exit(i)
      PROVE  fits(i, pos'[orders'[i].symbol].qty)
    <2>1. \A j : exit(j) => j \in Open
        BY <1>6 DEF Calm
    <2>2. pos' = pos
        BY <1>6 DEF Calm
    <2> HIDE DEF exit
    <2> QED BY <1>5, <1>6, <2>1, <2>2
<1>7. ASSUME NEW s \in Symbols, NEW k \in Nat, EntryPlaced(s, k), NEW i, exit(i)
      PROVE  fits(i, pos'[orders'[i].symbol].qty)
    <2>1. \A j : exit(j) => j \in Open
        BY <1>7 DEF EntryPlaced
    <2>2. pos' = pos
        BY <1>7 DEF EntryPlaced
    <2> HIDE DEF exit
    <2> QED BY <1>5, <1>7, <2>1, <2>2
<1>8. ASSUME NEW s \in Symbols, NEW k \in Nat, ExitPlaced(s, k), NEW i, exit(i)
      PROVE  fits(i, pos'[orders'[i].symbol].qty)
    <2>1. /\ Open' = (Open \ OpenFor(s)) \cup {k} /\ k \notin Open /\ pos' = pos
          /\ orders'[k].symbol = s /\ orders'[k].qty = Abs(pos[s].qty)
        BY <1>8 DEF ExitPlaced, Open
    <2>2. \A j \in Open' : j # k => j \in Open /\ orders'[j].symbol # s
        BY <1>4, <2>1, EffectGrows DEF OpenFor
    <2>3. CASE i = k
        BY <2>1, <2>2, <2>3 DEF fits
    <2>4. CASE i # k
        <3>1. i \in Open /\ orders'[i].symbol # s /\ orders'[i].symbol = orders[i].symbol
            BY <1>4, <1>8, <2>2, <2>4, EffectGrows
        <3>2. \A j : exit(j) /\ orders'[j].symbol = orders[i].symbol => j \in Open
            BY <2>1, <2>2, <3>1
        <3> HIDE DEF exit
        <3> QED BY <1>5, <1>8, <2>1, <3>1, <3>2
    <2> QED BY <2>3, <2>4
<1>9. ASSUME NEW s \in Symbols, NEW k \in Nat, EntryDone(s, k), NEW i, exit(i)
      PROVE  fits(i, pos'[orders'[i].symbol].qty)
    <2> DEFINE new == DOMAIN orders' \ DOMAIN orders
    <2>1. /\ k \in Open /\ orders[k].opening /\ orders[k].symbol = s
          /\ Open' = (Open \ {k}) \cup new
          /\ \A j \in new : orders'[j].symbol = s /\ orders'[j].oco = k
                            /\ orders'[j].qty = orders[k].qty
          /\ MovedTo(s, pos[s].qty + Sign(orders[k].side) * orders[k].qty)
        BY <1>9 DEF EntryDone
    <2>a. EntriesAlone /\ (\A j \in Open : j # 0)
        BY Basics DEF Open
    <2>2. s \notin Held /\ OpenFor(s) = {k} /\ k # 0
        BY <2>1, <2>a DEF EntriesAlone, Pending
    <2>3. \A j \in Open' : j \notin new => j \in Open /\ orders'[j].symbol # s
                                          /\ orders'[j].symbol = orders[j].symbol
        BY <1>4, <2>1, <2>2, EffectGrows DEF OpenFor
    <2>4. pos[s].qty = 0 /\ orders[k].qty \in Nat
        BY <1>4, <2>1, <2>2, Basics DEF Held, Order
    <2>5. Abs(pos'[s].qty) = orders[k].qty
        BY <2>1, <2>4 DEF MovedTo, Sign, Abs
    <2> HIDE DEF new
    <2>6. CASE i \in new
        BY <2>1, <2>2, <2>3, <2>5, <2>6 DEF fits
    <2>7. CASE i \notin new
        <3>1. i \in Open /\ orders'[i].symbol # s /\ orders'[i].symbol = orders[i].symbol
            BY <1>9, <2>3, <2>7
        <3>2. \A j : exit(j) /\ orders'[j].symbol = orders[i].symbol => j \in Open
            BY <2>1, <2>3, <3>1
        <3>3. pos'[orders[i].symbol] = pos[orders[i].symbol]
            BY <1>4, <2>1, <3>1 DEF MovedTo
        <3> HIDE DEF exit
        <3> QED BY <1>5, <1>9, <3>1, <3>2, <3>3
    <2> QED BY <2>6, <2>7
<1>10. ASSUME NEW s \in Symbols, NEW k \in Nat, ExitDone(s, k), NEW i, exit(i)
       PROVE  fits(i, pos'[orders'[i].symbol].qty)
    <2>1. Open' = Open \ OpenFor(s) /\ MovedTo(s, 0)
        BY <1>10 DEF ExitDone
    <2>2. i \in Open /\ orders[i].symbol # s
        BY <1>10, <2>1 DEF OpenFor
    <2>3. pos'[orders[i].symbol] = pos[orders[i].symbol]
        BY <1>4, <2>1, <2>2 DEF MovedTo
    <2>4. \A j : exit(j) => j \in Open
        BY <2>1
    <2> HIDE DEF exit
    <2> QED BY <1>5, <1>10, <2>2, <2>3, <2>4
<1> HIDE DEF exit
<1> QED BY <1>6, <1>7, <1>8, <1>9, <1>10 DEF Effect, NoEntryDone

LEMMA AttachedKept ==
    ASSUME StateInv, Effect, Attached(orders)
    PROVE  Attached(orders')
<1> SUFFICES ASSUME NEW j \in Executed', orders'[j].bracket # None
             PROVE  \E k \in DOMAIN orders' : orders'[k].oco = j
    BY DEF Attached, Executed
<1>1. CASE j \in Executed
    <2>1. j \in DOMAIN orders /\ orders[j].bracket # None
        BY <1>1, EffectGrows DEF Executed, ExecutedIn
    <2>2. PICK k \in DOMAIN orders : orders[k].oco = j
        BY <1>1, <2>1 DEF Attached, Executed
    <2>3. k \in DOMAIN orders' /\ orders'[k].oco = orders[k].oco
        BY <2>2, EffectGrows DEF Grown
    <2> QED BY <2>2, <2>3
<1>2. CASE j \notin Executed
    <2>1. Calm => FALSE
        BY <1>2 DEF Calm
    <2>2. ASSUME NEW s \in Symbols, NEW i \in Nat, EntryPlaced(s, i) \/ ExitPlaced(s, i)
          PROVE  FALSE
        BY <1>2, <2>2 DEF EntryPlaced, ExitPlaced
    <2>3. ASSUME NEW s \in Symbols, NEW i \in Nat, EntryDone(s, i)
          PROVE  \E k \in DOMAIN orders' : orders'[k].oco = j
        <3>1. j = i /\ i \in DOMAIN orders
            BY <1>2, <2>3 DEF EntryDone, Open
        <3>2. orders[i].bracket # None
            BY <3>1, EffectGrows
        <3> QED BY <2>3, <3>1, <3>2 DEF EntryDone
    <2>4. ASSUME NEW s \in Symbols, NEW i \in Nat, ExitDone(s, i)
          PROVE  FALSE
        BY <1>2, <2>4 DEF ExitDone
    <2> QED BY <2>1, <2>2, <2>3, <2>4 DEF Effect, NoEntryDone
<1> QED BY <1>1, <1>2

\* An execution adds one row to the fills and one to the executed orders.
LEMMA CountKept ==
    ASSUME StateInv, Effect
    PROVE  /\ Backed(orders', fills')
           /\ Counted(orders, fills) => Counted(orders', fills')
<1>1. /\ IsFiniteSet(Executed) /\ Cardinality(Executed) \in Nat /\ fills \in Seq(Execution)
      /\ Len(fills) <= Cardinality(Executed)
    <2>1. Executed \subseteq 1 .. n /\ n \in Nat
        BY Basics DEF Executed, ExecutedIn
    <2>2. IsFiniteSet(1 .. n)
        BY <2>1, FS_Interval
    <2>3. IsFiniteSet(Executed)
        BY <2>1, <2>2, FS_Subset
    <2> QED BY <2>3, FS_CardinalityType, Basics DEF Backed, Executed, TypeOK, BooksTyped
<1> DEFINE more(k) == Len(fills') = Len(fills) + k /\ Cardinality(Executed') = Cardinality(Executed) + k
<1>2. ASSUME NEW s \in Symbols, NEW i \in Nat, NEW opens, RowAdded(s, opens),
             i \notin Executed, Executed' = Executed \cup {i}
      PROVE  more(1)
    <2>1. PICK x \in Execution : fills' = Append(fills, x)
        BY <1>2 DEF RowAdded
    <2>2. Len(fills') = Len(fills) + 1
        BY <1>1, <2>1
    <2>3. Cardinality(Executed') = Cardinality(Executed) + 1
        BY <1>1, <1>2, FS_AddElement
    <2> QED BY <2>2, <2>3
<1>3. Calm => more(0)
    BY <1>1 DEF Calm
<1>4. ASSUME NEW s \in Symbols, NEW i \in Nat, EntryPlaced(s, i) \/ ExitPlaced(s, i)
      PROVE  more(0)
    BY <1>1, <1>4 DEF EntryPlaced, ExitPlaced
<1>5. ASSUME NEW s \in Symbols, NEW i \in Nat, EntryDone(s, i) \/ ExitDone(s, i)
      PROVE  more(1)
    <2>1. i \notin Executed
        BY <1>5 DEF EntryDone, ExitDone, Executed, ExecutedIn, Open
    <2> QED BY <1>2, <1>5, <2>1 DEF EntryDone, ExitDone
<1> HIDE DEF more
<1>6. more(0) \/ more(1)
    BY <1>3, <1>4, <1>5 DEF Effect, NoEntryDone
<1>7. Len(fills) \in Nat
    BY <1>1
<1> QED BY <1>1, <1>6, <1>7 DEF more, Backed, Counted, Executed

\* Whatever is open for another symbol stays as it was, and so does its position.
LEMMA AloneKept ==
    ASSUME StateInv, Effect
    PROVE  EntriesAlone'
<1> SUFFICES ASSUME NEW i \in Open', orders'[i].opening
             PROVE  /\ pos'[orders'[i].symbol].qty = 0 \/ orders'[i].symbol \notin Symbols
                    /\ orders'[i].bracket # None
                    /\ \A j \in Open' : orders'[j].symbol = orders'[i].symbol => j = i
    BY DEF EntriesAlone, Pending, OpenFor, Held
<1>1. ASSUME NEW k \in Open, orders[k].opening
      PROVE  /\ orders[k].symbol \notin Held /\ orders[k].bracket # None
             /\ \A j \in Open : orders[j].symbol = orders[k].symbol => j = k
    BY <1>1, Basics DEF EntriesAlone, Pending, OpenFor
<1>2. \A k \in Open : k \in DOMAIN orders /\ orders[k].symbol \in Symbols
    BY Basics DEF Open, Order
<1>3. \A k \in Open : /\ orders'[k].symbol = orders[k].symbol
                      /\ orders'[k].opening = orders[k].opening
                      /\ orders'[k].bracket = orders[k].bracket
    BY <1>2, EffectGrows
<1>4. ASSUME i \in Open, pos'[orders[i].symbol] = pos[orders[i].symbol],
             \A j \in Open' : orders'[j].symbol = orders[i].symbol => j \in Open
      PROVE  /\ pos'[orders'[i].symbol].qty = 0
             /\ orders'[i].bracket # None
             /\ \A j \in Open' : orders'[j].symbol = orders'[i].symbol => j = i
    <2>1. orders'[i].symbol = orders[i].symbol /\ orders[i].opening
          /\ orders'[i].bracket = orders[i].bracket
        BY <1>3, <1>4
    <2>2. pos[orders[i].symbol].qty = 0
        BY <1>1, <1>2, <1>4, <2>1 DEF Held
    <2> QED BY <1>1, <1>3, <1>4, <2>1, <2>2
<1>5. CASE Calm
    BY <1>4, <1>5 DEF Calm
<1>6. ASSUME NEW s \in Symbols, NEW k \in Nat, EntryPlaced(s, k)
      PROVE  /\ pos'[orders'[i].symbol].qty = 0
             /\ orders'[i].bracket # None
             /\ \A j \in Open' : orders'[j].symbol = orders'[i].symbol => j = i
    <2>1. /\ s \notin Held /\ OpenFor(s) = {} /\ pos' = pos /\ k \notin DOMAIN orders
          /\ orders'[k].symbol = s /\ orders'[k].bracket # None
          /\ Open' \subseteq Open \cup {k}
        BY <1>6 DEF EntryPlaced
    <2>2. \A j \in Open : orders[j].symbol # s
        BY <2>1 DEF OpenFor
    <2>3. CASE i = k
        BY <1>3, <2>1, <2>2, <2>3 DEF Held
    <2>4. CASE i # k
        <3>1. i \in Open /\ orders[i].symbol # s
            BY <2>1, <2>2, <2>4
        <3>2. \A j \in Open' : orders'[j].symbol = orders[i].symbol => j \in Open
            BY <2>1, <3>1
        <3> QED BY <1>4, <2>1, <3>1, <3>2
    <2> QED BY <2>3, <2>4
<1>7. ASSUME NEW s \in Symbols, NEW k \in Nat, ExitPlaced(s, k)
      PROVE  /\ pos'[orders'[i].symbol].qty = 0
             /\ orders'[i].bracket # None
             /\ \A j \in Open' : orders'[j].symbol = orders'[i].symbol => j = i
    <2>1. /\ s \in Held /\ pos' = pos /\ orders'[k].symbol = s /\ ~orders'[k].opening
          /\ Open' \subseteq Open \cup {k}
        BY <1>7 DEF ExitPlaced
    <2>2. i \in Open /\ orders[i].opening
        BY <1>3, <2>1
    <2>3. orders[i].symbol # s
        BY <1>1, <2>1, <2>2
    <2>4. \A j \in Open' : orders'[j].symbol = orders[i].symbol => j \in Open
        BY <2>1, <2>3
    <2> QED BY <1>4, <2>1, <2>2, <2>4
<1>8. ASSUME NEW s \in Symbols, NEW k \in Nat, EntryDone(s, k)
      PROVE  /\ pos'[orders'[i].symbol].qty = 0
             /\ orders'[i].bracket # None
             /\ \A j \in Open' : orders'[j].symbol = orders'[i].symbol => j = i
    <2> DEFINE new == DOMAIN orders' \ DOMAIN orders
    <2>1. /\ k \in Open /\ orders[k].opening /\ orders[k].symbol = s
          /\ Open' = (Open \ {k}) \cup new /\ MovedTo(s, pos[s].qty + Sign(orders[k].side) * orders[k].qty)
          /\ \A j \in new : orders'[j].symbol = s /\ ~orders'[j].opening
        BY <1>8 DEF EntryDone
    <2> HIDE DEF new
    <2>2. i \in Open /\ i # k
        BY <2>1
    <2>3. orders[i].symbol # s /\ orders[i].symbol \in Symbols
        BY <1>1, <1>2, <2>1, <2>2
    <2>4. \A j \in Open' : orders'[j].symbol = orders[i].symbol => j \in Open
        BY <2>1, <2>3
    <2>5. pos'[orders[i].symbol] = pos[orders[i].symbol]
        BY <2>1, <2>3 DEF MovedTo
    <2> QED BY <1>4, <2>2, <2>4, <2>5
<1>9. ASSUME NEW s \in Symbols, NEW k \in Nat, ExitDone(s, k)
      PROVE  /\ pos'[orders'[i].symbol].qty = 0
             /\ orders'[i].bracket # None
             /\ \A j \in Open' : orders'[j].symbol = orders'[i].symbol => j = i
    <2>1. Open' = Open \ OpenFor(s) /\ MovedTo(s, 0)
        BY <1>9 DEF ExitDone
    <2>2. i \in Open /\ orders[i].symbol # s /\ orders[i].symbol \in Symbols
        BY <1>2, <2>1 DEF OpenFor
    <2>3. pos'[orders[i].symbol] = pos[orders[i].symbol]
        BY <2>1, <2>2 DEF MovedTo
    <2> QED BY <1>4, <2>1, <2>2, <2>3
<1> QED BY <1>5, <1>6, <1>7, <1>8, <1>9, <1>4 DEF Effect, NoEntryDone

\* Only an accepted entry adds to what has been bought, and it is counted.
LEMMA BoughtMoves ==
    ASSUME StateInv, Effect, NEW r \in Symbols
    PROVE  \/ Bought(r)' \subseteq Bought(r)
           \/ \E i \in Nat : EntryPlaced(r, i) /\ orders'[i].status = "OPEN"
                             /\ Bought(r)' \subseteq Bought(r) \cup {i}
<1> DEFINE live(i) == i \in Open' \cup Executed' /\ orders'[i].symbol = r /\ orders'[i].opening
<1>1. \A i : i \in Bought(r)' <=> live(i)
    BY DEF Bought, Open, Executed, ExecutedIn
<1>2. \A i : i \in Bought(r) <=> i \in Open \cup Executed /\ orders[i].symbol = r /\ orders[i].opening
    BY DEF Bought, Open, Executed, ExecutedIn
<1>3. \A i \in Open \cup Executed :
         i \in DOMAIN orders /\ orders'[i].symbol = orders[i].symbol
         /\ orders'[i].opening = orders[i].opening
    BY EffectGrows DEF Open, Executed, ExecutedIn
<1>4. ASSUME \A i : live(i) => i \in Open \cup Executed
      PROVE  Bought(r)' \subseteq Bought(r)
    BY <1>1, <1>2, <1>3, <1>4
<1>5. Calm => Bought(r)' \subseteq Bought(r)
    BY <1>4 DEF Calm
<1>6. ASSUME NEW s \in Symbols, NEW k \in Nat, EntryPlaced(s, k)
      PROVE  \/ Bought(r)' \subseteq Bought(r)
             \/ \E i \in Nat : EntryPlaced(r, i) /\ orders'[i].status = "OPEN"
                               /\ Bought(r)' \subseteq Bought(r) \cup {i}
    <2>1. /\ orders'[k].symbol = s /\ Executed' = Executed
          /\ Open' = Open \cup {j \in {k} : orders'[j].status = "OPEN"}
        BY <1>6 DEF EntryPlaced
    <2>2. CASE r = s /\ orders'[k].status = "OPEN"
        <3>1. \A i : live(i) => i \in Bought(r) \cup {k}
            BY <1>2, <1>3, <2>1
        <3>2. Bought(r)' \subseteq Bought(r) \cup {k}
            BY <1>1, <3>1
        <3> QED BY <1>6, <2>2, <3>2
    <2>3. CASE r # s \/ orders'[k].status # "OPEN"
        BY <1>4, <2>1, <2>3
    <2> QED BY <2>2, <2>3
<1>7. ASSUME NEW s \in Symbols, NEW k \in Nat, ExitPlaced(s, k)
      PROVE  Bought(r)' \subseteq Bought(r)
    <2>1. ~orders'[k].opening /\ Executed' = Executed /\ Open' \subseteq Open \cup {k}
        BY <1>7 DEF ExitPlaced
    <2> QED BY <1>4, <2>1
<1>8. ASSUME NEW s \in Symbols, NEW k \in Nat, EntryDone(s, k)
      PROVE  Bought(r)' \subseteq Bought(r)
    <2>1. /\ k \in Open /\ Executed' = Executed \cup {k}
          /\ \A i \in DOMAIN orders' \ DOMAIN orders : ~orders'[i].opening
          /\ Open' = (Open \ {k}) \cup (DOMAIN orders' \ DOMAIN orders)
        BY <1>8 DEF EntryDone
    <2> QED BY <1>4, <2>1
<1>9. ASSUME NEW s \in Symbols, NEW k \in Nat, ExitDone(s, k)
      PROVE  Bought(r)' \subseteq Bought(r)
    <2>1. Executed' = Executed \cup {k} /\ ~orders'[k].opening /\ Open' \subseteq Open
        BY <1>9 DEF ExitDone
    <2> QED BY <1>4, <2>1
<1> HIDE DEF live
<1> QED BY <1>5, <1>6, <1>7, <1>8, <1>9 DEF Effect, NoEntryDone

LEMMA TakenKept ==
    ASSUME StateInv, Effect
    PROVE  TakenInv' /\ taken' \in [Symbols -> Nat]
<1>1. /\ taken \in [Symbols -> Nat] /\ SumFunction(taken) <= TradesPerDay
      /\ \A s \in Symbols : Cardinality(Bought(s)) <= taken[s] /\ taken[s] <= TradesPerSymbol
    BY Basics DEF SessionTypeOK, TakenInv
<1>2. \A s \in Symbols : IsFiniteSet(Bought(s)) /\ Cardinality(Bought(s)) \in Nat
    <2> TAKE s \in Symbols
    <2>1. Bought(s) \subseteq 1 .. n /\ n \in Nat
        BY Basics DEF Bought
    <2>2. IsFiniteSet(1 .. n)
        BY <2>1, FS_Interval
    <2>3. IsFiniteSet(Bought(s))
        BY <2>1, <2>2, FS_Subset
    <2> QED BY <2>3, FS_CardinalityType
<1>3. ASSUME NEW s \in Symbols, Bought(s)' \subseteq Bought(s)
      PROVE  Cardinality(Bought(s)') <= taken[s]
    <2>1. Cardinality(Bought(s)') <= Cardinality(Bought(s)) /\ IsFiniteSet(Bought(s)')
        BY <1>2, <1>3, FS_Subset
    <2>2. Cardinality(Bought(s)') \in Nat
        BY <2>1, FS_CardinalityType
    <2> QED BY <1>1, <1>2, <2>1, <2>2
<1>4. CASE taken' = taken /\ \A s \in Symbols : Bought(s)' \subseteq Bought(s)
    BY <1>1, <1>3, <1>4 DEF TakenInv
<1>5. ASSUME NEW s \in Symbols, NEW i \in Nat, EntryPlaced(s, i), orders'[i].status = "OPEN",
             Bought(s)' \subseteq Bought(s) \cup {i},
             \A r \in Symbols \ {s} : Bought(r)' \subseteq Bought(r)
      PROVE  TakenInv' /\ taken' \in [Symbols -> Nat]
    <2>1. taken' = [taken EXCEPT ![s] = @ + 1] /\ taken[s] < TradesPerSymbol
          /\ SumFunction(taken) < TradesPerDay
        BY <1>5 DEF EntryPlaced
    <2>2. taken' \in [Symbols -> Nat] /\ taken'[s] = taken[s] + 1
          /\ \A r \in Symbols \ {s} : taken'[r] = taken[r]
        BY <1>1, <2>1
    <2>3. SumFunction(taken') = SumFunction(taken) + (taken'[s] - taken[s])
        <3>1. taken \in [Symbols -> Int] /\ taken' \in [Symbols -> Int] /\ IsFiniteSet(Symbols)
            BY <1>1, <2>2, SymbolsAssumption
        <3> DEFINE f == taken
                   h == taken'
        <3>2. f \in [Symbols -> Int] /\ h \in [Symbols -> Int] /\ IsFiniteSet(Symbols)
              /\ \A r \in Symbols \ {s} : h[r] = f[r]
            BY <2>2, <3>1
        <3> HIDE DEF f, h
        <3>3. SumFunction(h) = SumFunction(f) + (h[s] - f[s])
            BY <3>2, SumIsFold, Sums!SumMoves
        <3> QED BY <3>3 DEF f, h
    <2>4. SumFunction(taken) \in Nat
        BY <1>1, SymbolsAssumption, SumIsFold, Sums!SumType
    <2>5. SumFunction(taken') <= TradesPerDay
        BY <1>1, <2>1, <2>2, <2>3, <2>4, Constants
    <2>6. Cardinality(Bought(s)') <= taken[s] + 1
        <3>1. IsFiniteSet(Bought(s) \cup {i})
              /\ Cardinality(Bought(s) \cup {i}) <= Cardinality(Bought(s)) + 1
              /\ Cardinality(Bought(s) \cup {i}) \in Nat
            BY <1>2, FS_AddElement, FS_CardinalityType
        <3>2. Cardinality(Bought(s)') <= Cardinality(Bought(s) \cup {i})
              /\ IsFiniteSet(Bought(s)')
            BY <1>5, <3>1, FS_Subset
        <3>3. Cardinality(Bought(s)') \in Nat
            BY <3>2, FS_CardinalityType
        <3> QED BY <1>1, <1>2, <3>1, <3>2, <3>3
    <2>7. \A r \in Symbols : Cardinality(Bought(r)') <= taken'[r] /\ taken'[r] <= TradesPerSymbol
        BY <1>1, <1>3, <1>5, <2>1, <2>2, <2>6, Constants
    <2> QED BY <2>2, <2>5, <2>7 DEF TakenInv
<1>6. ASSUME NEW s \in Symbols, NEW i \in Nat, EntryPlaced(s, i)
      PROVE  TakenInv' /\ taken' \in [Symbols -> Nat]
    <2>1. \A r \in Symbols : \A j \in Nat : EntryPlaced(r, j) => r = s /\ j = i
        BY <1>6 DEF EntryPlaced
    <2>2. \A r \in Symbols \ {s} : Bought(r)' \subseteq Bought(r)
        BY <2>1, BoughtMoves
    <2>3. CASE orders'[i].status = "OPEN"
        <3>1. Bought(s)' \subseteq Bought(s) \cup {i}
            BY <2>1, BoughtMoves
        <3> QED BY <1>5, <1>6, <2>2, <2>3, <3>1
    <2>4. CASE orders'[i].status # "OPEN"
        <3>1. taken' = taken
            BY <1>1, <1>6, <2>4 DEF EntryPlaced
        <3>2. Bought(s)' \subseteq Bought(s)
            BY <2>1, <2>4, BoughtMoves
        <3> QED BY <1>4, <2>2, <3>1, <3>2
    <2> QED BY <2>3, <2>4
<1>7. CASE ~ \E s \in Symbols, i \in Nat : EntryPlaced(s, i)
    <2>1. taken' = taken
        BY <1>7 DEF Effect, NoEntryDone, Calm, ExitPlaced, EntryDone, ExitDone
    <2>2. \A s \in Symbols : Bought(s)' \subseteq Bought(s)
        BY <1>7, BoughtMoves
    <2> QED BY <1>4, <2>1, <2>2
<1> QED BY <1>6, <1>7

\* The session's own state, and the clock that its stamps advance.
TypedState ==
    /\ minute \in 0 .. MaxTime /\ stepped \in -1 .. minute /\ stage \in Stage
    /\ asOf \in 0 .. stepped \cup {None} /\ dayOver \in BOOLEAN
    /\ asked \subseteq [symbol : Symbols, side : Side]
    /\ entered \in [Symbols -> Times] /\ restarts \in 0 .. MaxRestarts
    /\ cut \subseteq {"db", "disk", "session"} /\ lost \subseteq Nat
    /\ ltp \in [Symbols -> Prices \cup {None}]
InStage ==
    /\ phase = "square" <=> stage \in {"closing", "ending"}
    /\ phase = "tick" => stage = "idle"

LEMMA SessionParts == SessionTypeOK <=> TypedState /\ InStage /\ taken \in [Symbols -> Nat]
BY DEF SessionTypeOK, TypedState, InStage, Times

LEMMA ClockAdvances ==
    ASSUME NEW at \in 0 .. MaxTime, Advance(at)
    PROVE  clock' \in Times
BY DEF Advance, Times

LEMMA TickTypes ==
    ASSUME StateInv, TickSteps
    PROVE  TypedState' /\ InStage' /\ clock' \in Times
<1>1. TypedState /\ InStage /\ clock \in Times /\ \A i \in DOMAIN orders : orders[i] \in Order
    BY Basics, SessionParts DEF TimesInv
<1>2. ASSUME NEW i \in DOMAIN orders, TickEntry(i)
      PROVE  TypedState' /\ InStage' /\ clock' \in Times
    <2>1. /\ UNCHANGED <<session, past, ltp, phase, clock>>
          /\ entered' = [entered EXCEPT ![orders[i].symbol] = clock]
        BY <1>2 DEF TickEntry, EntryFills, Visit, Logged, time
    <2>2. entered' \in [Symbols -> Times]
        BY <1>1, <2>1 DEF TypedState
    <2> QED BY <1>1, <2>1, <2>2 DEF TypedState, InStage, past, session
<1>3. CASE TickOther
    <2>1. UNCHANGED <<session, strategy, past, ltp, clock>>
        BY <1>3 DEF TickOther, Logged, VisitUntouched, ExitTooLate, EntryOpposed,
              EntryUnfunded, ExitFills, Visit, EndTick, time
    <2>2. phase = "tick" /\ phase' \in {"tick", "idle"}
        BY <1>3 DEF TickOther, VisitUntouched, ExitTooLate, EntryOpposed,
              EntryUnfunded, ExitFills, Visit, Visited, EndTick
    <2> QED BY <1>1, <2>1, <2>2 DEF TypedState, InStage, past, session, strategy
<1> QED BY <1>2, <1>3 DEF TickSteps

LEMMA MinuteTypes ==
    ASSUME StateInv, MinuteSteps \/ Stop
    PROVE  TypedState' /\ InStage' /\ clock' \in Times
<1>1. /\ TypedState /\ InStage /\ clock \in Times
      /\ Stamp(minute) \in 0 .. MaxTime /\ Stamp(EndTime) \in 0 .. MaxTime /\ MaxTime \in Nat
    BY Basics, SessionParts, StampsBounded, Constants DEF TimesInv
<1>2. ASSUME UNCHANGED <<vars, entered, ltp, restarts, lost, minute, asked>>,
             cut' \subseteq {"db", "disk", "session"},
             stepped' \in -1 .. minute, asOf' \in 0 .. stepped' \cup {None},
             dayOver' \in BOOLEAN, stage' \in Stage,
             stage \notin {"closing", "ending"}, stage' \notin {"closing", "ending"},
             phase = "tick" => stage' = "idle"
      PROVE  TypedState' /\ InStage' /\ clock' \in Times
    <2>1. phase' = phase /\ clock' = clock
        BY <1>2 DEF vars, time, call
    <2> QED BY <1>1, <1>2, <2>1 DEF TypedState, InStage, past
<1>3. CASE BeginStep
    <2>1. /\ phase = "idle" /\ stage = "idle" /\ UNCHANGED <<vars, minute, dayOver, strategy, ltp, past>>
          /\ stepped' = minute /\ asOf' = minute /\ stage' = "bars" /\ asked' = {}
        BY <1>3 DEF BeginStep
    <2>2. phase' = phase /\ clock' = clock
        BY <2>1 DEF vars, time, call
    <2> QED BY <1>1, <2>1, <2>2 DEF TypedState, InStage, past, strategy, Stage
<1>4. CASE CallStrategy \/ SkipStrategy \/ EndExits \/ EndEntries
    <2>1. /\ stage \in {"bars", "exits", "entries"} /\ stage' \in {"exits", "entries", "commit"}
          /\ UNCHANGED <<vars, minute, stepped, asOf, dayOver, asked, strategy, ltp, past>>
        BY <1>4 DEF CallStrategy, SkipStrategy, EndExits, EndEntries, ledger
    <2>2. phase # "tick"
        BY <1>1, <2>1 DEF InStage
    <2> QED BY <1>1, <1>2, <2>1, <2>2 DEF TypedState, past, strategy, Stage
<1>5. CASE Commit
    <2>1. /\ stage \in {"commit", "end_commit"} /\ stage' \in {"idle", "stopped"}
          /\ UNCHANGED <<vars, minute, stepped, asOf, dayOver, asked, strategy, ltp, restarts, lost>>
          /\ cut' = cut \ {"disk"}
        BY <1>5 DEF Commit
    <2>2. phase # "tick"
        BY <1>1, <2>1 DEF InStage
    <2> QED BY <1>1, <1>2, <2>1, <2>2 DEF TypedState, past, strategy, Stage
<1>6. ASSUME NEW at \in 0 .. MaxTime, BeginSquareOff(at), stage' \in {"closing", "ending"},
             UNCHANGED <<minute, stepped, asOf, dayOver, asked, strategy, ltp, past>>
      PROVE  TypedState' /\ InStage' /\ clock' \in Times
    <2>1. phase' = "square" /\ clock' \in Times
        BY <1>6, ClockAdvances DEF BeginSquareOff
    <2> QED BY <1>1, <1>6, <2>1 DEF TypedState, InStage, past, strategy, Stage
<1>7. CASE CloseDay
    BY <1>1, <1>6, <1>7 DEF CloseDay, Logged
<1>8. CASE Stop
    <2>1. CASE BeginSquareOff(Stamp(EndTime)) /\ Logged /\ stage' = "ending" /\ dayOver' = dayOver
        BY <1>1, <1>6, <1>8, <2>1 DEF Stop, Logged
    <2>2. CASE stage' = "end_commit" /\ dayOver' = TRUE /\ UNCHANGED <<vars, ledger, past>>
        <3>1. stage = "idle" /\ phase = "idle"
              /\ UNCHANGED <<minute, stepped, asOf, asked, strategy, ltp>>
            BY <1>8 DEF Stop
        <3> QED BY <1>1, <1>2, <2>2, <3>1 DEF TypedState, past, strategy, Stage
    <2> QED BY <1>8, <2>1, <2>2 DEF Stop
<1>9. ASSUME NEW s \in Symbols, TimeExit(s)
      PROVE  TypedState' /\ InStage' /\ clock' \in Times
    <2>1. UNCHANGED <<session, strategy, ltp, past, phase, clock>>
        BY <1>9 DEF TimeExit, ExitPosition, Logged, time, call
    <2> QED BY <1>1, <2>1 DEF TypedState, InStage, past, session, strategy
<1>10. CASE ClosingStep
    <2>1. UNCHANGED <<session, strategy, ltp, past, phase, clock>>
        BY <1>10 DEF ClosingStep, ClosePosition, Logged, time
    <2> QED BY <1>1, <2>1 DEF TypedState, InStage, past, session, strategy
<1>11. CASE SquareOffDone
    <2>1. /\ UNCHANGED <<minute, stepped, asOf, asked, strategy, ltp, past, clock>>
          /\ phase' = "idle" /\ dayOver' = TRUE /\ stage' \in {"commit", "end_commit"}
        BY <1>11 DEF SquareOffDone, EndSquareOff, Logged
    <2> QED BY <1>1, <2>1 DEF TypedState, InStage, past, strategy, Stage
<1> QED BY <1>3, <1>4, <1>5, <1>7, <1>8, <1>9, <1>10, <1>11 DEF MinuteSteps

LEMMA StrategyTypes ==
    ASSUME StateInv, StrategySteps
    PROVE  TypedState' /\ InStage' /\ clock' \in Times
<1>1. /\ TypedState /\ InStage /\ clock \in Times
      /\ Stamp(minute) \in 0 .. MaxTime
    BY Basics, SessionParts, StampsBounded DEF TimesInv
<1>2. ASSUME NEW s \in Symbols, NEW p \in Prices, PumpTick(s, p)
      PROVE  TypedState' /\ InStage' /\ clock' \in Times
    <2>1. /\ UNCHANGED <<session, strategy, past>> /\ ltp' = [ltp EXCEPT ![s] = p]
          /\ phase' = "tick" /\ stage = "idle" /\ clock' \in Times
        BY <1>1, <1>2, ClockAdvances DEF PumpTick, BeginTick, Logged
    <2> QED BY <1>1, <2>1 DEF TypedState, InStage, past, session, strategy
<1>3. ASSUME NEW s \in Symbols, NEW p \in Prices, MarkBar(s, p)
      PROVE  TypedState' /\ InStage' /\ clock' \in Times
    <2>1. UNCHANGED <<session, strategy, ltp, past, phase, clock>>
        BY <1>3 DEF MarkBar, Mark, Logged, time, call
    <2> QED BY <1>1, <2>1 DEF TypedState, InStage, past, session, strategy
<1>4. ASSUME NEW s \in Symbols, StallExit(s)
      PROVE  TypedState' /\ InStage' /\ clock' \in Times
    <2>1. UNCHANGED <<session, strategy, ltp, past, phase, clock>>
        BY <1>4 DEF StallExit, ExitPosition, Logged, time, call
    <2> QED BY <1>1, <2>1 DEF TypedState, InStage, past, session, strategy
<1>5. ASSUME NEW s \in Symbols, NEW side \in Side, NEW q \in Quantities, NEW b \in Brackets,
             Enter(s, side, q, b)
      PROVE  TypedState' /\ InStage' /\ clock' \in Times
    <2>1. /\ UNCHANGED <<minute, stepped, stage, asOf, dayOver, entered, ltp, past, phase, clock>>
          /\ asked' = asked \cup {[symbol |-> s, side |-> side]}
        BY <1>5 DEF Enter, PlaceOrder, Logged, time, call
    <2> QED BY <1>1, <2>1 DEF TypedState, InStage, past
<1> QED BY <1>2, <1>3, <1>4, <1>5 DEF StrategySteps

LEMMA SessionTypes ==
    ASSUME StateInv, [SNext]_svars, ~Restart
    PROVE  TypedState' /\ InStage' /\ clock' \in Times
<1>1. /\ TypedState /\ InStage /\ clock \in Times /\ MaxTime \in Nat
    BY Basics, SessionParts, Constants DEF TimesInv
<1>2. CASE WriteRow \/ ForeignCommit \/ UNCHANGED svars
    <2>1. /\ UNCHANGED <<session, strategy, ltp, restarts, lost, phase, clock>>
          /\ cut' \subseteq cut \cup {"db", "disk"}
        BY <1>2 DEF WriteRow, ForeignCommit, svars, past, vars, time, call
    <2> QED BY <1>1, <2>1 DEF TypedState, InStage, past, session, strategy
<1>3. CASE Elapse
    <2>1. /\ UNCHANGED <<stepped, stage, asOf, dayOver, asked, entered, ltp, past, phase, clock>>
          /\ minute' = minute + 1 /\ minute < MaxTime
        BY <1>3 DEF Elapse, vars, time, call, strategy
    <2> QED BY <1>1, <2>1 DEF TypedState, InStage, past
<1> QED BY <1>2, <1>3, TickTypes, MinuteTypes, StrategyTypes DEF SNext

\* Every effect of a session's step keeps the state sound.
LEMMA StateStep ==
    ASSUME StateInv, [SNext]_svars, ~Restart
    PROVE  StateInv'
<1>1. Effect /\ BrokerStep
    BY Effects
<1>2. IInv' /\ AccountInv'
    <2>1. IInv /\ AccountInv
        BY DEF StateInv
    <2>2. CASE [Next]_vars
        BY <2>1, <2>2, InvStep, AccountStep
    <2>3. ASSUME NEW s \in Held, ExitPosition(s)
          PROVE  IInv' /\ AccountInv'
        BY <2>1, <2>3, ExitKeeps
    <2> QED BY <1>1, <2>2, <2>3 DEF BrokerStep
<1>3. OrdersInv'
    <2>1. orders' = [i \in DOMAIN orders' |-> orders'[i]]
        BY <1>1, EffectGrows DEF Grown
    <2> QED BY <1>1, <2>1, PlainKept, FitKept, CountKept DEF OrdersInv
<1>4. EntriesAlone' /\ TakenInv' /\ taken' \in [Symbols -> Nat]
    BY <1>1, AloneKept, TakenKept
<1>5. SessionTypeOK' /\ clock' \in Times
    <2>1. (TypedState /\ InStage /\ taken \in [Symbols -> Nat])' /\ clock' \in Times
        BY <1>4, SessionTypes
    <2> QED BY <2>1, SessionParts, PTL
<1>6. TimesInv'
    <2>1. fills \in Seq(Execution) /\ clock \in Times /\ \A k \in DOMAIN fills : fills[k].at \in Times
        BY Basics DEF TypeOK, BooksTyped, TimesInv
    <2>2. fills' = fills \/ \E x \in Execution : x.at = clock /\ fills' = Append(fills, x)
        BY <1>1 DEF Effect, NoEntryDone, Calm, EntryPlaced, ExitPlaced, EntryDone, ExitDone, RowAdded
    <2>3. \A k \in DOMAIN fills' : fills'[k].at \in Times
        <3>1. ASSUME NEW x \in Execution, x.at = clock, fills' = Append(fills, x)
              PROVE  \A k \in DOMAIN fills' : fills'[k].at \in Times
            BY <2>1, <3>1
        <3> QED BY <2>1, <2>2, <3>1
    <2> QED BY <1>5, <2>3 DEF TimesInv
<1> QED BY <1>2, <1>3, <1>4, <1>5, <1>6 DEF StateInv

\* And what is exact stays so.
LEMMA ExactStep ==
    ASSUME StateInv, ExactInv, [SNext]_svars, ~Restart
    PROVE  ExactInv'
<1>1. Effect /\ BrokerStep
    BY Effects
<1>2. IInv /\ AccountInv /\ TypeOK /\ OneExitPerBracket /\ CashReconciles
      /\ Attached(orders) /\ Counted(orders, fills)
    BY DEF StateInv, IInv, ExactInv
<1>3. OneExitPerBracket' /\ CashReconciles'
    <2>1. CASE [Next]_vars
        BY <1>2, <2>1, BracketStep, CashStep
    <2>2. ASSUME NEW s \in Held, ExitPosition(s)
          PROVE  OneExitPerBracket' /\ CashReconciles'
        BY <1>2, <2>2, ExitExact
    <2> QED BY <1>1, <2>1, <2>2 DEF BrokerStep
<1> QED BY <1>1, <1>2, <1>3, AttachedKept, CountKept DEF ExactInv

------------------------------------------------------------------------------
(* The rows of a call: what changed, and nothing else.                     *)

\* Ranked enumerates a set of ids.
LEMMA Ranking ==
    ASSUME NEW T \in SUBSET Nat, IsFiniteSet(T)
    PROVE  /\ Cardinality(T) \in Nat
           /\ \A k \in 1 .. Cardinality(T) : Ranked(T, k) \in T
           /\ \A i \in T : \E k \in 1 .. Cardinality(T) : Ranked(T, k) = i
<1> DEFINE below(i) == {j \in T : j < i}
           m == Cardinality(T)
           rank == [i \in T |-> Cardinality(below(i)) + 1]
<1>1. m \in Nat /\ IsFiniteSet(1 .. m) /\ Cardinality(1 .. m) = m
    BY FS_CardinalityType, FS_Interval
<1>2. \A i \in T : IsFiniteSet(below(i)) /\ Cardinality(below(i)) \in Nat
    BY FS_Subset, FS_CardinalityType
<1>3. \A i \in T : Cardinality(below(i)) + 1 <= m
    <2> TAKE i \in T
    <2>1. i \notin below(i) /\ below(i) \cup {i} \in SUBSET T
        BY DEF below
    <2>2. Cardinality(below(i) \cup {i}) = Cardinality(below(i)) + 1
        BY <1>2, <2>1, FS_AddElement
    <2> QED BY <2>1, <2>2, FS_Subset
<1>4. \A i, j \in T : i < j => Cardinality(below(i)) < Cardinality(below(j))
    <2> SUFFICES ASSUME NEW i \in T, NEW j \in T, i < j
                 PROVE  Cardinality(below(i)) < Cardinality(below(j))
        OBVIOUS
    <2>0. i \in Nat /\ j \in Nat /\ \A h \in T : h \in Nat
        OBVIOUS
    <2>1. i \notin below(i) /\ below(i) \cup {i} \in SUBSET below(j)
        <3>1. i \notin below(i)
            BY <2>0 DEF below
        <3>2. \A h \in below(i) \cup {i} : h \in T /\ h < j
            BY <2>0 DEF below
        <3> QED BY <3>1, <3>2 DEF below
    <2>2. Cardinality(below(i) \cup {i}) = Cardinality(below(i)) + 1
        BY <1>2, <2>1, FS_AddElement
    <2>3. Cardinality(below(i) \cup {i}) <= Cardinality(below(j))
        BY <1>2, <2>1, FS_Subset
    <2> QED BY <1>2, <2>2, <2>3
<1> HIDE DEF below, m
<1>5. rank \in [T -> 1 .. m]
    BY <1>1, <1>2, <1>3
<1>6. \A i, j \in T : rank[i] = rank[j] => i = j
    <2> SUFFICES ASSUME NEW i \in T, NEW j \in T, rank[i] = rank[j], i # j
                 PROVE  FALSE
        OBVIOUS
    <2>1. i \in Nat /\ j \in Nat /\ (i < j \/ j < i)
        OBVIOUS
    <2> QED BY <1>2, <1>4, <2>1
<1>7. \A k \in 1 .. m : \E i \in T : rank[i] = k
    <2> HIDE DEF rank
    <2>1. rank \in Injection(T, 1 .. m)
        BY <1>5, <1>6 DEF Injection, IsInjective
    <2>2. rank \in Surjection(T, 1 .. m)
        BY <1>1, <2>1, FS_Injection DEF m
    <2> QED BY <2>2 DEF Surjection
<1>8. \A k \in 1 .. m : \A i \in T : rank[i] = k => Ranked(T, k) = i
    <2> SUFFICES ASSUME NEW k \in 1 .. m, NEW i \in T, rank[i] = k
                 PROVE  Ranked(T, k) = i
        OBVIOUS
    <2> DEFINE fits(j) == Cardinality({h \in T : h < j}) = k - 1
    <2>1. \A j \in T : fits(j) <=> rank[j] = k
        <3> TAKE j \in T
        <3>1. fits(j) <=> Cardinality(below(j)) = k - 1
            BY DEF below
        <3> HIDE DEF fits
        <3> QED BY <1>1, <1>2, <3>1
    <2>2. fits(i) /\ \A j \in T : fits(j) => j = i
        BY <1>6, <2>1
    <2>3. Ranked(T, k) = CHOOSE j \in T : fits(j)
        BY DEF Ranked
    <2> HIDE DEF fits
    <2> QED BY <2>2, <2>3
<1>9. \A k \in 1 .. m : Ranked(T, k) \in T
    BY <1>7, <1>8
<1>10. \A i \in T : \E k \in 1 .. m : Ranked(T, k) = i
    BY <1>5, <1>8
<1> QED BY <1>1, <1>9, <1>10 DEF m

\* The rows of one broker call, taken apart: two runs of orders around a fill,
\* and a round trip.
Chained(q, a, b, c, d) ==
    LET la == Len(a)  lb == Len(b)  lc == Len(c)  ld == Len(d)
    IN  /\ la \in Nat /\ lb \in Nat /\ lc \in Nat /\ ld \in Nat
        /\ DOMAIN q = 1 .. la + lb + lc + ld
        /\ \A k \in 1 .. la : q[k] = a[k]
        /\ \A k \in 1 .. lb : q[la + k] = b[k]
        /\ \A k \in 1 .. lc : q[la + lb + k] = c[k]
        /\ \A k \in 1 .. ld : q[la + lb + lc + k] = d[k]

LEMMA Joined ==
    ASSUME NEW S, NEW a \in Seq(S), NEW b \in Seq(S), NEW c \in Seq(S), NEW d \in Seq(S)
    PROVE  a \o b \o c \o d \in Seq(S) /\ Chained(a \o b \o c \o d, a, b, c, d)
<1> DEFINE ab == a \o b
           abc == ab \o c
           q == abc \o d
<1>1. /\ ab \in Seq(S) /\ Len(ab) = Len(a) + Len(b)
      /\ \A k \in 1 .. Len(a) : ab[k] = a[k]
      /\ \A k \in 1 .. Len(b) : ab[Len(a) + k] = b[k]
    OBVIOUS
<1>0. \A x, y \in Seq(S) :
         /\ x \o y \in Seq(S) /\ Len(x \o y) = Len(x) + Len(y)
         /\ DOMAIN (x \o y) = 1 .. Len(x) + Len(y)
         /\ \A k \in 1 .. Len(x) : (x \o y)[k] = x[k]
         /\ \A k \in 1 .. Len(y) : (x \o y)[Len(x) + k] = y[k]
    <2> TAKE x, y \in Seq(S)
    <2> QED OBVIOUS
<1> HIDE DEF ab
<1>2. /\ abc \in Seq(S) /\ Len(abc) = Len(ab) + Len(c)
      /\ \A k \in 1 .. Len(ab) : abc[k] = ab[k]
      /\ \A k \in 1 .. Len(c) : abc[Len(ab) + k] = c[k]
    BY <1>0, <1>1, Zenon
<1> HIDE DEF abc
<1>3. /\ q \in Seq(S) /\ Len(q) = Len(abc) + Len(d) /\ DOMAIN q = 1 .. Len(abc) + Len(d)
      /\ \A k \in 1 .. Len(abc) : q[k] = abc[k]
      /\ \A k \in 1 .. Len(d) : q[Len(abc) + k] = d[k]
    BY <1>0, <1>2, Zenon
<1> HIDE DEF q
<1>4. Len(a) \in Nat /\ Len(b) \in Nat /\ Len(c) \in Nat /\ Len(d) \in Nat
    OBVIOUS
<1>5. q \in Seq(S) /\ DOMAIN q = 1 .. Len(a) + Len(b) + Len(c) + Len(d)
    BY <1>1, <1>2, <1>3
<1>6. \A k \in 1 .. Len(a) : q[k] = a[k]
    <2> TAKE k \in 1 .. Len(a)
    <2>1. k \in 1 .. Len(ab) /\ k \in 1 .. Len(abc)
        BY <1>1, <1>2, <1>4
    <2> QED BY <1>1, <1>2, <1>3, <2>1
<1>7. \A k \in 1 .. Len(b) : q[Len(a) + k] = b[k]
    <2> TAKE k \in 1 .. Len(b)
    <2>1. Len(a) + k \in 1 .. Len(ab) /\ Len(a) + k \in 1 .. Len(abc)
        BY <1>1, <1>2, <1>4
    <2> QED BY <1>1, <1>2, <1>3, <2>1
<1>8. \A k \in 1 .. Len(c) : q[Len(a) + Len(b) + k] = c[k]
    <2> TAKE k \in 1 .. Len(c)
    <2>1. Len(ab) + k \in 1 .. Len(abc)
        BY <1>1, <1>2, <1>4
    <2> QED BY <1>1, <1>2, <1>3, <2>1
<1>9. \A k \in 1 .. Len(d) : q[Len(a) + Len(b) + Len(c) + k] = d[k]
    BY <1>1, <1>2, <1>3
<1>10. Chained(q, a, b, c, d)
    BY <1>4, <1>5, <1>6, <1>7, <1>8, <1>9 DEF Chained
<1>11. q = a \o b \o c \o d
    BY DEF q, abc, ab
<1> QED BY <1>5, <1>10, <1>11

OrderRows(ids) ==
    [k \in 1 .. Cardinality(ids) |-> Row("orders", Ranked(ids, k), orders'[Ranked(ids, k)])]
IsOrderRow(r, ids) == r.table = "orders" /\ r.id \in ids /\ r.row = orders'[r.id]

LEMMA RowsOfOrders ==
    ASSUME OrdersTyped', NEW ids \in SUBSET DOMAIN orders'
    PROVE  /\ OrderRows(ids) \in Seq(AnyRow)
           /\ \A k \in 1 .. Len(OrderRows(ids)) : IsOrderRow(OrderRows(ids)[k], ids)
           /\ \A i \in ids : \E k \in 1 .. Len(OrderRows(ids)) : OrderRows(ids)[k].id = i
<1> DEFINE m == Cardinality(ids)
           at(k) == Ranked(ids, k)
           q == OrderRows(ids)
<1>1. /\ ids \in SUBSET Nat /\ IsFiniteSet(ids)
      /\ \A i \in ids : orders'[i] \in Order /\ i \in Nat
    <2>1. n' \in Nat /\ ids \subseteq 1 .. n' /\ \A i \in ids : orders'[i] \in Order
        BY DEF OrdersTyped
    <2>2. IsFiniteSet(1 .. n')
        BY <2>1, FS_Interval
    <2>3. IsFiniteSet(ids)
        BY <2>1, <2>2, FS_Subset
    <2> QED BY <2>1, <2>3
<1>2. /\ m \in Nat /\ \A k \in 1 .. m : at(k) \in ids
      /\ \A i \in ids : \E k \in 1 .. m : at(k) = i
    BY <1>1, Ranking
<1> HIDE DEF at, m
<1>3. q = [k \in 1 .. m |-> Row("orders", at(k), orders'[at(k)])]
    BY DEF OrderRows, at, m
<1>4. \A k \in 1 .. m : Row("orders", at(k), orders'[at(k)]) \in AnyRow
    BY <1>1, <1>2 DEF Row, AnyRow
<1> HIDE DEF q
<1>5. q \in Seq(AnyRow) /\ Len(q) = m
    BY <1>2, <1>3, <1>4
<1>6. \A k \in 1 .. m : q[k].table = "orders" /\ q[k].id = at(k) /\ q[k].row = orders'[at(k)]
    BY <1>3 DEF Row
<1> QED BY <1>2, <1>5, <1>6 DEF IsOrderRow, q

\* What a broker call has added to the books' rows.
BookRows ==
    /\ fills' = fills \/ \E x \in Execution : fills' = Append(fills, x)
    /\ trades' = trades \/ \E y \in Closed : trades' = Append(trades, y)

LEMMA BooksGrow ==
    ASSUME StateInv, BrokerStep
    PROVE  BookRows
<1>1. TypeOK /\ IInv
    BY DEF StateInv, IInv
<1>2. CASE UNCHANGED Books
    BY <1>2 DEF Books, BookRows
<1>3. ASSUME NEW o \in Order, NEW price \in Int, Booked(o, price)
      PROVE  BookRows
    <2> DEFINE s == o.symbol
               x == ExecutionOf(o, price)
               t == TradeAfter(trade[s], x)
               closed == ~o.opening /\ PositionAfter(pos[s], x).qty = 0
    <2>1. /\ s \in Symbols /\ x \in Execution /\ t \in Trade /\ fills' = Append(fills, x)
          /\ trades' = IF closed THEN Append(trades, ClosedTrade(s, t)) ELSE trades
        BY <1>1, <1>3, FillNumbers
    <2> HIDE DEF s, x, t, closed
    <2>2. ClosedTrade(s, t) \in Closed
        BY <2>1, FlowInt DEF ClosedTrade, Closed, Trade
    <2> QED BY <2>1, <2>2 DEF BookRows
<1>4. CASE [Next]_vars
    BY <1>1, <1>2, <1>3, <1>4, StepBooks
<1>5. ASSUME NEW s \in Held, ExitPosition(s)
      PROVE  BookRows
    BY <1>5 DEF ExitPosition, book, BookRows
<1> QED BY <1>4, <1>5 DEF BrokerStep

\* What is in the queue after a call.
IsBookRow(r, table, rows, more) ==
    r.table = table /\ more # rows /\ r.row = Last(more)

LEMMA Enqueued ==
    ASSUME StateInv, OrdersTyped', BookRows
    PROVE  LET q == RowsOfCall
           IN  /\ q \in Seq(AnyRow)
               /\ \A k \in DOMAIN q : \/ IsOrderRow(q[k], Changed)
                                      \/ IsBookRow(q[k], "fills", fills, fills')
                                      \/ IsBookRow(q[k], "trades", trades, trades')
               /\ \A table \in {"fills", "trades"} :
                     \A j, k \in QueuedIn(q, table) : j = k
               /\ \A i \in Changed : \E k \in QueuedIn(q, "orders") : q[k].id = i
               /\ fills' # fills => QueuedIn(q, "fills") # {}
               /\ trades' # trades => QueuedIn(q, "trades") # {}
               /\ ExecutedFirst(q)
<1> DEFINE E == {i \in Changed : orders'[i].status = "FILLED"}
           D == Changed \ E
           a == OrderRows(E)
           b == IF fills' = fills THEN <<>> ELSE <<Row("fills", 0, Last(fills'))>>
           c == OrderRows(D)
           d == IF trades' = trades THEN <<>> ELSE <<Row("trades", 0, Last(trades'))>>
           q == RowsOfCall
<1>1. q = a \o b \o c \o d
    BY DEF RowsOfCall, OrderRows
<1>2. E \in SUBSET DOMAIN orders' /\ D \in SUBSET DOMAIN orders' /\ E \subseteq Changed
      /\ D \subseteq Changed /\ Changed = E \cup D
      /\ (\A i \in E : orders'[i].status = "FILLED")
      /\ \A i \in D : orders'[i].status # "FILLED"
    BY DEF Changed
<1> HIDE DEF E, D
<1>3. /\ a \in Seq(AnyRow) /\ \A k \in 1 .. Len(a) : IsOrderRow(a[k], E)
      /\ \A i \in E : \E k \in 1 .. Len(a) : a[k].id = i
    BY <1>2, RowsOfOrders
<1>4. /\ c \in Seq(AnyRow) /\ \A k \in 1 .. Len(c) : IsOrderRow(c[k], D)
      /\ \A i \in D : \E k \in 1 .. Len(c) : c[k].id = i
    BY <1>2, RowsOfOrders
<1>5. /\ b \in Seq(AnyRow) /\ Len(b) = IF fills' = fills THEN 0 ELSE 1
      /\ \A k \in 1 .. Len(b) : IsBookRow(b[k], "fills", fills, fills')
    <2>1. CASE fills' = fills
        BY <2>1
    <2>2. CASE fills' # fills
        <3>1. PICK x \in Execution : fills' = Append(fills, x)
            BY <2>2 DEF BookRows
        <3>2. fills \in Seq(Execution)
            BY Basics DEF TypeOK, BooksTyped
        <3>3. Last(fills') = x
            BY <3>1, <3>2 DEF Last
        <3>4. Row("fills", 0, Last(fills')) \in AnyRow
            BY <3>3 DEF Row, AnyRow
        <3>5. b = <<Row("fills", 0, Last(fills'))>>
            BY <2>2
        <3> HIDE DEF b
        <3>6. b \in Seq(AnyRow) /\ Len(b) = 1 /\ b[1] = Row("fills", 0, Last(fills'))
            BY <3>4, <3>5
        <3> QED BY <2>2, <3>6 DEF Row, IsBookRow
    <2> QED BY <2>1, <2>2
<1>6. /\ d \in Seq(AnyRow) /\ Len(d) = IF trades' = trades THEN 0 ELSE 1
      /\ \A k \in 1 .. Len(d) : IsBookRow(d[k], "trades", trades, trades')
    <2>1. CASE trades' = trades
        BY <2>1
    <2>2. CASE trades' # trades
        <3>1. PICK x \in Closed : trades' = Append(trades, x)
            BY <2>2 DEF BookRows
        <3>2. trades \in Seq(Closed)
            BY Basics DEF TypeOK, BooksTyped
        <3>3. Last(trades') = x
            BY <3>1, <3>2 DEF Last
        <3>4. Row("trades", 0, Last(trades')) \in AnyRow
            BY <3>3 DEF Row, AnyRow
        <3>5. d = <<Row("trades", 0, Last(trades'))>>
            BY <2>2
        <3> HIDE DEF d
        <3>6. d \in Seq(AnyRow) /\ Len(d) = 1 /\ d[1] = Row("trades", 0, Last(trades'))
            BY <3>4, <3>5
        <3> QED BY <2>2, <3>6 DEF Row, IsBookRow
    <2> QED BY <2>1, <2>2
<1> HIDE DEF a, b, c, d, q
<1> DEFINE la == Len(a)
           lb == Len(b)
           lc == Len(c)
           ld == Len(d)
<1>7. /\ q \in Seq(AnyRow) /\ la \in Nat /\ lb \in Nat /\ lc \in Nat /\ ld \in Nat
      /\ DOMAIN q = 1 .. la + lb + lc + ld
      /\ \A k \in 1 .. la : q[k] = a[k]
      /\ \A k \in 1 .. lb : q[la + k] = b[k]
      /\ \A k \in 1 .. lc : q[la + lb + k] = c[k]
      /\ \A k \in 1 .. ld : q[la + lb + lc + k] = d[k]
    <2>1. a \in Seq(AnyRow) /\ b \in Seq(AnyRow) /\ c \in Seq(AnyRow) /\ d \in Seq(AnyRow)
        BY <1>3, <1>4, <1>5, <1>6
    <2>2. a \o b \o c \o d \in Seq(AnyRow) /\ Chained(a \o b \o c \o d, a, b, c, d)
        BY <2>1, Joined
    <2>3. q \in Seq(AnyRow) /\ Chained(q, a, b, c, d)
        BY <1>1, <2>2
    <2> QED BY <2>3 DEF Chained
<1> HIDE DEF la, lb, lc, ld
<1>8. \A k \in DOMAIN q :
         \/ k \in 1 .. la /\ IsOrderRow(q[k], E)
         \/ k \in la + 1 .. la + lb /\ IsBookRow(q[k], "fills", fills, fills')
         \/ k \in la + lb + 1 .. la + lb + lc /\ IsOrderRow(q[k], D)
         \/ k \in la + lb + lc + 1 .. la + lb + lc + ld
               /\ IsBookRow(q[k], "trades", trades, trades')
    <2> TAKE k \in DOMAIN q
    <2>1. CASE k \in 1 .. la
        BY <1>3, <1>7, <2>1 DEF la
    <2>2. CASE k \in la + 1 .. la + lb
        <3>1. k - la \in 1 .. lb /\ k = la + (k - la)
            BY <1>7, <2>2
        <3>2. q[k] = b[k - la]
            BY <1>7, <3>1
        <3> QED BY <1>5, <2>2, <3>1, <3>2 DEF lb
    <2>3. CASE k \in la + lb + 1 .. la + lb + lc
        <3>1. k - (la + lb) \in 1 .. lc /\ k = la + lb + (k - (la + lb))
            BY <1>7, <2>3
        <3>2. q[k] = c[k - (la + lb)]
            BY <1>7, <3>1
        <3> QED BY <1>4, <2>3, <3>1, <3>2 DEF lc
    <2>4. CASE k \in la + lb + lc + 1 .. la + lb + lc + ld
        <3>1. k - (la + lb + lc) \in 1 .. ld /\ k = la + lb + lc + (k - (la + lb + lc))
            BY <1>7, <2>4
        <3>2. q[k] = d[k - (la + lb + lc)]
            BY <1>7, <3>1
        <3> QED BY <1>6, <2>4, <3>1, <3>2 DEF ld
    <2> QED BY <1>7, <2>1, <2>2, <2>3, <2>4
<1>9. \A k \in DOMAIN q : \/ IsOrderRow(q[k], Changed)
                          \/ IsBookRow(q[k], "fills", fills, fills')
                          \/ IsBookRow(q[k], "trades", trades, trades')
    BY <1>2, <1>8 DEF IsOrderRow
<1>10. \A table \in {"fills", "trades"} : \A j, k \in QueuedIn(q, table) : j = k
    <2>1. lb \in {0, 1} /\ ld \in {0, 1}
        BY <1>5, <1>6 DEF lb, ld
    <2>2. \A k \in QueuedIn(q, "fills") : k \in la + 1 .. la + lb
        BY <1>8 DEF QueuedIn, IsOrderRow, IsBookRow
    <2>3. \A k \in QueuedIn(q, "trades") : k \in la + lb + lc + 1 .. la + lb + lc + ld
        BY <1>8 DEF QueuedIn, IsOrderRow, IsBookRow
    <2> QED BY <1>7, <2>1, <2>2, <2>3
<1>11. \A i \in Changed : \E k \in QueuedIn(q, "orders") : q[k].id = i
    <2> TAKE i \in Changed
    <2>1. CASE i \in E
        <3>1. PICK k \in 1 .. la : a[k].id = i
            BY <1>3, <2>1 DEF la
        <3>2. k \in DOMAIN q /\ q[k] = a[k] /\ IsOrderRow(a[k], E)
            BY <1>3, <1>7 DEF la
        <3> QED BY <3>1, <3>2 DEF QueuedIn, IsOrderRow
    <2>2. CASE i \in D
        <3>1. PICK k \in 1 .. lc : c[k].id = i
            BY <1>4, <2>2 DEF lc
        <3>2. la + lb + k \in DOMAIN q /\ q[la + lb + k] = c[k] /\ IsOrderRow(c[k], D)
            BY <1>4, <1>7 DEF lc
        <3> QED BY <3>1, <3>2 DEF QueuedIn, IsOrderRow
    <2> QED BY <1>2, <2>1, <2>2
<1>12. fills' # fills => QueuedIn(q, "fills") # {}
    <2> SUFFICES ASSUME fills' # fills PROVE QueuedIn(q, "fills") # {}
        OBVIOUS
    <2>1. lb = 1 /\ IsBookRow(b[1], "fills", fills, fills')
        BY <1>5 DEF lb
    <2>2. la + 1 \in DOMAIN q /\ q[la + 1] = b[1]
        BY <1>7, <2>1
    <2> QED BY <2>1, <2>2 DEF QueuedIn, IsBookRow
<1>13. trades' # trades => QueuedIn(q, "trades") # {}
    <2> SUFFICES ASSUME trades' # trades PROVE QueuedIn(q, "trades") # {}
        OBVIOUS
    <2>1. ld = 1 /\ IsBookRow(d[1], "trades", trades, trades')
        BY <1>6 DEF ld
    <2>2. la + lb + lc + 1 \in DOMAIN q /\ q[la + lb + lc + 1] = d[1]
        BY <1>7, <2>1
    <2> QED BY <2>1, <2>2 DEF QueuedIn, IsBookRow
<1>14. ExecutedFirst(q)
    <2>1. \A k \in DOMAIN q : ExecutedRow(q[k]) <=> k \in 1 .. la
        <3> TAKE k \in DOMAIN q
        <3>1. /\ k \in la + 1 .. la + lb => k \notin 1 .. la
              /\ k \in la + lb + 1 .. la + lb + lc => k \notin 1 .. la
              /\ k \in la + lb + lc + 1 .. la + lb + lc + ld => k \notin 1 .. la
            BY <1>7
        <3>2. /\ IsOrderRow(q[k], E) => ExecutedRow(q[k])
              /\ IsOrderRow(q[k], D) => ~ExecutedRow(q[k])
              /\ IsBookRow(q[k], "fills", fills, fills') => ~ExecutedRow(q[k])
              /\ IsBookRow(q[k], "trades", trades, trades') => ~ExecutedRow(q[k])
            BY <1>2 DEF ExecutedRow, IsOrderRow, IsBookRow
        <3> QED BY <1>8, <3>1, <3>2
    <2>2. \A k \in DOMAIN q : q[k].table = "fills" => k \in la + 1 .. la + lb
        BY <1>8 DEF IsOrderRow, IsBookRow
    <2>3. \A k \in DOMAIN q : q[k].table = "orders" /\ ~ExecutedRow(q[k])
                               => k \in la + lb + 1 .. la + lb + lc
        BY <1>8, <2>1 DEF IsOrderRow, IsBookRow
    <2>4. \A k \in DOMAIN q : k \in Nat /\ (k \in 1 .. la \/ k > la)
        BY <1>7
    <2>5. \A j, k \in DOMAIN q : ExecutedRow(q[k]) /\ ~ExecutedRow(q[j]) => k < j
        BY <1>7, <2>1, <2>4
    <2>6. \A j, k \in DOMAIN q :
             q[k].table = "fills" /\ q[j].table = "orders" /\ ~ExecutedRow(q[j]) => k < j
        BY <1>7, <2>2, <2>3
    <2> QED BY <2>5, <2>6 DEF ExecutedFirst
<1> QED BY <1>7, <1>9, <1>10, <1>11, <1>12, <1>13, <1>14 DEF q

------------------------------------------------------------------------------
(* The ledger: the tables and the rows still queued make up the state.     *)

\* With nothing queued the connection's tables are the state's.
LEMMA NothingQueued == StateInv /\ LedgerInv /\ queue = <<>> => db = Tables
<1> SUFFICES ASSUME StateInv, LedgerInv, queue = <<>> PROVE db = Tables
    OBVIOUS
<1>1. \A table : QueuedIn(queue, table) = {}
    BY DEF QueuedIn
<1>2. /\ db = [orders |-> db.orders, fills |-> db.fills, trades |-> db.trades]
      /\ db.orders = [i \in DOMAIN db.orders |-> db.orders[i]]
    BY DEF LedgerInv, IsTables
<1>3. /\ DOMAIN db.orders = DOMAIN orders /\ db.fills = fills /\ db.trades = trades
      /\ \A i \in DOMAIN orders : db.orders[i] = orders[i]
    BY <1>1 DEF LedgerInv, NothingMissing
<1>4. orders = [i \in DOMAIN orders |-> orders[i]]
    BY Basics
<1>5. db.orders = orders
    BY <1>2, <1>3, <1>4
<1> QED BY <1>2, <1>3, <1>5 DEF Tables

LEMMA LoggedLedger ==
    ASSUME StateInv, LedgerInv, OrdersTyped', Grown, BookRows, Logged
    PROVE  LedgerInv'
<1>1. queue = <<>> /\ queue' = RowsOfCall /\ db' = db /\ disk' = disk
    BY DEF Logged
<1>2. db.orders = orders /\ db.fills = fills /\ db.trades = trades
    BY <1>1, NothingQueued DEF Tables
<1>3. /\ queue' \in Seq(AnyRow)
      /\ \A k \in DOMAIN queue' : \/ IsOrderRow(queue'[k], Changed)
                                  \/ IsBookRow(queue'[k], "fills", fills, fills')
                                  \/ IsBookRow(queue'[k], "trades", trades, trades')
      /\ \A table \in {"fills", "trades"} :
            \A j, k \in QueuedIn(queue', table) : j = k
      /\ \A i \in Changed : \E k \in QueuedIn(queue', "orders") : queue'[k].id = i
      /\ fills' # fills => QueuedIn(queue', "fills") # {}
      /\ trades' # trades => QueuedIn(queue', "trades") # {}
    BY <1>1, Enqueued
<1>4. IsTables(db)' /\ IsTables(disk)'
    BY <1>1 DEF LedgerInv, IsTables
<1>5. RowsRight'
    <2>1. \A k \in QueuedIn(queue', "orders") :
             queue'[k].id \in DOMAIN orders' /\ queue'[k].row = orders'[queue'[k].id]
        BY <1>3 DEF QueuedIn, IsOrderRow, IsBookRow, Changed
    <2>2. \A k \in QueuedIn(queue', "fills") : fills' = Append(db'.fills, queue'[k].row)
        <3> TAKE k \in QueuedIn(queue', "fills")
        <3>1. fills' # fills /\ queue'[k].row = Last(fills')
            BY <1>3 DEF QueuedIn, IsOrderRow, IsBookRow
        <3>2. PICK x \in Execution : fills' = Append(fills, x)
            BY <3>1 DEF BookRows
        <3>3. fills \in Seq(Execution)
            BY Basics DEF TypeOK, BooksTyped
        <3>4. Last(fills') = x
            BY <3>2, <3>3 DEF Last
        <3> QED BY <1>1, <1>2, <3>1, <3>2, <3>4
    <2>3. \A k \in QueuedIn(queue', "trades") : trades' = Append(db'.trades, queue'[k].row)
        <3> TAKE k \in QueuedIn(queue', "trades")
        <3>1. trades' # trades /\ queue'[k].row = Last(trades')
            BY <1>3 DEF QueuedIn, IsOrderRow, IsBookRow
        <3>2. PICK x \in Closed : trades' = Append(trades, x)
            BY <3>1 DEF BookRows
        <3>3. trades \in Seq(Closed)
            BY Basics DEF TypeOK, BooksTyped
        <3>4. Last(trades') = x
            BY <3>2, <3>3 DEF Last
        <3> QED BY <1>1, <1>2, <3>1, <3>2, <3>4
    <2> QED BY <1>3, <2>1, <2>2, <2>3 DEF RowsRight
<1>6. NothingMissing'
    <2>1. DOMAIN db'.orders \subseteq DOMAIN orders'
        BY <1>1, <1>2 DEF Grown
    <2>2. \A i \in DOMAIN orders' :
             \/ i \in DOMAIN db'.orders /\ db'.orders[i] = orders'[i]
             \/ \E k \in QueuedIn(queue', "orders") : queue'[k].id = i
        <3> TAKE i \in DOMAIN orders'
        <3>1. CASE i \in Changed
            BY <1>3, <3>1
        <3>2. CASE i \notin Changed
            BY <1>1, <1>2, <3>2 DEF Changed
        <3> QED BY <3>1, <3>2
    <2>3. /\ QueuedIn(queue', "fills") = {} => db'.fills = fills'
          /\ QueuedIn(queue', "trades") = {} => db'.trades = trades'
        BY <1>1, <1>2, <1>3
    <2> QED BY <2>1, <2>2, <2>3 DEF NothingMissing
<1> QED BY <1>4, <1>5, <1>6 DEF LedgerInv

\* What a written row changes.
LEMMA Written ==
    ASSUME StateInv, LedgerInv, WriteRow
    PROVE  LET r == queue[1]
           IN  /\ 1 \in DOMAIN queue /\ queue' \in Seq(AnyRow) /\ disk' = disk /\ IsTables(db)'
               /\ r.table \in {"orders", "fills", "trades"}
               /\ UNCHANGED <<orders, fills, trades, pos, trade, cash, phase>>
               /\ \A k \in DOMAIN queue' : k \in Nat /\ k # 0 /\ k + 1 \in DOMAIN queue
                                           /\ queue'[k] = queue[k + 1]
               /\ \A k \in DOMAIN queue \ {1} : k - 1 \in DOMAIN queue' /\ queue'[k - 1] = queue[k]
               /\ r.table # "orders" => db'.orders = db.orders
               /\ r.table = "orders" =>
                     /\ r.id \in DOMAIN orders /\ r.row = orders[r.id]
                     /\ DOMAIN db'.orders = DOMAIN db.orders \cup {r.id}
                     /\ db'.orders[r.id] = orders[r.id]
                     /\ \A i \in DOMAIN db.orders \ {r.id} : db'.orders[i] = db.orders[i]
               /\ db'.fills = IF r.table = "fills" THEN fills ELSE db.fills
               /\ db'.trades = IF r.table = "trades" THEN trades ELSE db.trades
<1> DEFINE r == queue[1]
           q == queue'
<1>1. /\ queue # <<>> /\ db' = Write(db, r) /\ q = Tail(queue) /\ disk' = disk
      /\ UNCHANGED <<orders, fills, trades, pos, trade, cash, phase>>
    BY DEF WriteRow, vars, book, call
<1>2. RowsRight /\ IsTables(db) /\ queue \in Seq(AnyRow)
    BY DEF LedgerInv, RowsRight
<1>3. /\ 1 \in DOMAIN queue /\ q \in Seq(AnyRow) /\ r \in AnyRow
      /\ \A k \in DOMAIN q : k \in Nat /\ k # 0 /\ k + 1 \in DOMAIN queue /\ q[k] = queue[k + 1]
      /\ \A k \in DOMAIN queue \ {1} : k - 1 \in DOMAIN q /\ q[k - 1] = queue[k]
    BY <1>1, <1>2
<1>4. r.table \in {"orders", "fills", "trades"}
    BY <1>3 DEF AnyRow
<1>5. /\ db = [orders |-> db.orders, fills |-> db.fills, trades |-> db.trades]
      /\ db.orders = [i \in DOMAIN db.orders |-> db.orders[i]]
    BY <1>2 DEF IsTables
<1>6. CASE r.table = "orders"
    <2>1. r.id \in DOMAIN orders /\ r.row = orders[r.id]
        BY <1>2, <1>3, <1>6 DEF RowsRight, QueuedIn
    <2>2. db' = [db EXCEPT !.orders = Put(@, r.id, r.row)]
        BY <1>1, <1>6 DEF Write
    <2>3. /\ db'.orders = Put(db.orders, r.id, r.row)
          /\ db'.fills = db.fills /\ db'.trades = db.trades
          /\ db' = [orders |-> db'.orders, fills |-> db'.fills, trades |-> db'.trades]
        BY <1>5, <2>2
    <2>4. /\ DOMAIN db'.orders = DOMAIN db.orders \cup {r.id} /\ db'.orders[r.id] = r.row
          /\ \A i \in DOMAIN db.orders \ {r.id} : db'.orders[i] = db.orders[i]
          /\ db'.orders = [i \in DOMAIN db'.orders |-> db'.orders[i]]
        BY <2>3 DEF Put
    <2> QED BY <1>1, <1>3, <1>6, <2>1, <2>3, <2>4 DEF IsTables
<1>7. CASE r.table = "fills"
    <2>1. fills = Append(db.fills, r.row)
        BY <1>2, <1>3, <1>7 DEF RowsRight, QueuedIn
    <2>2. db' = [db EXCEPT !.fills = Append(@, r.row)]
        BY <1>1, <1>7 DEF Write
    <2>3. /\ db'.orders = db.orders /\ db'.fills = fills /\ db'.trades = db.trades
          /\ db' = [orders |-> db'.orders, fills |-> db'.fills, trades |-> db'.trades]
        BY <1>5, <2>1, <2>2
    <2> QED BY <1>1, <1>3, <1>5, <1>7, <2>3 DEF IsTables
<1>8. CASE r.table = "trades"
    <2>1. trades = Append(db.trades, r.row)
        BY <1>2, <1>3, <1>8 DEF RowsRight, QueuedIn
    <2>2. db' = [db EXCEPT !.trades = Append(@, r.row)]
        BY <1>1, <1>8 DEF Write
    <2>3. /\ db'.orders = db.orders /\ db'.fills = db.fills /\ db'.trades = trades
          /\ db' = [orders |-> db'.orders, fills |-> db'.fills, trades |-> db'.trades]
        BY <1>5, <2>1, <2>2
    <2> QED BY <1>1, <1>3, <1>5, <1>8, <2>3 DEF IsTables
<1> QED BY <1>4, <1>6, <1>7, <1>8

LEMMA WritingLedger ==
    ASSUME StateInv, LedgerInv, WriteRow
    PROVE  LedgerInv'
<1> DEFINE r == queue[1]
           q == queue'
<1>1. UNCHANGED <<orders, fills, trades>> /\ disk' = disk /\ IsTables(db)'
    BY Written
<1>2. RowsRight /\ NothingMissing /\ IsTables(db) /\ IsTables(disk)
    BY DEF LedgerInv
<1>3. /\ 1 \in DOMAIN queue /\ q \in Seq(AnyRow)
      /\ \A k \in DOMAIN q : k \in Nat /\ k + 1 \in DOMAIN queue /\ k + 1 # 1 /\ q[k] = queue[k + 1]
      /\ \A k \in DOMAIN queue \ {1} : k - 1 \in DOMAIN q /\ q[k - 1] = queue[k]
    BY Written
<1>4. r.table \in {"orders", "fills", "trades"}
    BY Written
<1> HIDE DEF q
<1>5. /\ \A table : \A k \in QueuedIn(q, table) :
            k + 1 \in QueuedIn(queue, table) /\ q[k] = queue[k + 1] /\ k \in Nat
      /\ \A table : \A k \in QueuedIn(queue, table) \ {1} :
            k - 1 \in QueuedIn(q, table) /\ q[k - 1] = queue[k]
      /\ 1 \in QueuedIn(queue, r.table)
    <2>1. \A k \in DOMAIN q : k \in Nat
        BY <1>3
    <2> QED BY <1>3, <2>1 DEF QueuedIn
<1>6. \A table \in {"fills", "trades"} :
         /\ \A j, k \in QueuedIn(q, table) : j = k
         /\ r.table = table => QueuedIn(q, table) = {}
    <2>1. \A table \in {"fills", "trades"} : \A j, k \in QueuedIn(queue, table) : j = k
        BY <1>2 DEF RowsRight
    <2>2. \A table \in {"fills", "trades"} : \A j, k \in QueuedIn(q, table) : j = k
        BY <1>5, <2>1
    <2>3. \A table \in {"fills", "trades"} : r.table = table => QueuedIn(q, table) = {}
        <3> SUFFICES ASSUME NEW table \in {"fills", "trades"}, r.table = table,
                            NEW k \in QueuedIn(q, table)
                     PROVE  FALSE
            OBVIOUS
        <3>1. k + 1 \in QueuedIn(queue, table) /\ k \in Nat /\ 1 \in QueuedIn(queue, table)
            BY <1>5
        <3>2. k + 1 = 1 /\ k \in DOMAIN q
            BY <2>1, <3>1 DEF QueuedIn
        <3> QED BY <1>3, <3>2
    <2> QED BY <2>2, <2>3
<1>7. \A k \in QueuedIn(q, "orders") :
         q[k].id \in DOMAIN orders /\ q[k].row = orders[q[k].id]
    BY <1>2, <1>5 DEF RowsRight
<1>8. CASE r.table = "orders"
    <2>1. r.id \in DOMAIN orders /\ r.row = orders[r.id]
        BY <1>8, Written
    <2>3. db'.fills = db.fills /\ db'.trades = db.trades
        BY <1>8, Written
    <2>4. /\ DOMAIN db'.orders = DOMAIN db.orders \cup {r.id} /\ db'.orders[r.id] = r.row
          /\ \A i \in DOMAIN db.orders \ {r.id} : db'.orders[i] = db.orders[i]
        BY <1>8, <2>1, Written
    <2>6. RowsRight'
        <3>1. \A k \in QueuedIn(q, "fills") : fills = Append(db'.fills, q[k].row)
            BY <1>2, <1>5, <2>3 DEF RowsRight
        <3>2. \A k \in QueuedIn(q, "trades") : trades = Append(db'.trades, q[k].row)
            BY <1>2, <1>5, <2>3 DEF RowsRight
        <3> QED BY <1>1, <1>3, <1>6, <1>7, <3>1, <3>2 DEF RowsRight, q
    <2>7. NothingMissing'
        <3>1. DOMAIN db'.orders \subseteq DOMAIN orders
            BY <1>2, <2>1, <2>4 DEF NothingMissing
        <3>2. ASSUME NEW i \in DOMAIN orders
              PROVE  \/ i \in DOMAIN db'.orders /\ db'.orders[i] = orders[i]
                     \/ \E k \in QueuedIn(q, "orders") : q[k].id = i
            <4>1. CASE i = r.id
                BY <2>1, <2>4, <4>1
            <4>2. CASE i # r.id
                <5>1. CASE i \in DOMAIN db.orders /\ db.orders[i] = orders[i]
                    BY <2>4, <4>2, <5>1
                <5>2. ASSUME NEW k \in QueuedIn(queue, "orders"), queue[k].id = i
                      PROVE  \E j \in QueuedIn(q, "orders") : q[j].id = i
                    BY <1>5, <4>2, <5>2
                <5> QED BY <1>2, <5>1, <5>2 DEF NothingMissing
            <4> QED BY <4>1, <4>2
        <3>3. \A table \in {"fills", "trades"} : QueuedIn(q, table) = {} => QueuedIn(queue, table) = {}
            <4> SUFFICES ASSUME NEW table \in {"fills", "trades"}, NEW k \in QueuedIn(queue, table)
                         PROVE  QueuedIn(q, table) # {}
                OBVIOUS
            <4>1. k # 1
                BY <1>8 DEF QueuedIn
            <4> QED BY <1>5, <4>1
        <3>4. /\ QueuedIn(q, "fills") = {} => db'.fills = fills
              /\ QueuedIn(q, "trades") = {} => db'.trades = trades
            BY <1>2, <2>3, <3>3 DEF NothingMissing
        <3> QED BY <1>1, <3>1, <3>2, <3>4 DEF NothingMissing, q
    <2> QED BY <1>1, <1>2, <2>6, <2>7 DEF LedgerInv, IsTables
<1>9. ASSUME r.table # "orders", db'.orders = db.orders
      PROVE  /\ DOMAIN db'.orders \subseteq DOMAIN orders
             /\ \A i \in DOMAIN orders :
                   \/ i \in DOMAIN db'.orders /\ db'.orders[i] = orders[i]
                   \/ \E k \in QueuedIn(q, "orders") : q[k].id = i
    <2>1. DOMAIN db'.orders \subseteq DOMAIN orders
        BY <1>2, <1>9 DEF NothingMissing
    <2>2. ASSUME NEW i \in DOMAIN orders, NEW k \in QueuedIn(queue, "orders"), queue[k].id = i
          PROVE  \E j \in QueuedIn(q, "orders") : q[j].id = i
        <3>1. k # 1
            BY <1>9, <2>2 DEF QueuedIn
        <3> QED BY <1>5, <2>2, <3>1
    <2> QED BY <1>2, <1>9, <2>1, <2>2 DEF NothingMissing
<1>10. ASSUME NEW table \in {"fills", "trades"}, r.table # table
       PROVE  QueuedIn(q, table) = {} => QueuedIn(queue, table) = {}
    <2> SUFFICES ASSUME NEW k \in QueuedIn(queue, table)
                 PROVE  QueuedIn(q, table) # {}
        OBVIOUS
    <2>1. k # 1
        BY <1>10 DEF QueuedIn
    <2> QED BY <1>5, <2>1
<1>11. CASE r.table = "fills"
    <2>3. db'.orders = db.orders /\ db'.fills = fills /\ db'.trades = db.trades
        BY <1>11, Written
    <2>5. QueuedIn(q, "fills") = {}
        BY <1>6, <1>11
    <2>6. RowsRight'
        <3>1. \A k \in QueuedIn(q, "trades") : trades = Append(db'.trades, q[k].row)
            BY <1>2, <1>5, <2>3 DEF RowsRight
        <3> QED BY <1>1, <1>3, <1>6, <1>7, <2>5, <3>1 DEF RowsRight, q
    <2>7. NothingMissing'
        <3>1. QueuedIn(q, "trades") = {} => db'.trades = trades
            BY <1>2, <1>10, <1>11, <2>3 DEF NothingMissing
        <3> QED BY <1>1, <1>9, <1>11, <2>3, <3>1 DEF NothingMissing, q
    <2> QED BY <1>1, <1>2, <2>6, <2>7 DEF LedgerInv, IsTables
<1>12. CASE r.table = "trades"
    <2>3. db'.orders = db.orders /\ db'.fills = db.fills /\ db'.trades = trades
        BY <1>12, Written
    <2>5. QueuedIn(q, "trades") = {}
        BY <1>6, <1>12
    <2>6. RowsRight'
        <3>1. \A k \in QueuedIn(q, "fills") : fills = Append(db'.fills, q[k].row)
            BY <1>2, <1>5, <2>3 DEF RowsRight
        <3> QED BY <1>1, <1>3, <1>6, <1>7, <2>5, <3>1 DEF RowsRight, q
    <2>7. NothingMissing'
        <3>1. QueuedIn(q, "fills") = {} => db'.fills = fills
            BY <1>2, <1>10, <1>12, <2>3 DEF NothingMissing
        <3> QED BY <1>1, <1>9, <1>12, <2>3, <3>1 DEF NothingMissing, q
    <2> QED BY <1>1, <1>2, <2>6, <2>7 DEF LedgerInv, IsTables
<1> QED BY <1>4, <1>8, <1>11, <1>12

\* A step of a session that is not a restart enqueues the rows of its call, writes
\* the next one, or leaves the state alone and may commit.
CommitStep ==
    /\ UNCHANGED <<orders, pos, fills, trades, phase, queue, db, lost>>
    /\ \/ disk' = disk /\ cut' = cut
       \/ /\ disk' = db /\ cut' \ {"disk"} = cut \ {"disk"}
          /\ "disk" \in cut' \/ (phase # "square" /\ (queue = <<>> \/ "db" \notin cut))

LEMMA LedgerEffect ==
    ASSUME StateInv, [SNext]_svars, ~Restart
    PROVE  Logged \/ WriteRow \/ CommitStep
<1>1. TickSteps => Logged
    BY DEF TickSteps, TickEntry, TickOther
<1>2. MinuteSteps => Logged \/ CommitStep
    <2>1. Commit => CommitStep
        <3>1. Commit => phase # "square"
            BY Basics, SessionParts DEF Commit, InStage
        <3> QED BY <3>1 DEF Commit, CommitStep, vars, book, call
    <2> QED BY <2>1 DEF MinuteSteps, BeginStep, CallStrategy, CloseDay, SkipStrategy, TimeExit,
          EndExits, EndEntries, ClosingStep, SquareOffDone, CommitStep, ledger, past, vars, book,
          call
<1>3. StrategySteps => Logged
    BY DEF StrategySteps, PumpTick, MarkBar, StallExit, Enter
<1>4. Stop => Logged \/ CommitStep
    BY DEF Stop, CommitStep, ledger, past, vars, book, call
<1>5. Elapse \/ ForeignCommit \/ UNCHANGED svars => CommitStep
    BY DEF Elapse, ForeignCommit, CommitStep, ledger, past, svars, vars, book, call
<1> QED BY <1>1, <1>2, <1>3, <1>4, <1>5 DEF SNext

LEMMA LedgerStep ==
    ASSUME StateInv, LedgerInv, [SNext]_svars, ~Restart
    PROVE  LedgerInv'
<1>1. Effect /\ BrokerStep
    BY Effects
<1>2. OrdersTyped' /\ Grown /\ BookRows
    <2>1. StateInv'
        BY StateStep
    <2>2. OrdersTyped'
        BY <2>1 DEF StateInv, IInv, TypeOK
    <2> QED BY <1>1, <2>2, EffectGrows, BooksGrow
<1>3. CASE CommitStep
    <2>1. UNCHANGED <<orders, fills, trades, queue, db>> /\ disk' \in {disk, db}
        BY <1>3 DEF CommitStep
    <2> QED BY <2>1 DEF LedgerInv, IsTables, RowsRight, NothingMissing
<1> QED BY <1>2, <1>3, LedgerEffect, LoggedLedger, WritingLedger

------------------------------------------------------------------------------
(* What the queue keeps up while a call's rows are written.                *)

LEMMA QueueLogged ==
    ASSUME StateInv, LedgerInv, Effect, OrdersTyped', BookRows, Logged
    PROVE  QueueInv'
<1> DEFINE q == queue'
<1>1. queue = <<>> /\ q = RowsOfCall /\ db' = db /\ db.orders = orders
    BY NothingQueued DEF Logged, Tables
<1>2. /\ ExecutedFirst(q)
      /\ \A k \in DOMAIN q : \/ IsOrderRow(q[k], Changed)
                             \/ IsBookRow(q[k], "fills", fills, fills')
                             \/ IsBookRow(q[k], "trades", trades, trades')
    BY <1>1, Enqueued
<1>3. OrdersFollow'
    <2>1. \A i \in DOMAIN orders : Keeps(i)
        BY EffectGrows
    <2> QED BY <1>1, <2>1 DEF OrdersFollow, Keeps
<1> HIDE DEF q
<1>4. \A k \in DOMAIN q : q[k].table = "orders" => q[k].id \in DOMAIN orders'
                                                  /\ q[k].row = orders'[q[k].id]
    BY <1>2 DEF IsOrderRow, IsBookRow, Changed
<1>5. \A i \in DOMAIN orders' \ DOMAIN orders : orders'[i].status = "FILLED" => orders'[i].oco = 0
    BY DEF Effect, NoEntryDone, Calm, EntryPlaced, ExitPlaced, EntryDone, ExitDone
<1>6. ASSUME NEW k \in DOMAIN q, NewRow(db'.orders, q[k]), ExecutedRow(q[k])
      PROVE  q[k].row.oco = 0
    BY <1>1, <1>4, <1>5, <1>6 DEF NewRow, ExecutedRow
<1>7. ASSUME NEW k \in DOMAIN q, Executing(db'.orders, q[k])
      PROVE  \E s \in Symbols, i \in Nat : EntryDone(s, i) \/ ExitDone(s, i)
    <2>1. CASE q[k].table = "fills"
        <3>1. fills' # fills
            BY <1>2, <2>1 DEF IsOrderRow, IsBookRow
        <3> QED BY <3>1 DEF Effect, NoEntryDone, Calm, EntryPlaced, ExitPlaced
    <2>2. CASE q[k].table # "fills"
        <3>1. PICK i \in DOMAIN orders' \ DOMAIN orders :
                 orders'[i].status = "OPEN" /\ ~orders'[i].opening /\ orders'[i].oco # 0
            BY <1>1, <1>4, <1>7, <2>2 DEF Executing, NewRow
        <3> QED BY <3>1 DEF Effect, NoEntryDone, Calm, EntryPlaced, ExitPlaced
    <2> QED BY <2>1, <2>2
<1>8. ASSUME NEW s \in Symbols, NEW k \in Nat, EntryDone(s, k) \/ ExitDone(s, k),
             NEW i \in DOMAIN orders, ExitOpen(orders, i), pos'[orders[i].symbol].qty # 0
      PROVE  orders'[i].status = "OPEN"
    <2>1. i \in Open /\ ~orders[i].opening
        BY <1>8 DEF ExitOpen, Open
    <2>2. CASE EntryDone(s, k)
        BY <2>1, <2>2 DEF EntryDone, Open
    <2>3. CASE ExitDone(s, k)
        <3>1. Open' = Open \ OpenFor(s) /\ pos'[s].qty = 0
            BY <2>3 DEF ExitDone, MovedTo
        <3> QED BY <1>8, <2>1, <3>1 DEF OpenFor, Open
    <2> QED BY <1>8, <2>2, <2>3
<1>9. ExitsStand'
    BY <1>1, <1>7, <1>8 DEF ExitsStand, q
<1> QED BY <1>2, <1>3, <1>6, <1>9 DEF QueueInv, q

LEMMA QueueWrite ==
    ASSUME StateInv, LedgerInv, QueueInv, WriteRow
    PROVE  QueueInv'
<1> DEFINE r == queue[1]
           q == queue'
<1>1. /\ UNCHANGED <<orders, pos>>
      /\ \A k \in DOMAIN q : k \in Nat /\ k + 1 \in DOMAIN queue /\ q[k] = queue[k + 1]
    BY Written
<1>2. /\ DOMAIN db.orders \subseteq DOMAIN db'.orders
      /\ \A i \in DOMAIN db'.orders : \/ db'.orders[i] = orders[i]
                                      \/ i \in DOMAIN db.orders /\ db'.orders[i] = db.orders[i]
    <2>1. CASE r.table = "orders"
        BY <2>1, Written
    <2>2. CASE r.table # "orders"
        BY <2>2, Written
    <2> QED BY <2>1, <2>2
<1>3. /\ ExecutedFirst(queue) /\ OrdersFollow /\ ExitsStand
      /\ \A k \in DOMAIN queue :
            NewRow(db.orders, queue[k]) /\ ExecutedRow(queue[k]) => queue[k].row.oco = 0
    BY DEF QueueInv
<1> HIDE DEF q, r
<1>4. ExecutedFirst(q)
    <2> SUFFICES ASSUME NEW j \in DOMAIN q, NEW k \in DOMAIN q
                 PROVE  /\ ExecutedRow(q[k]) /\ ~ExecutedRow(q[j]) => k < j
                        /\ q[k].table = "fills" /\ q[j].table = "orders" /\ ~ExecutedRow(q[j])
                              => k < j
        BY DEF ExecutedFirst
    <2>1. /\ j + 1 \in DOMAIN queue /\ k + 1 \in DOMAIN queue /\ j \in Nat /\ k \in Nat
          /\ q[j] = queue[j + 1] /\ q[k] = queue[k + 1]
        BY <1>1
    <2>2. k + 1 < j + 1 => k < j
        BY <2>1
    <2> QED BY <1>3, <2>1, <2>2 DEF ExecutedFirst
<1>5. OrdersFollow'
    BY <1>1, <1>2, <1>3 DEF OrdersFollow
<1>6. \A k \in DOMAIN q : /\ NewRow(db'.orders, q[k]) => NewRow(db.orders, queue[k + 1])
                          /\ Executing(db'.orders, q[k]) => Executing(db.orders, queue[k + 1])
    BY <1>1, <1>2 DEF NewRow, Executing
<1>7. ExitsStand'
    <2> SUFFICES ASSUME NEW k \in DOMAIN q, Executing(db'.orders, q[k]), NEW i \in DOMAIN db'.orders,
                        ExitOpen(db'.orders, i), pos[db'.orders[i].symbol].qty # 0
                 PROVE  orders[i].status = "OPEN"
        BY <1>1 DEF ExitsStand, q
    <2>1. \A j \in DOMAIN db.orders :
             ExitOpen(db.orders, j) /\ pos[db.orders[j].symbol].qty # 0 => orders[j].status = "OPEN"
        BY <1>1, <1>3, <1>6 DEF ExitsStand
    <2> QED BY <1>2, <2>1 DEF ExitOpen
<1>8. \A k \in DOMAIN q : NewRow(db'.orders, q[k]) /\ ExecutedRow(q[k]) => q[k].row.oco = 0
    BY <1>1, <1>3, <1>6
<1> QED BY <1>4, <1>5, <1>7, <1>8 DEF QueueInv, q

------------------------------------------------------------------------------
(* Tables a session can resume from: those of a sound state, and those the *)
(* connection sees after every row of a call.                              *)

\* An entry that was executed was bought.
LEMMA EntriesAreCapped ==
    ASSUME StateInv, NEW o, \A s \in Symbols : EntriesIn(o, s) \subseteq EntriesIn(orders, s)
    PROVE  Capped(o) /\ \A s \in Symbols : Cardinality(EntriesIn(o, s)) \in Nat
<1> DEFINE count == [s \in Symbols |-> Cardinality(EntriesIn(o, s))]
<1>1. \A s \in Symbols : /\ Cardinality(EntriesIn(o, s)) \in Nat
                         /\ Cardinality(EntriesIn(o, s)) <= taken[s]
    <2> TAKE s \in Symbols
    <2>1. n \in Nat /\ EntriesIn(o, s) \subseteq Bought(s) /\ Bought(s) \subseteq 1 .. n
        BY Basics DEF EntriesIn, Bought
    <2>2. IsFiniteSet(1 .. n)
        BY <2>1, FS_Interval
    <2>3. IsFiniteSet(Bought(s)) /\ IsFiniteSet(EntriesIn(o, s))
        BY <2>1, <2>2, FS_Subset
    <2>4. Cardinality(EntriesIn(o, s)) <= Cardinality(Bought(s))
        BY <2>1, <2>3, FS_Subset
    <2>5. Cardinality(EntriesIn(o, s)) \in Nat /\ Cardinality(Bought(s)) \in Nat
        BY <2>3, FS_CardinalityType
    <2>6. Cardinality(Bought(s)) <= taken[s] /\ taken[s] \in Nat
        BY Basics DEF TakenInv, SessionTypeOK
    <2> QED BY <2>4, <2>5, <2>6
<1>2. /\ taken \in [Symbols -> Nat] /\ SumFunction(taken) <= TradesPerDay
      /\ \A s \in Symbols : taken[s] <= TradesPerSymbol
    BY Basics DEF SessionTypeOK, TakenInv
<1>3. SumFunction(count) <= SumFunction(taken)
    <2> DEFINE f == count
               h == taken
    <2>1. f \in [Symbols -> Int] /\ h \in [Symbols -> Int] /\ IsFiniteSet(Symbols)
          /\ \A s \in Symbols : f[s] <= h[s]
        BY <1>1, <1>2, SymbolsAssumption
    <2> HIDE DEF f, h
    <2>2. SumFunction(f) <= SumFunction(h)
        BY <2>1, SumIsFold, Sums!SumMonotonic
    <2> QED BY <2>2 DEF f, h
<1>4. SumFunction(count) \in Int /\ SumFunction(taken) \in Int
    <2>1. count \in [Symbols -> Int] /\ taken \in [Symbols -> Int] /\ IsFiniteSet(Symbols)
        BY <1>1, <1>2, SymbolsAssumption
    <2> HIDE DEF count
    <2> QED BY <2>1, SumIsFold, Sums!SumType
<1>5. SumFunction(count) <= TradesPerDay
    BY <1>2, <1>3, <1>4, Constants
<1>6. \A s \in Symbols : Cardinality(EntriesIn(o, s)) <= TradesPerSymbol
    BY <1>1, <1>2, Constants
<1> QED BY <1>1, <1>5, <1>6 DEF Capped

LEMMA BookIsSound ==
    ASSUME StateInv
    PROVE  /\ Replay(fills) = [pos |-> pos, trade |-> trade, cash |-> cash]
           /\ Replay(fills).pos = pos /\ SoundBook(Replay(fills))
<1>1. IInv /\ AccountInv /\ TypeOK
    BY DEF StateInv, IInv
<1>2. Replay(fills) = [pos |-> pos, trade |-> trade, cash |-> cash]
    BY <1>1 DEF AccountInv, ReplayRebuildsBook
<1>3. Mirrors(pos, trade)
    BY <1>1 DEF IInv, TradeMirrorsPosition, AccountInv, NoneIsEmpty, Mirrors
<1>4. Cardinality(HeldIn(pos)) <= MaxOpenPositions
    <2>1. HeldIn(pos) \subseteq InUse
        BY DEF HeldIn, InUse, Held
    <2>2. InUse \subseteq Symbols
        BY Basics DEF InUse, Held, Pending, Open, Order
    <2>3. IsFiniteSet(InUse)
        BY <2>2, SymbolsAssumption, FS_Subset
    <2>4. Cardinality(HeldIn(pos)) <= Cardinality(InUse) /\ IsFiniteSet(HeldIn(pos))
        BY <2>1, <2>3, FS_Subset
    <2>5. Cardinality(HeldIn(pos)) \in Nat /\ Cardinality(InUse) \in Nat
        BY <2>3, <2>4, FS_CardinalityType
    <2>6. Cardinality(InUse) <= MaxOpenPositions
        BY <1>1 DEF IInv, SlotLimit
    <2> QED BY <2>4, <2>5, <2>6, Constants
<1>5. pos \in [Symbols -> Position] /\ trade \in [Symbols -> Trade] /\ cash \in Int
    BY <1>1 DEF TypeOK, BooksTyped
<1> DEFINE b == Replay(fills)
<1>6. b.pos = pos /\ b.trade = trade /\ b.cash = cash
      /\ b = [pos |-> b.pos, trade |-> b.trade, cash |-> b.cash]
    BY <1>2
<1> HIDE DEF b
<1>7. SoundBook(b)
    BY <1>3, <1>4, <1>5, <1>6 DEF SoundBook
<1> QED BY <1>2, <1>6, <1>7 DEF b

\* Exits that are open in the state can be re-armed with its positions.
LEMMA OpenExitsRearm ==
    ASSUME StateInv, NEW o,
           \A i \in DOMAIN o : /\ i \in DOMAIN orders /\ orders[i].symbol = o[i].symbol
                               /\ orders[i].side = o[i].side /\ orders[i].qty = o[i].qty
                               /\ orders[i].oco = o[i].oco /\ orders[i].opening = o[i].opening,
           \A i \in DOMAIN o : ExitOpen(o, i) /\ pos[o[i].symbol].qty # 0
                                  => orders[i].status = "OPEN"
    PROVE  ExitsRearm(o, pos)
<1>1. \A i \in DOMAIN o : Rearmed(o, pos, i) => i \in Open /\ ExitOpen(orders, i)
    BY DEF Rearmed, ExitOpen, Open
<1>2. ExitsFit(orders, pos) /\ NoOrphanExit
    BY Basics
<1>3. ASSUME NEW i \in DOMAIN o, Rearmed(o, pos, i)
      PROVE  Reduces(pos[o[i].symbol], o[i].side) /\ o[i].qty = Abs(pos[o[i].symbol].qty)
    BY <1>1, <1>2, <1>3 DEF ExitsFit, NoOrphanExit, ExitOpen
<1>4. ASSUME NEW i \in DOMAIN o, Rearmed(o, pos, i),
             NEW j \in DOMAIN o, Rearmed(o, pos, j), o[j].symbol = o[i].symbol
      PROVE  o[j].oco = o[i].oco
    BY <1>1, <1>2, <1>4 DEF ExitsFit
<1> QED BY <1>3, <1>4 DEF ExitsRearm

LEMMA TablesUsable == StateInv => Usable(Tables)
<1> SUFFICES ASSUME StateInv PROVE Usable(Tables)
    OBVIOUS
<1>1. IInv /\ TypeOK
    BY DEF StateInv, IInv
<1>2. Tables.orders = orders /\ Tables.fills = fills /\ Tables.trades = trades
    BY DEF Tables
<1>3. TypedTables(Tables)
    <2>1. n \in Nat /\ DOMAIN orders \subseteq 1 .. n /\ \A i \in DOMAIN orders : orders[i] \in Order
        BY Basics
    <2>2. fills \in Seq(Execution) /\ trades \in Seq(Closed)
        BY <1>1 DEF TypeOK, BooksTyped
    <2>3. \A k \in DOMAIN fills : fills[k].at \in Times
        BY Basics DEF TimesInv
    <2> QED BY <1>2, <2>1, <2>2, <2>3 DEF TypedTables
<1>4. SoundOrders(orders, pos)
    <2>1. WellFormed(orders)
        BY <1>1 DEF IInv, OrdersWellFormed, WellFormed
    <2>2. ExitsRearm(orders, pos)
        BY OpenExitsRearm DEF ExitOpen
    <2>3. Capped(orders)
        BY EntriesAreCapped
    <2> QED BY <2>1, <2>2, <2>3, Basics DEF SoundOrders
<1>5. Backed(orders, fills)
    BY Basics
<1> QED BY <1>2, <1>3, <1>4, <1>5, BookIsSound DEF Usable

LEMMA TablesExact == StateInv /\ ExactInv => Exact(Tables)
<1> SUFFICES ASSUME StateInv, ExactInv PROVE Exact(Tables)
    OBVIOUS
<1>1. Tables.orders = orders /\ Tables.fills = fills /\ Tables.trades = trades
    BY DEF Tables
<1>2. OneOf(orders) /\ Attached(orders) /\ Counted(orders, fills)
    BY DEF ExactInv, OneExitPerBracket, OneOf
<1>3. Reconciled(cash, trades, trade)
    BY CashForm DEF ExactInv, Reconciled, Flows
<1> DEFINE b == Replay(fills)
<1>4. b.trade = trade /\ b.cash = cash
    BY BookIsSound
<1> HIDE DEF b
<1> QED BY <1>1, <1>2, <1>3, <1>4 DEF Exact, b

\* What the tables were stays true of the orders a written row leaves.
LEMMA OrdersWritten ==
    ASSUME StateInv, LedgerInv, QueueInv, Usable(db), WriteRow
    PROVE  WellFormed(db'.orders) /\ PlainExits(db'.orders) /\ Capped(db'.orders)
<1> DEFINE r == queue[1]
           a == db.orders
           o == db'.orders
           w == r.id
<1>1. WellFormed(a) /\ PlainExits(a) /\ Capped(a)
    BY DEF Usable, SoundOrders
<1>2. CASE r.table # "orders"
    BY <1>1, <1>2, Written
<1>3. CASE r.table = "orders"
    <2>1. /\ w \in DOMAIN orders /\ DOMAIN o = DOMAIN a \cup {w} /\ o[w] = orders[w]
          /\ r.row = orders[w] /\ 1 \in DOMAIN queue
          /\ \A i \in DOMAIN a \ {w} : o[i] = a[i]
        BY <1>3, Written
    <2>2. /\ OrdersFollow /\ ExecutedFirst(queue) /\ DOMAIN a \subseteq DOMAIN orders
          /\ NewRow(a, r) /\ ExecutedRow(r) => r.row.oco = 0
        BY <2>1 DEF QueueInv, LedgerInv, NothingMissing
    <2>3. /\ OrdersWellFormed /\ PlainExits(orders)
        BY Basics
    <2> HIDE DEF r, a, o, w
    <2>4. \A i \in DOMAIN a : /\ o[i].symbol = a[i].symbol /\ o[i].oco = a[i].oco
                              /\ o[i].opening = a[i].opening /\ o[i].bracket = a[i].bracket
                              /\ a[i].status # "OPEN" => o[i].status = a[i].status
        BY <2>1, <2>2 DEF OrdersFollow, a
    <2>5. \A p \in DOMAIN a : a[p].status = "FILLED" => p \in DOMAIN o /\ o[p].status = "FILLED"
        BY <2>1, <2>4
    <2>6. ASSUME NEW i \in DOMAIN o
          PROVE  o[i].status = "OPEN" => o[i].qty > 0
        BY <1>1, <2>1, <2>3 DEF WellFormed, OrdersWellFormed
    <2>7. ASSUME NEW i \in DOMAIN a, o[i].oco # 0
          PROVE  /\ ~o[i].opening /\ o[i].oco \in DOMAIN o
                 /\ o[o[i].oco].symbol = o[i].symbol /\ o[o[i].oco].status = "FILLED"
        <3>1. /\ ~a[i].opening /\ a[i].oco \in DOMAIN a
              /\ a[a[i].oco].symbol = a[i].symbol /\ a[a[i].oco].status = "FILLED"
            BY <1>1, <2>4, <2>7 DEF WellFormed
        <3> QED BY <2>4, <2>5, <3>1
    <2>8. ASSUME w \notin DOMAIN a, o[w].oco # 0
          PROVE  /\ ~o[w].opening /\ o[w].oco \in DOMAIN o
                 /\ o[o[w].oco].symbol = o[w].symbol /\ o[o[w].oco].status = "FILLED"
        <3> DEFINE p == orders[w].oco
        <3>1. /\ ~orders[w].opening /\ p \in DOMAIN orders
              /\ orders[p].symbol = orders[w].symbol /\ orders[p].status = "FILLED"
            BY <2>1, <2>3, <2>8 DEF OrdersWellFormed
        <3>2. ~ExecutedRow(r)
            BY <1>3, <2>1, <2>2, <2>8 DEF NewRow, w
        <3>3. \A k \in DOMAIN queue : ExecutedRow(queue[k]) => k < 1
            BY <2>1, <2>2, <3>2 DEF ExecutedFirst, r
        <3>4. \A k \in QueuedIn(queue, "orders") :
                 queue[k].id = p => ExecutedRow(queue[k]) /\ k \in DOMAIN queue
            BY <3>1 DEF LedgerInv, RowsRight, ExecutedRow, QueuedIn
        <3>5. \A k \in DOMAIN queue : ~(k < 1)
            <4>1. queue \in Seq(AnyRow)
                BY DEF LedgerInv, RowsRight
            <4> QED BY <4>1
        <3>6. p \in DOMAIN a /\ a[p] = orders[p]
            <4>1. \/ p \in DOMAIN db.orders /\ db.orders[p] = orders[p]
                  \/ \E k \in QueuedIn(queue, "orders") : queue[k].id = p
                BY <3>1 DEF LedgerInv, NothingMissing
            <4> QED BY <3>3, <3>4, <3>5, <4>1 DEF a
        <3>7. p # w /\ o[p] = orders[p] /\ p \in DOMAIN o
            BY <2>1, <2>8, <3>6
        <3> QED BY <2>1, <3>1, <3>7
    <2>9. WellFormed(o)
        BY <2>1, <2>6, <2>7, <2>8 DEF WellFormed
    <2>10. PlainExits(o)
        <3>1. \A i \in DOMAIN o : (i \in DOMAIN a /\ i # w) \/ i = w
            BY <2>1
        <3> QED BY <1>1, <2>1, <2>3, <3>1 DEF PlainExits, ExitOpen
    <2>11. Capped(o)
        <3>1. \A s \in Symbols : EntriesIn(o, s) \subseteq EntriesIn(orders, s)
            BY <2>1, <2>2 DEF EntriesIn, OrdersFollow, a
        <3> QED BY <3>1, EntriesAreCapped
    <2> QED BY <2>9, <2>10, <2>11 DEF o
<1> QED BY <1>2, <1>3

\* The head of the queue: what stands before the rows of an execution is written.
LEMMA WrittenBefore ==
    ASSUME StateInv, LedgerInv, QueueInv, WriteRow, queue[1].table # "orders"
                                                    \/ ~ExecutedRow(queue[1])
    PROVE  /\ Executed \subseteq ExecutedIn(db.orders)
           /\ queue[1].table = "orders" => db.fills = fills
<1>1. 1 \in DOMAIN queue /\ ExecutedFirst(queue) /\ NothingMissing /\ RowsRight
      /\ \A k \in DOMAIN queue : ~(k < 1)
    <2>1. queue \in Seq(AnyRow)
        BY DEF LedgerInv, RowsRight
    <2> QED BY <2>1, Written DEF QueueInv, LedgerInv
<1>2. ~ExecutedRow(queue[1])
    BY DEF ExecutedRow
<1>3. \A k \in DOMAIN queue : ~ExecutedRow(queue[k])
    BY <1>1, <1>2 DEF ExecutedFirst
<1>4. Executed \subseteq ExecutedIn(db.orders)
    <2> SUFFICES ASSUME NEW i \in Executed PROVE i \in ExecutedIn(db.orders)
        OBVIOUS
    <2>1. i \in DOMAIN orders /\ orders[i].status = "FILLED"
        BY DEF Executed, ExecutedIn
    <2>2. \A k \in QueuedIn(queue, "orders") : queue[k].id # i
        BY <1>1, <1>3, <2>1 DEF RowsRight, QueuedIn, ExecutedRow
    <2> QED BY <1>1, <2>1, <2>2 DEF NothingMissing, ExecutedIn
<1>5. ASSUME queue[1].table = "orders"
      PROVE  db.fills = fills
    <2>1. \A k \in DOMAIN queue : queue[k].table # "fills"
        BY <1>1, <1>2, <1>5 DEF ExecutedFirst
    <2> QED BY <1>1, <2>1 DEF NothingMissing, QueuedIn
<1> QED BY <1>4, <1>5

LEMMA RearmWritten ==
    ASSUME StateInv, LedgerInv, QueueInv, Usable(db), WriteRow
    PROVE  ExitsRearm(db'.orders, Replay(db'.fills).pos)
<1> DEFINE r == queue[1]
           a == db.orders
           o == db'.orders
           p == Replay(db.fills).pos
<1>1. ExitsRearm(a, p)
    BY DEF Usable, SoundOrders
<1>2. /\ OrdersFollow /\ DOMAIN a \subseteq DOMAIN orders /\ 1 \in DOMAIN queue
      /\ ExitsStand
    BY Written DEF QueueInv, LedgerInv, NothingMissing
<1>3. Executing(a, r) => \A i \in DOMAIN a :
         ExitOpen(a, i) /\ pos[a[i].symbol].qty # 0 => orders[i].status = "OPEN"
    BY <1>2 DEF ExitsStand
<1>4. \A i \in DOMAIN a : /\ orders[i].symbol = a[i].symbol /\ orders[i].side = a[i].side
                          /\ orders[i].qty = a[i].qty /\ orders[i].oco = a[i].oco
                          /\ orders[i].opening = a[i].opening
                          /\ a[i].status # "OPEN" => orders[i].status = a[i].status
    BY <1>2 DEF OrdersFollow
<1>5. Replay(fills).pos = pos
    BY BookIsSound
<1>6. r.table \in {"orders", "fills", "trades"}
    BY Written
<1> HIDE DEF p
<1>7. CASE r.table = "trades"
    BY <1>1, <1>7, Written DEF p
<1>8. CASE r.table = "fills"
    <2>1. o = a /\ db'.fills = fills
        BY <1>8, Written
    <2>2. Executing(a, r)
        BY <1>8 DEF Executing
    <2>3. ExitsRearm(a, pos)
        BY <1>2, <1>3, <1>4, <2>2, OpenExitsRearm
    <2> QED BY <1>5, <2>1, <2>3
<1>9. CASE r.table = "orders"
    <2> DEFINE w == r.id
    <2>1. /\ w \in DOMAIN orders /\ DOMAIN o = DOMAIN a \cup {w} /\ o[w] = orders[w]
          /\ r.row = orders[w] /\ db'.fills = db.fills
          /\ \A i \in DOMAIN a \ {w} : o[i] = a[i]
        BY <1>9, Written
    <2>2. \A i \in DOMAIN o : i \in DOMAIN a \/ i = w
        BY <2>1
    <2>3. CASE Executing(a, r)
        <3>1. orders[w].status = "OPEN" /\ ~ExecutedRow(r)
            BY <1>9, <2>1, <2>3 DEF Executing, ExecutedRow
        <3>2. db.fills = fills
            BY <1>9, <3>1, WrittenBefore
        <3> HIDE DEF a, o, r, w
        <3>3. \A i \in DOMAIN o : /\ i \in DOMAIN orders /\ orders[i].symbol = o[i].symbol
                                  /\ orders[i].side = o[i].side /\ orders[i].qty = o[i].qty
                                  /\ orders[i].oco = o[i].oco /\ orders[i].opening = o[i].opening
            BY <1>2, <1>4, <2>1, <2>2
        <3>4. \A i \in DOMAIN o : ExitOpen(o, i) /\ pos[o[i].symbol].qty # 0
                                      => orders[i].status = "OPEN"
            BY <1>3, <2>1, <2>2, <2>3, <3>1 DEF ExitOpen
        <3>5. ExitsRearm(o, pos)
            BY <3>3, <3>4, OpenExitsRearm
        <3> QED BY <1>5, <2>1, <3>2, <3>5 DEF o
    <2>4. CASE ~Executing(a, r)
        <3>1. w \notin DOMAIN a => ~(ExitOpen(o, w) /\ o[w].oco # 0)
            BY <1>9, <2>1, <2>4 DEF Executing, NewRow, ExitOpen
        <3> HIDE DEF a, o, r, w
        <3>2. \A i \in DOMAIN o : Rearmed(o, p, i) =>
                 /\ i \in DOMAIN a /\ Rearmed(a, p, i) /\ o[i].symbol = a[i].symbol
                 /\ o[i].side = a[i].side /\ o[i].qty = a[i].qty /\ o[i].oco = a[i].oco
            BY <1>4, <2>1, <2>2, <3>1 DEF Rearmed, ExitOpen
        <3>3. ExitsRearm(o, p)
            BY <1>1, <3>2 DEF ExitsRearm
        <3> QED BY <2>1, <3>3 DEF o, p
    <2> QED BY <2>3, <2>4
<1> QED BY <1>6, <1>7, <1>8, <1>9

LEMMA BackedWritten ==
    ASSUME StateInv, LedgerInv, QueueInv, Usable(db), WriteRow
    PROVE  Backed(db'.orders, db'.fills)
<1> DEFINE r == queue[1]
           a == db.orders
           o == db'.orders
<1>1. Backed(a, db.fills) /\ Backed(orders, fills) /\ OrdersFollow
      /\ DOMAIN a \subseteq DOMAIN orders /\ n \in Nat /\ DOMAIN orders \subseteq 1 .. n
    BY Basics DEF Usable, QueueInv, LedgerInv, NothingMissing
<1>2. r.table \in {"orders", "fills", "trades"}
      /\ fills \in Seq(Execution) /\ db.fills \in Seq(Execution)
    BY Basics, Written DEF Usable, TypedTables, TypeOK, BooksTyped
<1>3. IsFiniteSet(ExecutedIn(orders)) /\ IsFiniteSet(ExecutedIn(a)) /\ IsFiniteSet(DOMAIN orders)
    <2>1. IsFiniteSet(1 .. n)
        BY <1>1, FS_Interval
    <2>2. ExecutedIn(orders) \subseteq 1 .. n /\ ExecutedIn(a) \subseteq 1 .. n
        BY <1>1 DEF ExecutedIn
    <2> QED BY <1>1, <2>1, <2>2, FS_Subset
<1>4. Cardinality(ExecutedIn(orders)) \in Nat /\ Cardinality(ExecutedIn(a)) \in Nat
    BY <1>3, FS_CardinalityType
<1>5. CASE r.table = "trades"
    BY <1>1, <1>5, Written
<1>6. CASE r.table = "fills"
    <2>1. o = a /\ db'.fills = fills
        BY <1>6, Written
    <2>2. ExecutedIn(orders) \subseteq ExecutedIn(a)
        BY <1>6, WrittenBefore DEF Executed
    <2>3. Cardinality(ExecutedIn(orders)) <= Cardinality(ExecutedIn(a))
        BY <1>3, <2>2, FS_Subset
    <2>4. Len(fills) \in Nat
        BY <1>2
    <2> QED BY <1>1, <1>4, <2>1, <2>3, <2>4 DEF Backed
<1>7. CASE r.table = "orders"
    <2>1. /\ r.id \in DOMAIN orders /\ DOMAIN o = DOMAIN a \cup {r.id} /\ o[r.id] = orders[r.id]
          /\ \A i \in DOMAIN a \ {r.id} : o[i] = a[i]
          /\ db'.fills = db.fills
        BY <1>7, Written
    <2>2. ExecutedIn(a) \subseteq ExecutedIn(o) /\ ExecutedIn(o) \subseteq DOMAIN orders
        <3> HIDE DEF r, o
        <3> QED BY <1>1, <2>1 DEF ExecutedIn, OrdersFollow
    <2>3. IsFiniteSet(ExecutedIn(o))
        BY <1>3, <2>2, FS_Subset
    <2>4. Cardinality(ExecutedIn(a)) <= Cardinality(ExecutedIn(o)) /\ Cardinality(ExecutedIn(o)) \in Nat
        BY <2>2, <2>3, FS_Subset, FS_CardinalityType
    <2>5. Len(db.fills) \in Nat
        BY <1>2
    <2> QED BY <1>1, <1>4, <2>1, <2>4, <2>5 DEF Backed
<1> QED BY <1>2, <1>5, <1>6, <1>7

LEMMA UsableWrite ==
    ASSUME StateInv, LedgerInv, QueueInv, Usable(db), WriteRow
    PROVE  Usable(db')
<1> DEFINE r == queue[1]
           d == db'
<1>1. /\ r.table \in {"orders", "fills", "trades"} /\ 1 \in DOMAIN queue
      /\ d.fills = db.fills \/ d.fills = fills
      /\ d.trades = db.trades \/ d.trades = trades
      /\ \A i \in DOMAIN d.orders : \/ i \in DOMAIN orders /\ d.orders[i] = orders[i]
                                    \/ i \in DOMAIN db.orders /\ d.orders[i] = db.orders[i]
    <2>1. CASE r.table = "orders"
        BY <2>1, Written
    <2>2. CASE r.table # "orders"
        BY <2>2, Written
    <2> QED BY <2>1, <2>2, Written
<1>2. TypedTables(d)
    <2>1. TypedTables(db) /\ DOMAIN db.orders \subseteq DOMAIN orders
        BY DEF Usable, LedgerInv, NothingMissing
    <2>2. n \in Nat /\ DOMAIN orders \subseteq 1 .. n /\ \A i \in DOMAIN orders : orders[i] \in Order
        BY Basics
    <2>3. fills \in Seq(Execution) /\ trades \in Seq(Closed) /\ \A k \in DOMAIN fills : fills[k].at \in Times
        BY Basics DEF TypeOK, BooksTyped, TimesInv
    <2> HIDE DEF d
    <2>4. DOMAIN d.orders \subseteq 1 .. n /\ \A i \in DOMAIN d.orders : d.orders[i] \in Order
        BY <1>1, <2>1, <2>2 DEF TypedTables
    <2> QED BY <1>1, <2>1, <2>2, <2>3, <2>4 DEF TypedTables
<1>3. SoundBook(Replay(d.fills))
    BY <1>1, BookIsSound DEF Usable
<1> DEFINE b == Replay(d.fills)
<1>4. SoundOrders(d.orders, b.pos) /\ Backed(d.orders, d.fills)
    BY OrdersWritten, RearmWritten, BackedWritten DEF SoundOrders
<1> HIDE DEF d
<1>5. Usable(d)
    BY <1>2, <1>3, <1>4 DEF Usable
<1> QED BY <1>5 DEF d

\* What resume does to the orders: exits of held symbols stay open, the rest of the
\* open orders are cancelled, and nothing else changes.
LEMMA ResumedOrders ==
    ASSUME NEW d, TypedTables(d), NEW held
    PROVE  LET a == d.orders
               b == Resumed(d, held)
           IN  /\ DOMAIN b = DOMAIN a /\ b = [i \in DOMAIN b |-> b[i]]
               /\ \A i \in DOMAIN b :
                     /\ b[i] \in Order /\ b[i].symbol = a[i].symbol /\ b[i].side = a[i].side
                     /\ b[i].qty = a[i].qty /\ b[i].type = a[i].type
                     /\ b[i].bracket = a[i].bracket /\ b[i].oco = a[i].oco
                     /\ b[i].opening = a[i].opening
                     /\ b[i].status = "FILLED" <=> a[i].status = "FILLED"
                     /\ b[i].status = "OPEN" <=> /\ a[i].status = "OPEN" /\ a[i].oco # 0
                                                 /\ a[i].symbol \in held
<1> DEFINE a == d.orders
           b == Resumed(d, held)
<1>1. /\ DOMAIN b = DOMAIN a /\ b = [i \in DOMAIN b |-> b[i]]
      /\ \A i \in DOMAIN a :
            b[i] = IF a[i].status # "OPEN" THEN a[i]
                   ELSE IF a[i].oco # 0 /\ a[i].symbol \in held THEN [a[i] EXCEPT !.active = 0]
                   ELSE [a[i] EXCEPT !.status = "CANCELLED"]
    BY DEF Resumed
<1>2. \A i \in DOMAIN a : a[i] \in Order
    BY DEF TypedTables
<1> HIDE DEF a, b
<1>3. ASSUME NEW i \in DOMAIN b
      PROVE  /\ b[i] \in Order /\ b[i].symbol = a[i].symbol /\ b[i].side = a[i].side
             /\ b[i].qty = a[i].qty /\ b[i].type = a[i].type
             /\ b[i].bracket = a[i].bracket /\ b[i].oco = a[i].oco
             /\ b[i].opening = a[i].opening
             /\ b[i].status = "FILLED" <=> a[i].status = "FILLED"
             /\ b[i].status = "OPEN" <=> /\ a[i].status = "OPEN" /\ a[i].oco # 0
                                         /\ a[i].symbol \in held
    <2>1. a[i] \in Order
        BY <1>1, <1>2
    <2>2. CASE a[i].status # "OPEN"
        BY <1>1, <2>1, <2>2
    <2>3. CASE a[i].status = "OPEN" /\ a[i].oco # 0 /\ a[i].symbol \in held
        <3>1. b[i] = [a[i] EXCEPT !.active = 0]
            BY <1>1, <2>3
        <3> QED BY <2>1, <2>3, <3>1 DEF Order
    <2>4. CASE a[i].status = "OPEN" /\ ~(a[i].oco # 0 /\ a[i].symbol \in held)
        <3>1. b[i] = [a[i] EXCEPT !.status = "CANCELLED"]
            BY <1>1, <2>4
        <3> QED BY <2>1, <2>4, <3>1 DEF Order, Status
    <2> QED BY <2>2, <2>3, <2>4
<1> QED BY <1>1, <1>3 DEF a, b

\* Usable tables stay usable when a session resumes from them, and exact ones exact.
LEMMA ResumedUsable ==
    ASSUME NEW d, Usable(d), NEW held
    PROVE  LET e == [orders |-> Resumed(d, held), fills |-> d.fills, trades |-> d.trades]
           IN  /\ Usable(e) /\ (Exact(d) => Exact(e))
               /\ \A s \in Symbols : EntriesIn(Resumed(d, held), s) = EntriesIn(d.orders, s)
<1> DEFINE b == Replay(d.fills)
           a == d.orders
           r == Resumed(d, held)
           e == [orders |-> r, fills |-> d.fills, trades |-> d.trades]
<1>1. /\ TypedTables(d) /\ SoundBook(b) /\ SoundOrders(a, b.pos) /\ Backed(a, d.fills)
    BY DEF Usable
<1>2. /\ DOMAIN r = DOMAIN a
      /\ \A i \in DOMAIN r :
            /\ r[i] \in Order /\ r[i].symbol = a[i].symbol /\ r[i].side = a[i].side
            /\ r[i].qty = a[i].qty /\ r[i].type = a[i].type
            /\ r[i].bracket = a[i].bracket /\ r[i].oco = a[i].oco
            /\ r[i].opening = a[i].opening
            /\ r[i].status = "FILLED" <=> a[i].status = "FILLED"
            /\ r[i].status = "OPEN" => a[i].status = "OPEN"
    BY <1>1, ResumedOrders
<1>3. e.orders = r /\ e.fills = d.fills /\ e.trades = d.trades
    OBVIOUS
<1>4. TypedTables(e)
    BY <1>1, <1>2, <1>3 DEF TypedTables
<1> HIDE DEF r, e, a, b
<1>5. ExecutedIn(r) = ExecutedIn(a) /\ \A s \in Symbols : EntriesIn(r, s) = EntriesIn(a, s)
    BY <1>2 DEF ExecutedIn, EntriesIn
<1>6. SoundOrders(r, b.pos)
    <2>1. WellFormed(r)
        <3>1. WellFormed(a)
            BY <1>1 DEF SoundOrders
        <3> QED BY <1>2, <3>1 DEF WellFormed
    <2>2. PlainExits(r)
        BY <1>1, <1>2 DEF SoundOrders, PlainExits, ExitOpen
    <2>3. ExitsRearm(r, b.pos)
        <3>1. ExitsRearm(a, b.pos)
            BY <1>1 DEF SoundOrders
        <3>2. \A i \in DOMAIN r : Rearmed(r, b.pos, i) => Rearmed(a, b.pos, i)
            BY <1>2 DEF Rearmed, ExitOpen
        <3> QED BY <1>2, <3>1, <3>2 DEF ExitsRearm
    <2>4. Capped(r)
        <3> DEFINE f == [s \in Symbols |-> Cardinality(EntriesIn(a, s))]
                   g == [s \in Symbols |-> Cardinality(EntriesIn(r, s))]
        <3>1. f = g
            BY <1>5
        <3>2. SumFunction(f) <= TradesPerDay
              /\ \A s \in Symbols : Cardinality(EntriesIn(a, s)) <= TradesPerSymbol
            BY <1>1 DEF SoundOrders, Capped
        <3>3. \A s \in Symbols : Cardinality(EntriesIn(r, s)) <= TradesPerSymbol
            BY <1>5, <3>2
        <3> HIDE DEF f
        <3>4. SumFunction(g) <= TradesPerDay
            BY <3>1, <3>2
        <3> QED BY <3>3, <3>4 DEF Capped
    <2> QED BY <2>1, <2>2, <2>3, <2>4 DEF SoundOrders
<1>7. Usable(e)
    BY <1>1, <1>3, <1>4, <1>5, <1>6 DEF Usable, Backed, b
<1>8. ASSUME Exact(d)
      PROVE  Exact(e)
    <2>1. OneOf(a) /\ Attached(a) /\ Counted(a, d.fills) /\ Reconciled(b.cash, d.trades, b.trade)
        BY <1>8 DEF Exact, a, b
    <2>2. OneOf(r)
        <3> SUFFICES ASSUME NEW i \in DOMAIN r, NEW j \in DOMAIN r, i # j, r[i].oco # 0,
                            r[i].oco = r[j].oco, r[i].status = "FILLED"
                     PROVE  r[j].status \notin {"FILLED", "OPEN"}
            BY DEF OneOf
        <3>1. a[j].status \notin {"FILLED", "OPEN"}
            BY <1>2, <2>1 DEF OneOf
        <3> QED BY <1>2, <3>1
    <2>3. Attached(r)
        <3> SUFFICES ASSUME NEW i \in ExecutedIn(r), r[i].bracket # None
                     PROVE  \E j \in DOMAIN r : r[j].oco = i
            BY DEF Attached
        <3>1. PICK j \in DOMAIN a : a[j].oco = i
            BY <1>2, <1>5, <2>1 DEF Attached, ExecutedIn
        <3> QED BY <1>2, <3>1
    <2>4. Counted(r, d.fills)
        BY <1>5, <2>1 DEF Counted
    <2> QED BY <1>3, <2>1, <2>2, <2>3, <2>4 DEF Exact, b
<1> QED BY <1>5, <1>7, <1>8 DEF e, r, a

\* The last of some rows, if there is one.
LEMMA LastRow ==
    ASSUME NEW rows \in Seq(Execution), NEW T \in SUBSET DOMAIN rows, T # {}
    PROVE  Max(T) \in DOMAIN rows
<1>1. Len(rows) \in Nat /\ DOMAIN rows = 1 .. Len(rows)
    OBVIOUS
<1>2. Latest(T) \in T
    BY <1>1, LatestRow
<1> QED BY <1>2 DEF Latest

\* The last order's id, 0 if there is none.
LEMMA LastId ==
    ASSUME NEW m \in Nat, NEW D \in SUBSET (1 .. m)
    PROVE  Max(D \cup {0}) \in Nat /\ D \subseteq 1 .. Max(D \cup {0})
<1> DEFINE greatest(x) == x \in D \cup {0} /\ \A y \in D \cup {0} : x >= y
<1>1. \E x : greatest(x)
    <2>1. CASE D = {}
        <3>1. greatest(0)
            BY <2>1
        <3> QED BY <3>1
    <2>2. CASE D # {}
        <3>1. PICK x \in D : \A y \in D : y <= x
            BY <2>2, Nets!LastPosition
        <3>2. greatest(x)
            BY <3>1
        <3> QED BY <3>2
    <2> QED BY <2>1, <2>2
<1> DEFINE S == D \cup {0}
<1>2. S \in SUBSET Nat /\ D \subseteq S /\ \E x \in S : \A y \in S : x >= y
    BY <1>1
<1> HIDE DEF S
<1>3. Max(S) \in S /\ \A y \in S : Max(S) >= y
    BY <1>2 DEF Max
<1> DEFINE top == Max(S)
<1>4. top \in Nat /\ D \subseteq 1 .. top
    <2>1. top \in Nat /\ \A y \in D : top >= y
        BY <1>2, <1>3
    <2> HIDE DEF top
    <2>2. \A y \in D : y \in 1 .. top
        BY <2>1
    <2> QED BY <2>1, <2>2
<1> QED BY <1>4 DEF S

------------------------------------------------------------------------------
(* A restart.  A session that starts from usable tables is sound.          *)

Fresh ==
    /\ Usable(Tables) /\ SessionTypeOK /\ clock \in Times
    /\ orders = [i \in DOMAIN orders |-> orders[i]]
    /\ \A i \in Open : orders[i].oco # 0 /\ pos[orders[i].symbol].qty # 0
    /\ n \in Nat /\ DOMAIN orders \subseteq 1 .. n
    /\ [pos |-> pos, trade |-> trade, cash |-> cash] = Replay(fills)
    /\ last \in [Symbols -> Int \cup {None}] /\ seq = 0 /\ squared = FALSE
    /\ phase = "idle" /\ event = None /\ seen = {} /\ todo = {}
    /\ taken = [s \in Symbols |-> Cardinality(EntriesIn(orders, s))]

LEMMA FreshIsSound == Fresh => StateInv /\ (Exact(Tables) => ExactInv)
<1> SUFFICES ASSUME Fresh PROVE StateInv /\ (Exact(Tables) => ExactInv)
    OBVIOUS
<1> DEFINE b == Replay(fills)
<1>1. b.pos = pos /\ b.trade = trade /\ b.cash = cash /\ b = [pos |-> pos, trade |-> trade, cash |-> cash]
    BY DEF Fresh
<1>2. Tables.orders = orders /\ Tables.fills = fills /\ Tables.trades = trades
    BY DEF Tables
<1>3. TypedTables(Tables) /\ SoundBook(b) /\ SoundOrders(orders, pos) /\ Backed(orders, fills)
    BY <1>1, <1>2 DEF Fresh, Usable
<1> HIDE DEF b
<1>4. /\ pos \in [Symbols -> Position] /\ trade \in [Symbols -> Trade] /\ cash \in Int
      /\ Mirrors(pos, trade) /\ Cardinality(HeldIn(pos)) <= MaxOpenPositions
    BY <1>1, <1>3 DEF SoundBook
<1>5. WellFormed(orders) /\ PlainExits(orders) /\ ExitsRearm(orders, pos) /\ Capped(orders)
    BY <1>3 DEF SoundOrders
<1>6. /\ \A i \in DOMAIN orders : orders[i] \in Order
      /\ fills \in Seq(Execution) /\ trades \in Seq(Closed)
      /\ \A k \in DOMAIN fills : fills[k].at \in Times
    BY <1>2, <1>3 DEF TypedTables
<1>7. TypeOK
    <2>1. OrdersTyped
        BY <1>6 DEF Fresh, OrdersTyped
    <2>2. BooksTyped
        BY <1>4, <1>6 DEF BooksTyped
    <2>3. clock \in Nat \cup {None}
        BY Constants DEF Fresh
    <2>4. CallTyped
        BY <2>3 DEF Fresh, CallTyped
    <2> QED BY <2>1, <2>2, <2>4 DEF TypeOK
<1>8. Pending = {} /\ InUse = HeldIn(pos)
      /\ \A i \in DOMAIN orders : orders[i].status = "OPEN" => Rearmed(orders, pos, i)
    <2>1. \A i \in DOMAIN orders : orders[i].status = "OPEN" => Rearmed(orders, pos, i)
        BY <1>5 DEF Fresh, WellFormed, Open, Rearmed, ExitOpen
    <2>2. Pending = {}
        BY <2>1 DEF Pending, Open, Rearmed, ExitOpen
    <2> QED BY <2>1, <2>2 DEF InUse, HeldIn, Held
<1>9. IInv
    <2>1. OrdersWellFormed
        BY <1>5 DEF WellFormed, OrdersWellFormed
    <2>2. NoOrphanExit
        BY <1>5, <1>8 DEF ExitsRearm, NoOrphanExit, Open
    <2>3. TradeMirrorsPosition
        BY <1>4 DEF Mirrors, TradeMirrorsPosition
    <2>4. SlotLimit
        BY <1>4, <1>8 DEF SlotLimit
    <2>5. SquareOffClosesAll /\ FlatOnceSquared
        BY DEF Fresh, SquareOffClosesAll, FlatOnceSquared
    <2> QED BY <1>7, <2>1, <2>2, <2>3, <2>4, <2>5 DEF IInv
<1>10. AccountInv
    BY <1>4 DEF Fresh, Mirrors, NoneIsEmpty, ReplayRebuildsBook, AccountInv
<1>11. OrdersInv
    <2>1. ExitsFit(orders, pos)
        BY <1>5, <1>8 DEF ExitsFit, ExitsRearm, ExitOpen, Rearmed
    <2> QED BY <1>3, <1>5, <2>1 DEF Fresh, OrdersInv
<1>12. EntriesAlone
    BY <1>8 DEF EntriesAlone
<1>13. TimesInv
    BY <1>6 DEF Fresh, TimesInv
<1>14. TakenInv
    <2>1. taken = [s \in Symbols |-> Cardinality(EntriesIn(orders, s))]
        BY DEF Fresh
    <2>2. \A s \in Symbols : Bought(s) = EntriesIn(orders, s)
        BY <1>8 DEF Bought, EntriesIn, Pending, Open
    <2>3. \A s \in Symbols : Cardinality(EntriesIn(orders, s)) \in Nat
        BY <2>1 DEF Fresh, SessionTypeOK
    <2>4. /\ \A s \in Symbols : Cardinality(EntriesIn(orders, s)) <= TradesPerSymbol
          /\ SumFunction([s \in Symbols |-> Cardinality(EntriesIn(orders, s))]) <= TradesPerDay
        BY <1>5 DEF Capped
    <2>5. SumFunction(taken) <= TradesPerDay
        BY <2>1, <2>4
    <2>6. \A s \in Symbols : Cardinality(Bought(s)) <= taken[s] /\ taken[s] <= TradesPerSymbol
        BY <2>1, <2>2, <2>3, <2>4
    <2> QED BY <2>5, <2>6 DEF TakenInv
<1>15. StateInv
    BY <1>9, <1>10, <1>11, <1>12, <1>13, <1>14 DEF StateInv, Fresh
<1>16. ASSUME Exact(Tables)
       PROVE  ExactInv
    <2>1. /\ OneOf(orders) /\ Attached(orders) /\ Counted(orders, fills)
          /\ Reconciled(b.cash, trades, b.trade)
        BY <1>2, <1>16 DEF Exact, b
    <2>2. CashReconciles
        BY <1>1, <2>1, CashForm DEF Reconciled, Flows
    <2> QED BY <2>1, <2>2 DEF ExactInv, OneOf, OneExitPerBracket
<1> QED BY <1>15, <1>16

LEMMA RestartIsFresh ==
    ASSUME SInv, Restart
    PROVE  /\ Fresh' /\ LedgerInv' /\ QueueInv' /\ queue' = <<>>
           /\ db' = Tables' /\ disk' = Tables'
           /\ "session" \notin cut' => cut' = {} /\ Exact(Tables)'
<1> DEFINE d == disk
           b == Replay(d.fills)
           held == {s \in Symbols : b.pos[s].qty # 0}
           tables == [orders |-> Resumed(d, held), fills |-> d.fills, trades |-> d.trades]
<1>1. /\ restarts < MaxRestarts /\ restarts' = restarts + 1
      /\ orders' = Resumed(d, held)
      /\ n' = Max(DOMAIN d.orders \cup {0})
      /\ pos' = b.pos /\ trade' = b.trade /\ cash' = b.cash
      /\ trades' = d.trades /\ fills' = d.fills
      /\ last' = [s \in Symbols |-> LastOf(d, FillsOf(d, s), "price")]
      /\ clock' = LastOf(d, DOMAIN d.fills, "at")
      /\ seq' = 0 /\ squared' = FALSE
      /\ phase' = "idle" /\ event' = None /\ seen' = {} /\ todo' = {}
      /\ db' = [d EXCEPT !.orders = orders'] /\ disk' = db' /\ queue' = <<>>
      /\ stage' = "idle" /\ asOf' = None /\ dayOver' = FALSE /\ asked' = {}
      /\ entered' = [s \in Symbols |-> IF s \in held THEN LastOf(d, EntriesOf(d, s), "at")
                                                     ELSE None]
      /\ taken' = TakenOf(d)
      /\ ltp' = [s \in Symbols |-> None]
      /\ minute' \in minute .. MaxTime /\ stepped' = minute' - 1
      /\ cut' = IF cut \cap {"disk", "session"} = {} THEN {} ELSE {"session"}
    BY DEF Restart, RoundTrips
<1>2. StateInv /\ LedgerInv /\ Usable(d) /\ IsTables(d) /\ TypedTables(d) /\ SoundBook(b)
    BY DEF SInv, LedgerInv, Usable
<1> HIDE DEF held, b
<1>3. /\ Usable(tables) /\ (Exact(d) => Exact(tables))
      /\ \A s \in Symbols : EntriesIn(Resumed(d, held), s) = EntriesIn(d.orders, s)
    BY <1>2, ResumedUsable
<1>4. Tables' = tables
    BY <1>1 DEF Tables
<1>5. db' = tables /\ disk' = tables
    <2>1. [d EXCEPT !.orders = Resumed(d, held)] = tables
        BY <1>2 DEF IsTables
    <2> QED BY <1>1, <2>1
<1>6. /\ DOMAIN orders' = DOMAIN d.orders /\ orders' = [i \in DOMAIN orders' |-> orders'[i]]
      /\ \A i \in DOMAIN orders' :
            orders'[i].status = "OPEN" => orders'[i].oco # 0 /\ orders'[i].symbol \in held
    <2> DEFINE r == Resumed(d, held)
    <2>1. /\ DOMAIN r = DOMAIN d.orders /\ r = [i \in DOMAIN r |-> r[i]]
          /\ \A i \in DOMAIN r : r[i].status = "OPEN" => r[i].oco # 0 /\ r[i].symbol \in held
        BY <1>2, ResumedOrders
    <2> HIDE DEF r
    <2>2. orders' = r
        BY <1>1 DEF r
    <2> QED BY <2>1, <2>2
<1>7. n' \in Nat /\ DOMAIN orders' \subseteq 1 .. n'
    <2>1. PICK m \in Nat : DOMAIN d.orders \subseteq 1 .. m
        BY <1>2 DEF TypedTables
    <2>2. /\ Max(DOMAIN d.orders \cup {0}) \in Nat
          /\ DOMAIN d.orders \subseteq 1 .. Max(DOMAIN d.orders \cup {0})
        BY <2>1, LastId
    <2> QED BY <1>1, <1>6, <2>2
<1>8. /\ \A T \in SUBSET DOMAIN d.fills : LastOf(d, T, "price") \in Int \cup {None}
      /\ \A T \in SUBSET DOMAIN d.fills : LastOf(d, T, "at") \in Times
    <2> SUFFICES ASSUME NEW T \in SUBSET DOMAIN d.fills
                 PROVE  LastOf(d, T, "price") \in Int \cup {None} /\ LastOf(d, T, "at") \in Times
        OBVIOUS
    <2>1. CASE T = {}
        BY <2>1 DEF LastOf, Times
    <2>2. CASE T # {}
        <3>1. d.fills \in Seq(Execution) /\ \A k \in DOMAIN d.fills : d.fills[k].at \in Times
            BY <1>2 DEF TypedTables
        <3>2. Max(T) \in DOMAIN d.fills
            BY <2>2, <3>1, LastRow
        <3>3. d.fills[Max(T)] \in Execution /\ d.fills[Max(T)].at \in Times
            BY <3>1, <3>2
        <3>4. d.fills[Max(T)].price \in Int
            BY <3>3 DEF Execution
        <3> QED BY <2>2, <3>3, <3>4 DEF LastOf
    <2> QED BY <2>1, <2>2
<1>9. last' \in [Symbols -> Int \cup {None}] /\ clock' \in Times
    BY <1>1, <1>8 DEF FillsOf
<1>10. entered' \in [Symbols -> Times]
    <2>1. \A s \in Symbols : LastOf(d, EntriesOf(d, s), "at") \in Times
        BY <1>8 DEF EntriesOf, FillsOf
    <2>2. None \in Times
        BY DEF Times
    <2> QED BY <1>1, <2>1, <2>2
<1>11. taken' = [s \in Symbols |-> Cardinality(EntriesIn(orders', s))]
    <2>1. taken' = [s \in Symbols |-> Cardinality(EntriesIn(d.orders, s))]
        BY <1>1 DEF TakenOf, EntriesIn
    <2>2. \A s \in Symbols : EntriesIn(orders', s) = EntriesIn(d.orders, s)
        BY <1>1, <1>3
    <2> QED BY <2>1, <2>2
<1>12. taken' \in [Symbols -> Nat]
    <2>1. \A s \in Symbols : Cardinality(EntriesIn(orders', s)) \in Nat
        <3> TAKE s \in Symbols
        <3>1. EntriesIn(orders', s) \subseteq 1 .. n' /\ IsFiniteSet(1 .. n')
            BY <1>7, FS_Interval DEF EntriesIn
        <3>2. IsFiniteSet(EntriesIn(orders', s))
            BY <3>1, FS_Subset
        <3> QED BY <3>2, FS_CardinalityType
    <2> QED BY <1>11, <2>1
<1>13. SessionTypeOK'
    <2>1. TypedState /\ MaxTime \in Nat /\ MaxRestarts \in Nat
        BY <1>2, Basics, SessionParts, Constants
    <2>2. minute \in 0 .. MaxTime /\ restarts \in 0 .. MaxRestarts
        BY <2>1 DEF TypedState
    <2>3. minute' \in 0 .. MaxTime /\ stepped' \in -1 .. minute' /\ restarts' \in 0 .. MaxRestarts
        BY <1>1, <2>1, <2>2
    <2>a. cut' \subseteq {"db", "disk", "session"} /\ lost' \subseteq Nat
        <3>1. \A s \in Symbols : EntryRow(d, s) \in Nat
            <4> TAKE s \in Symbols
            <4>1. d.fills \in Seq(Execution) /\ Len(d.fills) \in Nat
                BY <1>2 DEF TypedTables
            <4>2. EntriesOf(d, s) \in SUBSET (1 .. Len(d.fills))
                BY <4>1 DEF EntriesOf, FillsOf
            <4> QED BY <4>1, <4>2, LastId DEF EntryRow
        <3>2. lost \subseteq Nat
            BY <2>1 DEF TypedState
        <3>3. lost' \subseteq lost \cup {EntryRow(d, s) : s \in Symbols}
            BY DEF Restart
        <3> QED BY <1>1, <3>1, <3>2, <3>3
    <2>4. TypedState'
        BY <1>1, <1>10, <2>3, <2>a DEF TypedState, Stage
    <2>5. InStage'
        BY <1>1 DEF InStage
    <2>6. (TypedState /\ InStage /\ taken \in [Symbols -> Nat])'
        BY <1>12, <2>4, <2>5
    <2> QED BY <2>6, SessionParts, PTL
<1>14. Fresh'
    <2>1. Usable(Tables)'
        BY <1>3, <1>4
    <2>2. \A i \in Open' : orders'[i].oco # 0 /\ pos'[orders'[i].symbol].qty # 0
        BY <1>1, <1>6 DEF Open, held
    <2>3. [pos |-> pos', trade |-> trade', cash |-> cash'] = Replay(fills)'
        BY <1>1, <1>2 DEF SoundBook, b
    <2> QED BY <1>1, <1>6, <1>7, <1>9, <1>11, <1>13, <2>1, <2>2, <2>3 DEF Fresh
<1>15. LedgerInv'
    <2>1. \A table : QueuedIn(queue', table) = {}
        BY <1>1 DEF QueuedIn
    <2>2. tables.orders = orders' /\ tables.fills = fills' /\ tables.trades = trades'
          /\ tables = [orders |-> tables.orders, fills |-> tables.fills, trades |-> tables.trades]
        BY <1>1
    <2> HIDE DEF tables
    <2>3. IsTables(db)' /\ IsTables(disk)'
        BY <1>5, <1>6, <2>2 DEF IsTables
    <2>4. RowsRight'
        BY <1>1, <2>1 DEF RowsRight
    <2>5. NothingMissing'
        BY <1>5, <2>1, <2>2 DEF NothingMissing
    <2> QED BY <2>3, <2>4, <2>5 DEF LedgerInv
<1>16. QueueInv'
    <2>1. ExecutedFirst(queue') /\ ExitsStand'
        BY <1>1 DEF ExecutedFirst, ExitsStand
    <2>2. db'.orders = orders'
        BY <1>1, <1>5
    <2>3. OrdersFollow'
        BY <2>2 DEF OrdersFollow
    <2> QED BY <1>1, <2>1, <2>3 DEF QueueInv
<1>17. ASSUME "session" \notin cut'
       PROVE  cut' = {} /\ Exact(Tables)'
    <2>1. cut' = {} /\ "disk" \notin cut /\ "session" \notin cut
        BY <1>1, <1>17
    <2>2. Exact(d)
        BY <2>1 DEF SInv, CutInv
    <2> QED BY <1>3, <1>4, <2>1, <2>2
<1> HIDE DEF tables
<1> QED BY <1>1, <1>4, <1>5, <1>14, <1>15, <1>16, <1>17

------------------------------------------------------------------------------
(* The invariant of a session, whoever else commits.                       *)

LEMMA SessionInit == SInit => SInv
<1> SUFFICES ASSUME SInit PROVE SInv
    OBVIOUS
<1>1. Init /\ taken = [s \in Symbols |-> 0]
    BY DEF SInit
<1>2. IInv /\ AccountInv
    BY <1>1, InitInv, AccountInit
<1>3. /\ orders = [i \in {} |-> None] /\ fills = <<>> /\ clock = None /\ DOMAIN orders = {}
      /\ orders = [i \in DOMAIN orders |-> orders[i]] /\ phase = "idle"
    BY <1>1 DEF Init
<1>4. Cardinality({}) = 0
    BY FS_EmptySet
<1>5. OrdersInv
    <2>1. PlainExits(orders) /\ ExitsFit(orders, pos) /\ ExecutedIn(orders) = {}
        BY <1>3 DEF PlainExits, ExitsFit, ExecutedIn
    <2>2. Backed(orders, fills)
        BY <1>3, <1>4, <2>1 DEF Backed
    <2> QED BY <1>3, <2>1, <2>2 DEF OrdersInv
<1>6. EntriesAlone /\ TimesInv
    BY <1>3 DEF EntriesAlone, Pending, Open, TimesInv, Times
<1>7. TakenInv
    <2>1. SumFunction(taken) = 0
        <3>1. taken \in [Symbols -> {0}]
            BY <1>1
        <3> QED BY <3>1, SymbolsAssumption, SumIsFold, Sums!SumType
    <2>2. \A s \in Symbols : Bought(s) = {}
        BY <1>3 DEF Bought
    <2>3. \A s \in Symbols : Cardinality(Bought(s)) <= taken[s] /\ taken[s] <= TradesPerSymbol
        BY <1>1, <1>4, <2>2, Constants
    <2> QED BY <2>1, <2>3, Constants DEF TakenInv
<1>8. SessionTypeOK
    <2>1. /\ minute = 0 /\ stepped = 0 /\ stage = "idle" /\ asOf = None /\ dayOver = FALSE
          /\ asked = {} /\ restarts = 0 /\ entered = [s \in Symbols |-> None]
          /\ cut = {} /\ lost = {}
          /\ ltp = [s \in Symbols |-> None]
        BY DEF SInit
    <2>2. minute \in 0 .. MaxTime /\ stepped \in -1 .. minute /\ restarts \in 0 .. MaxRestarts
        BY <2>1, Constants
    <2>3. entered \in [Symbols -> Times] /\ ltp \in [Symbols -> Prices \cup {None}]
        BY <2>1 DEF Times
    <2>4. TypedState
        BY <2>1, <2>2, <2>3 DEF TypedState, Stage
    <2>5. InStage /\ taken \in [Symbols -> Nat]
        BY <1>1, <1>3, <2>1 DEF InStage
    <2> QED BY <2>4, <2>5, SessionParts
<1>9. StateInv
    BY <1>2, <1>5, <1>6, <1>7, <1>8 DEF StateInv
<1>10. db = Tables /\ disk = Tables /\ queue = <<>>
    BY DEF SInit, Tables
<1>11. LedgerInv
    <2>1. \A table : QueuedIn(queue, table) = {}
        BY <1>10 DEF QueuedIn
    <2>2. IsTables(db) /\ IsTables(disk)
        BY <1>3, <1>10 DEF IsTables, Tables
    <2>3. RowsRight
        BY <1>10, <2>1 DEF RowsRight
    <2>4. NothingMissing
        BY <1>10, <2>1 DEF NothingMissing, Tables
    <2> QED BY <2>2, <2>3, <2>4 DEF LedgerInv
<1>12. ExactInv
    <2>1. OneExitPerBracket /\ CashReconciles
        BY <1>1, BracketInit, CashInit
    <2>2. ExecutedIn(orders) = {}
        BY <1>3 DEF ExecutedIn
    <2>3. Attached(orders) /\ Counted(orders, fills)
        BY <1>3, <1>4, <2>2 DEF Attached, Counted
    <2> QED BY <2>1, <2>3 DEF ExactInv
<1>13. QueueInv
    <2>1. ExecutedFirst(queue) /\ ExitsStand
        BY <1>10 DEF ExecutedFirst, ExitsStand
    <2>2. OrdersFollow
        BY <1>10 DEF OrdersFollow, Tables
    <2> QED BY <1>10, <2>1, <2>2 DEF QueueInv
<1>14. Usable(db) /\ Usable(disk) /\ Exact(db) /\ Exact(disk) /\ cut = {}
    BY <1>9, <1>10, <1>12, TablesUsable, TablesExact DEF SInv, SInit
<1> QED BY <1>9, <1>11, <1>12, <1>13, <1>14 DEF SInv, CutInv

LEMMA CutStep ==
    ASSUME SInv, [SNext]_svars, ~Restart
    PROVE  CutInv'
<1>1. StateInv /\ LedgerInv /\ CutInv
    BY DEF SInv
<1>2. StateInv' /\ LedgerInv'
    BY <1>1, StateStep, LedgerStep
<1>3. "session" \notin cut => ExactInv'
    BY <1>1, ExactStep DEF CutInv
<1>4. CASE Logged
    <2>1. db' = db /\ disk' = disk /\ cut' = cut /\ "db" \notin cut
        BY <1>1, <1>4 DEF Logged, past, CutInv
    <2> QED BY <1>1, <1>3, <2>1 DEF CutInv
<1>5. CASE WriteRow
    <2>1. disk' = disk /\ cut' = IF queue' = <<>> THEN cut \ {"db"} ELSE cut \cup {"db"}
        BY <1>5 DEF WriteRow
    <2>2. "session" \in cut' <=> "session" \in cut
        BY <2>1
    <2>3. ASSUME "db" \notin cut', "session" \notin cut
          PROVE  Exact(db)'
        <3>1. queue' = <<>>
            BY <2>1, <2>3
        <3>2. (queue = <<>>)' /\ ExactInv'
            BY <1>3, <2>3, <3>1
        <3>3. (db = Tables)' /\ Exact(Tables)'
            BY <1>2, <3>2, NothingQueued, TablesExact, PTL
        <3> QED BY <3>3
    <2> QED BY <1>1, <1>3, <2>1, <2>2, <2>3 DEF CutInv
<1>6. CASE CommitStep
    <2>1. db' = db /\ queue' = queue
        BY <1>6 DEF CommitStep
    <2>2. CASE disk' = disk /\ cut' = cut
        BY <1>1, <1>3, <2>1, <2>2 DEF CutInv
    <2>3. CASE /\ disk' = db /\ cut' \ {"disk"} = cut \ {"disk"}
               /\ "disk" \in cut' \/ queue = <<>> \/ "db" \notin cut
        <3>1. /\ "session" \in cut' <=> "session" \in cut
              /\ "db" \in cut' <=> "db" \in cut
            BY <2>3
        <3>2. "disk" \notin cut' => "db" \notin cut
            BY <1>1, <2>3 DEF CutInv
        <3> QED BY <1>1, <1>3, <2>1, <2>3, <3>1, <3>2 DEF CutInv
    <2> QED BY <1>6, <2>2, <2>3 DEF CommitStep
<1> QED BY <1>1, <1>4, <1>5, <1>6, LedgerEffect

LEMMA SessionStep ==
    ASSUME SInv, [SNext]_svars
    PROVE  SInv'
<1>1. CASE Restart
    <2>1. /\ Fresh' /\ LedgerInv' /\ QueueInv' /\ queue' = <<>>
          /\ db' = Tables' /\ disk' = Tables'
          /\ "session" \notin cut' => cut' = {} /\ Exact(Tables)'
        BY <1>1, RestartIsFresh
    <2>2. StateInv' /\ (Exact(Tables) => ExactInv)'
        BY <2>1, FreshIsSound, PTL
    <2>3. Usable(Tables)'
        BY <2>2, TablesUsable, PTL
    <2>4. "db" \notin cut'
        BY <1>1 DEF Restart
    <2>5. CutInv'
        BY <2>1, <2>2, <2>4 DEF CutInv
    <2> QED BY <2>1, <2>2, <2>3, <2>5 DEF SInv
<1>2. CASE ~Restart
    <2>1. StateInv /\ LedgerInv /\ QueueInv /\ Usable(db) /\ Usable(disk)
        BY DEF SInv
    <2>2. StateInv' /\ LedgerInv' /\ CutInv'
        BY <1>2, <2>1, StateStep, LedgerStep, CutStep
    <2>3. Effect /\ BrokerStep /\ BookRows
        BY <1>2, <2>1, Effects, BooksGrow
    <2>4. OrdersTyped'
        BY <2>2 DEF StateInv, IInv, TypeOK
    <2>5. QueueInv' /\ Usable(db)' /\ Usable(disk)'
        <3>1. CASE Logged
            BY <2>1, <2>3, <2>4, <3>1, QueueLogged DEF Logged
        <3>2. CASE WriteRow
            <4>1. disk' = disk
                BY <3>2 DEF WriteRow
            <4> QED BY <2>1, <3>2, <4>1, QueueWrite, UsableWrite
        <3>3. CASE CommitStep
            <4>1. UNCHANGED <<orders, pos, queue, db>> /\ disk' \in {disk, db}
                BY <3>3 DEF CommitStep
            <4>2. QueueInv'
                BY <2>1, <4>1 DEF QueueInv, OrdersFollow, ExitsStand
            <4> QED BY <2>1, <4>1, <4>2
        <3> QED BY <1>2, <2>1, <3>1, <3>2, <3>3, LedgerEffect
    <2> QED BY <2>2, <2>5 DEF SInv
<1> QED BY <1>1, <1>2

LEMMA AtMostOne ==
    ASSUME NEW S, \A x, y \in S : x = y
    PROVE  Cardinality(S) <= 1
<1>1. CASE S = {}
    BY <1>1, FS_EmptySet
<1>2. ASSUME NEW x \in S
      PROVE  Cardinality(S) <= 1
    <2>1. S = {x}
        OBVIOUS
    <2> QED BY <2>1, FS_Singleton
<1> QED BY <1>1, <1>2

LEMMA SoundStates ==
    ASSUME SInv
    PROVE  SessionInv /\ DurableIsWhole
<1>1. StateInv
    BY DEF SInv
<1>2. ExitsMatchPosition
    <2> SUFFICES ASSUME NEW s \in Symbols
                 PROVE  LET exits == {i \in OpenFor(s) : ~orders[i].opening}
                        IN  /\ \A i \in exits : orders[i].qty = Abs(pos[s].qty)
                            /\ Cardinality({orders[i].oco : i \in exits}) <= 1
                            /\ Cardinality({i \in exits : orders[i].oco = 0}) <= 1
        BY DEF ExitsMatchPosition
    <2> DEFINE exits == {i \in OpenFor(s) : ~orders[i].opening}
    <2>1. \A i \in exits : i \in DOMAIN orders /\ ExitOpen(orders, i) /\ orders[i].symbol = s
        BY DEF OpenFor, Open, ExitOpen
    <2>2. ExitsFit(orders, pos)
        BY <1>1, Basics
    <2> HIDE DEF exits
    <2>3. \A i \in exits : orders[i].qty = Abs(pos[s].qty)
        BY <2>1, <2>2 DEF ExitsFit
    <2>4. \A i, j \in exits : orders[j].oco = orders[i].oco /\ (orders[i].oco = 0 => j = i)
        BY <2>1, <2>2 DEF ExitsFit
    <2>5. Cardinality({orders[i].oco : i \in exits}) <= 1
        <3>1. \A x, y \in {orders[i].oco : i \in exits} : x = y
            BY <2>4
        <3> QED BY <3>1, AtMostOne
    <2>6. Cardinality({i \in exits : orders[i].oco = 0}) <= 1
        <3>1. \A x, y \in {i \in exits : orders[i].oco = 0} : x = y
            BY <2>4
        <3> QED BY <3>1, AtMostOne
    <2> QED BY <2>3, <2>5, <2>6 DEF exits
<1>3. EntriesCapped
    <2>1. Capped(orders)
        BY <1>1, EntriesAreCapped
    <2> QED BY <2>1 DEF Capped, EntriesIn, EntriesCapped, EntriesOn
<1>4. DurableIsWhole
    <2>1. ASSUME cut \cap {"disk", "session"} = {}
          PROVE  Whole(disk)
        <3>1. Exact(disk)
            BY <2>1 DEF SInv, CutInv
        <3> QED BY <3>1 DEF Exact, Whole, Counted, Attached, Reconciled, ExecutedIn, NetSum
    <2>2. Backed(disk.orders, disk.fills)
        BY DEF SInv, Usable
    <2> QED BY <2>1, <2>2 DEF DurableIsWhole, Backed, ExecutedIn
<1> QED BY <1>1, <1>2, <1>3, <1>4, Basics DEF SessionInv

\* The inductive invariant of a session, through crashes, restarts and the commits
\* of another session, at any point, on the same connection.
THEOREM SessionIsSound == SSpec => []SInv
<1>1. SInv /\ [SNext]_svars => SInv'
    BY SessionStep
<1> QED BY <1>1, SessionInit, PTL DEF SSpec

\* The exits of a position are for all of it and are one bracket or one order,
\* and restarts do not buy entries (SessionInv of the runs): common.py:262-268,
\* broker.py:404-423, common.py:156-161, 200, 235-248.
THEOREM SessionsKeepTheirWord == SSpec => []SessionInv
<1>1. SInv => SessionInv
    BY SoundStates
<1> QED BY <1>1, SessionIsSound, PTL

\* What a crash leaves on the disk is a state between two executions, unless another
\* session committed inside a call of this one; and then too no fill is there without its
\* executed order (ledger.py:3-5, broker.py:385-423, paper_live.py:241).
THEOREM DurableStateIsWhole == SSpec => []DurableIsWhole
<1>1. SInv => DurableIsWhole
    BY SoundStates
<1> QED BY <1>1, SessionIsSound, PTL

------------------------------------------------------------------------------
(* No position is orphaned unknown.  A held position has an open exit or   *)
(* is due: its entry was so long ago that the next minute's step exits it. *)
(* The order of a time exit is not resumed, but its position stays due,    *)
(* and that can be seen from the tables: the entry's time is in the fills. *)
(* What history knows as lost is the rest: a stall exit that is not        *)
(* resumed, and a call of which another session has committed a part.      *)

ExitFor(s) == \E i \in Open : ~orders[i].opening /\ orders[i].symbol = s
EntryAt(d, s) == LastOf(d, EntriesOf(d, s), "at")
Known(d, s) == EntryRow(d, s) \in lost

Covered == phase # "square" => \A s \in Held : TimeDue(s) \/ ExitFor(s) \/ Known(Tables, s)
MarketDue == \A i \in Open : ~orders[i].opening /\ orders[i].oco = 0 => TimeDue(orders[i].symbol)
EnteredInv == \A s \in Held : entered[s] = EntryAt(Tables, s)

\* The same, of tables: what a restart from them makes of the positions.
HeldOn(d) == {s \in Symbols : Replay(d.fills).pos[s].qty # 0}
DueOn(d, s, m) == MaxHold # None /\ EntryAt(d, s) # None /\ m - EntryAt(d, s) >= MaxHold
CoveredOn(d, m, l) ==
    \A s \in HeldOn(d) :
        \/ DueOn(d, s, m) \/ EntryRow(d, s) \in l \/ ExitDropped(d, s)
        \/ \E i \in DOMAIN d.orders :
              ExitOpen(d.orders, i) /\ d.orders[i].oco # 0 /\ d.orders[i].symbol = s
DroppedDue(d, m) == \A s \in HeldOn(d) : ExitDropped(d, s) => DueOn(d, s, m)

CoverInv ==
    /\ Covered /\ EnteredInv
    /\ "disk" \notin cut => CoveredOn(disk, minute, lost)
    /\ "db" \notin cut /\ phase # "square" => CoveredOn(db, minute, lost)
    /\ StallAfter = None => /\ MarketDue
                            /\ "disk" \notin cut => DroppedDue(disk, minute)
                            /\ "db" \notin cut => DroppedDue(db, minute)
    /\ lost # {} => "session" \in cut \/ StallAfter # None

\* The tables of a covered state are covered.
LEMMA CoveredTables ==
    StateInv /\ Covered /\ EnteredInv /\ phase # "square" => CoveredOn(Tables, minute, lost)
<1> SUFFICES ASSUME StateInv, Covered, EnteredInv, phase # "square",
                    NEW s \in HeldOn(Tables)
             PROVE  \/ DueOn(Tables, s, minute) \/ EntryRow(Tables, s) \in lost
                    \/ ExitDropped(Tables, s)
                    \/ \E i \in DOMAIN orders :
                          ExitOpen(orders, i) /\ orders[i].oco # 0 /\ orders[i].symbol = s
    BY DEF CoveredOn, Tables
<1>1. s \in Held
    BY BookIsSound DEF HeldOn, Held, Tables
<1>2. TimeDue(s) => DueOn(Tables, s, minute)
    BY <1>1 DEF EnteredInv, TimeDue, HeldFor, DueOn
<1>3. ASSUME NEW i \in Open, ~orders[i].opening, orders[i].symbol = s
      PROVE  \/ ExitDropped(Tables, s)
             \/ \E j \in DOMAIN orders :
                   ExitOpen(orders, j) /\ orders[j].oco # 0 /\ orders[j].symbol = s
    BY <1>3 DEF Open, ExitOpen, ExitDropped, Tables
<1> QED BY <1>1, <1>2, <1>3 DEF Covered, ExitFor, Known

LEMMA DroppedTables ==
    StateInv /\ MarketDue /\ EnteredInv => DroppedDue(Tables, minute)
<1> SUFFICES ASSUME StateInv, MarketDue, EnteredInv,
                    NEW s \in HeldOn(Tables), ExitDropped(Tables, s)
             PROVE  DueOn(Tables, s, minute)
    BY DEF DroppedDue
<1>1. s \in Held
    BY BookIsSound DEF HeldOn, Held, Tables
<1>2. TimeDue(s)
    BY DEF ExitDropped, Tables, MarketDue, Open
<1> QED BY <1>1, <1>2 DEF EnteredInv, TimeDue, HeldFor, DueOn

\* Time passes; the minute never goes back.
LEMMA MinutesPass ==
    ASSUME StateInv, [SNext]_svars, StateInv'
    PROVE  /\ minute \in Nat /\ minute' \in Nat /\ minute' >= minute
           /\ MaxHold \in Nat \cup {None}
           /\ \A s \in Symbols : entered[s] \in Nat \cup {None}
<1>1. TypedState /\ MaxTime \in Nat /\ Times \subseteq Nat \cup {None}
    BY Basics, SessionParts, Constants
<1>2. minute \in 0 .. MaxTime /\ \A s \in Symbols : entered[s] \in Nat \cup {None}
    BY <1>1 DEF TypedState
<1>3. MaxHold \in Nat \cup {None}
    BY HoldAssumption
<1>4. minute' = minute \/ minute' = minute + 1 \/ minute' \in minute .. MaxTime
    <2>1. TickSteps \/ MinuteSteps => minute' = minute
        BY DEF TickSteps, TickEntry, TickOther, MinuteSteps, BeginStep, CallStrategy, CloseDay,
              SkipStrategy, TimeExit, EndExits, EndEntries, ClosingStep, SquareOffDone, Commit,
              session
    <2>2. StrategySteps => minute' = minute
        BY DEF StrategySteps, PumpTick, MarkBar, StallExit, Enter, session
    <2>3. WriteRow \/ ForeignCommit \/ Stop \/ UNCHANGED svars => minute' = minute
        BY DEF WriteRow, ForeignCommit, Stop, svars, session
    <2>4. Elapse => minute' = minute + 1
        BY DEF Elapse
    <2>5. Restart => minute' \in minute .. MaxTime
        BY DEF Restart
    <2> QED BY <2>1, <2>2, <2>3, <2>4, <2>5 DEF SNext
<1>5. minute \in Nat /\ minute' \in Nat /\ minute' >= minute
    BY <1>1, <1>2, <1>4
<1> QED BY <1>2, <1>3, <1>5

\* What is due stays due while the position is held.
LEMMA StaysDue ==
    ASSUME StateInv, [SNext]_svars, StateInv',
           NEW s \in Symbols, TimeDue(s), s \in Held', entered'[s] = entered[s]
    PROVE  TimeDue(s)'
<1>1. MaxHold # None /\ entered[s] # None /\ minute - entered[s] >= MaxHold
    BY DEF TimeDue, HeldFor
<1>2. entered[s] \in Nat /\ MaxHold \in Nat /\ minute \in Nat /\ minute' \in Nat
      /\ minute' >= minute
    BY <1>1, MinutesPass
<1>3. minute' - entered[s] >= MaxHold
    BY <1>1, <1>2
<1> QED BY <1>1, <1>3 DEF TimeDue, HeldFor

\* An exit that stays open covers its position.
LEMMA StillExit ==
    ASSUME StateInv, Effect, NEW i \in Open, ~orders[i].opening, i \in Open',
           NEW s, orders[i].symbol = s
    PROVE  ExitFor(s)'
<1>1. i \in DOMAIN orders
    BY DEF Open
<1>2. ~orders'[i].opening /\ orders'[i].symbol = orders[i].symbol
    BY <1>1, EffectGrows
<1> QED BY <1>2 DEF ExitFor

\* The square-off ends with nothing held.
LEMMA SquareEnds ==
    ASSUME StateInv, [SNext]_svars, ~Restart, StateInv', phase = "square", phase' # "square"
    PROVE  Held = {} /\ Held' = {}
<1>1. /\ phase = "square" <=> stage \in {"closing", "ending"}
      /\ phase' = "square" <=> stage' \in {"closing", "ending"}
    <2>1. InStage /\ SessionTypeOK'
        BY Basics, SessionParts DEF StateInv
    <2>2. InStage'
        BY <2>1, SessionParts, PTL
    <2> QED BY <2>1, <2>2 DEF InStage
<1>2. stage \in {"closing", "ending"} /\ stage' \notin {"closing", "ending"}
    BY <1>1
<1>3. SquareOffDone
    <2>1. ~TickSteps
        BY DEF TickSteps, TickEntry, TickOther, EntryFills, VisitUntouched, ExitTooLate,
              EntryOpposed, EntryUnfunded, ExitFills, Visit, Visited, EndTick
    <2>2. MinuteSteps => SquareOffDone
        BY <1>2 DEF MinuteSteps, BeginStep, CallStrategy, CloseDay, SkipStrategy, TimeExit,
              EndExits, EndEntries, ClosingStep, Commit, ExitPosition, session
    <2>3. ~StrategySteps
        BY <1>2 DEF StrategySteps, PumpTick, MarkBar, StallExit, Enter, ExitPosition
    <2>4. ~(WriteRow \/ ForeignCommit \/ Elapse \/ Stop \/ UNCHANGED svars)
        BY <1>2 DEF WriteRow, ForeignCommit, Elapse, Stop, svars, session
    <2> QED BY <2>1, <2>2, <2>3, <2>4 DEF SNext
<1>4. todo = {} /\ pos' = pos
    BY <1>3 DEF SquareOffDone, EndSquareOff, book
<1>5. Held = {}
    BY <1>4, Basics DEF SquareOffClosesAll
<1> QED BY <1>4, <1>5 DEF Held

\* What an execution does to the time of a symbol's last entry.
LEMMA LastEntry ==
    ASSUME NEW f \in Seq(Execution), NEW x \in Execution, NEW d, NEW e,
           d.fills = f, e.fills = Append(f, x), NEW s \in Symbols
    PROVE  /\ EntryAt(e, s) = IF x.symbol = s /\ x.opening THEN x.at ELSE EntryAt(d, s)
           /\ ~(x.symbol = s /\ x.opening) => EntryRow(e, s) = EntryRow(d, s)
<1> DEFINE g == Append(f, x)
           T == EntriesOf(d, s)
           U == EntriesOf(e, s)
           l == Len(f) + 1
<1>1. /\ Len(f) \in Nat /\ DOMAIN f = 1 .. Len(f) /\ DOMAIN g = 1 .. l
      /\ g[l] = x /\ \A k \in DOMAIN f : g[k] = f[k]
    OBVIOUS
<1>2. /\ T = {k \in DOMAIN f : f[k].symbol = s /\ f[k].opening}
      /\ U = {k \in DOMAIN g : g[k].symbol = s /\ g[k].opening}
    BY DEF EntriesOf, FillsOf
<1> HIDE DEF T, U, g, l
<1>3. l \in Nat /\ l = Len(f) + 1 /\ l \notin DOMAIN f /\ DOMAIN g = DOMAIN f \cup {l}
    BY <1>1 DEF l
<1>4. e.fills = g
    BY DEF g
<1>5. CASE x.symbol = s /\ x.opening
    <2>1. l \in U /\ U \subseteq 1 .. l
        BY <1>1, <1>2, <1>3, <1>5
    <2>2. Max(U) = l
        <3>1. \A y \in U : l >= y
            BY <1>3, <2>1
        <3>2. U \subseteq Nat
            BY <1>3, <2>1
        <3>3. Max(U) \in U /\ \A y \in U : Max(U) >= y
            BY <2>1, <3>1, <3>2 DEF Max
        <3>4. l \in Nat /\ Max(U) \in Nat /\ l >= Max(U) /\ Max(U) >= l
            BY <1>3, <2>1, <3>1, <3>2, <3>3
        <3> QED BY <3>4
    <2> QED BY <1>1, <1>4, <1>5, <2>1, <2>2 DEF EntryAt, LastOf, U
<1>6. CASE ~(x.symbol = s /\ x.opening)
    <2>1. U = T
        BY <1>1, <1>2, <1>3, <1>6
    <2>0. EntryRow(e, s) = EntryRow(d, s)
        BY <2>1 DEF EntryRow, U, T
    <2>2. CASE T = {}
        BY <1>6, <2>0, <2>1, <2>2 DEF EntryAt, LastOf, U, T
    <2>3. CASE T # {}
        <3>1. T \subseteq DOMAIN f
            BY <1>2
        <3>2. Max(T) \in DOMAIN f
            BY <2>3, <3>1, LastRow
        <3>3. e.fills[Max(U)] = d.fills[Max(T)]
            BY <1>1, <1>4, <2>1, <3>2
        <3> QED BY <1>6, <2>0, <2>1, <2>3, <3>3 DEF EntryAt, LastOf, U, T
    <2> QED BY <2>2, <2>3
<1> QED BY <1>5, <1>6

\* With the same fills the entries are the same.
LEMMA SameEntries ==
    ASSUME NEW d, NEW e, d.fills = e.fills
    PROVE  \A s \in Symbols : EntryAt(d, s) = EntryAt(e, s) /\ EntryRow(d, s) = EntryRow(e, s)
BY DEF EntryAt, EntryRow, LastOf, EntriesOf, FillsOf

\* A step that executes no entry of a symbol leaves its last entry.
OtherRow(s) ==
    \/ fills' = fills
    \/ \E x \in Execution : ~(x.symbol = s /\ x.opening) /\ fills' = Append(fills, x)

LEMMA RowsKept ==
    ASSUME StateInv, NEW s \in Symbols, OtherRow(s)
    PROVE  EntryAt(Tables', s) = EntryAt(Tables, s) /\ EntryRow(Tables', s) = EntryRow(Tables, s)
<1>1. Tables.fills = fills /\ (Tables').fills = fills'
    BY DEF Tables
<1>2. fills \in Seq(Execution)
    BY Basics DEF TypeOK, BooksTyped
<1> DEFINE Same(d, e) == EntryAt(e, s) = EntryAt(d, s) /\ EntryRow(e, s) = EntryRow(d, s)
<1>3. CASE fills' = fills
    BY <1>1, <1>3, SameEntries
<1>4. ASSUME NEW x \in Execution, ~(x.symbol = s /\ x.opening), fills' = Append(fills, x)
      PROVE  Same(Tables, Tables')
    <2>1. \A d, e : d.fills = fills /\ e.fills = Append(fills, x) => Same(d, e)
        BY <1>2, <1>4, LastEntry
    <2> HIDE DEF Same
    <2> QED BY <1>1, <1>4, <2>1
<1> QED BY <1>3, <1>4 DEF OtherRow

\* History only adds to what it knows, and with restarts alone.
LEMMA LostKept ==
    ASSUME StateInv, [SNext]_svars, ~Restart
    PROVE  lost' = lost
BY LedgerEffect DEF Logged, WriteRow, CommitStep, past

\* The parts of a covered state are kept by each effect.
LEMMA CoveredKept ==
    ASSUME StateInv, [SNext]_svars, ~Restart, StateInv', Covered
    PROVE  Covered'
<1> SUFFICES ASSUME phase' # "square", NEW s \in Symbols, s \in Held'
             PROVE  (TimeDue(s) \/ ExitFor(s) \/ Known(Tables, s))'
    BY DEF Covered, Held
<1> DEFINE Safe == TimeDue(s) \/ ExitFor(s) \/ Known(Tables, s)
<1>1. phase # "square"
    BY SquareEnds
<1>2. Effect /\ (Entering \/ (NoEntryDone /\ entered' = entered))
    BY Effects
<1>3. ASSUME s \in Held, entered'[s] = entered[s], OtherRow(s),
             \A i \in Open : ~orders[i].opening /\ orders[i].symbol = s => i \in Open'
      PROVE  Safe'
    <2>1. CASE TimeDue(s)
        BY <1>3, <2>1, StaysDue
    <2>2. ASSUME NEW i \in Open, ~orders[i].opening, orders[i].symbol = s
          PROVE  ExitFor(s)'
        <3>1. i \in Open'
            BY <1>3, <2>2
        <3> QED BY <1>2, <2>2, <3>1, StillExit
    <2>3. CASE Known(Tables, s)
        BY <1>3, <2>3, RowsKept, LostKept DEF Known
    <2> QED BY <1>1, <1>3, <2>1, <2>2, <2>3 DEF Covered, ExitFor
<1>4. ASSUME NEW i \in DOMAIN orders, TickEntry(i), EntryDone(orders[i].symbol, i)
      PROVE  Safe'
    <2>1. i \in Pending /\ orders[i].bracket # None
        BY <1>4, Basics DEF EntryDone, Pending, EntriesAlone
    <2>2. CASE s = orders[i].symbol
        <3>1. PICK j \in DOMAIN orders' \ DOMAIN orders : TRUE
            BY <1>4, <2>1 DEF EntryDone
        <3>2. j \in Open' /\ orders'[j].symbol = s /\ ~orders'[j].opening
            BY <1>4, <2>2, <3>1 DEF EntryDone
        <3> QED BY <3>2 DEF ExitFor
    <2>3. CASE s # orders[i].symbol
        <3>1. s \in Held
            BY <1>4, <2>3 DEF EntryDone, MovedTo, Held
        <3>2. entered'[s] = entered[s]
            <4>1. entered' = [entered EXCEPT ![orders[i].symbol] = clock]
                BY <1>4 DEF TickEntry
            <4>2. DOMAIN entered = Symbols
                BY Basics DEF SessionTypeOK
            <4> QED BY <2>3, <4>1, <4>2
        <3>3. \A j \in Open : ~orders[j].opening => j \in Open'
            BY <1>4, <2>1 DEF EntryDone, Pending
        <3>4. OtherRow(s)
            BY <1>4, <2>3 DEF EntryDone, RowAdded, OtherRow
        <3> QED BY <1>3, <3>1, <3>2, <3>3, <3>4
    <2> QED BY <2>2, <2>3
<1>5. ASSUME NoEntryDone, entered' = entered
      PROVE  Safe'
    <2>1. CASE Calm
        <3>1. s \in Held
            BY <2>1 DEF Calm, Held
        <3>2. \A i \in Open : ~orders[i].opening => i \in Open'
            BY <2>1 DEF Calm
        <3>3. OtherRow(s)
            BY <2>1 DEF Calm, OtherRow
        <3> QED BY <1>3, <1>5, <3>1, <3>2, <3>3
    <2>2. ASSUME NEW r \in Symbols, NEW k \in Nat, EntryPlaced(r, k)
          PROVE  Safe'
        <3>1. s \in Held /\ Open \subseteq Open' /\ OtherRow(s)
            BY <2>2 DEF EntryPlaced, Held, OtherRow
        <3> QED BY <1>3, <1>5, <3>1
    <2>3. ASSUME NEW r \in Symbols, NEW k \in Nat, ExitPlaced(r, k)
          PROVE  Safe'
        <3>1. s \in Held
            BY <2>3 DEF ExitPlaced, Held
        <3>2. CASE s = r
            <4>1. k \in Open' /\ orders'[k].symbol = s /\ ~orders'[k].opening
                BY <2>3, <3>2 DEF ExitPlaced
            <4> QED BY <4>1 DEF ExitFor
        <3>3. CASE s # r
            <4>1. OtherRow(s) /\ \A i \in Open : orders[i].symbol = s => i \in Open'
                BY <2>3, <3>3 DEF ExitPlaced, OpenFor, OtherRow
            <4> QED BY <1>3, <1>5, <3>1, <4>1
        <3> QED BY <3>2, <3>3
    <2>4. ASSUME NEW r \in Symbols, NEW k \in Nat, ExitDone(r, k)
          PROVE  Safe'
        <3>1. s # r /\ s \in Held
            BY <2>4 DEF ExitDone, MovedTo, Held
        <3>2. \A i \in Open : orders[i].symbol = s => i \in Open'
            BY <2>4, <3>1 DEF ExitDone, OpenFor
        <3>3. OtherRow(s)
            BY <2>4 DEF ExitDone, RowAdded, OtherRow
        <3> QED BY <1>3, <1>5, <3>1, <3>2, <3>3
    <2> QED BY <1>5, <2>1, <2>2, <2>3, <2>4 DEF NoEntryDone
<1> QED BY <1>2, <1>4, <1>5 DEF Entering

LEMMA MarketKept ==
    ASSUME StallAfter = None, StateInv, [SNext]_svars, ~Restart, StateInv', MarketDue
    PROVE  MarketDue'
<1> SUFFICES ASSUME NEW i \in Open', ~orders'[i].opening, orders'[i].oco = 0,
                    NEW s, s = orders'[i].symbol
             PROVE  TimeDue(s)'
    BY DEF MarketDue
<1>1. Effect /\ (Entering \/ (NoEntryDone /\ entered' = entered))
    BY Effects
<1>2. s \in Symbols /\ s \in Held'
    <2>1. NoOrphanExit' /\ i \in DOMAIN orders' /\ \A j \in DOMAIN orders' : orders'[j] \in Order
        BY DEF StateInv, IInv, TypeOK, OrdersTyped, Open
    <2>2. Reduces(pos'[s], orders'[i].side) /\ s \in Symbols
        BY <2>1 DEF NoOrphanExit, Order
    <2> QED BY <2>2 DEF Reduces, Held
<1>3. ASSUME i \in DOMAIN orders
      PROVE  TimeDue(s)'
    <2>1. i \in Open /\ orders[i].symbol = s /\ ~orders[i].opening /\ orders[i].oco = 0
        BY <1>1, <1>3, EffectGrows
    <2>2. TimeDue(s)
        BY <2>1 DEF MarketDue
    <2>3. entered'[s] = entered[s]
        <3>1. ASSUME NEW k \in DOMAIN orders, TickEntry(k), EntryDone(orders[k].symbol, k)
              PROVE  entered'[s] = entered[s]
            <4>1. orders[k].symbol \notin Held
                BY <3>1, Basics DEF EntryDone, Pending, EntriesAlone
            <4>2. s \in Held
                BY <2>2 DEF TimeDue, HeldFor
            <4>3. entered' = [entered EXCEPT ![orders[k].symbol] = clock]
                BY <3>1 DEF TickEntry
            <4>4. DOMAIN entered = Symbols
                BY Basics DEF SessionTypeOK
            <4> QED BY <1>2, <4>1, <4>2, <4>3, <4>4
        <3> QED BY <1>1, <3>1 DEF Entering
    <2> QED BY <1>2, <2>2, <2>3, StaysDue
<1>4. ASSUME i \notin DOMAIN orders
      PROVE  TimeDue(s)'
    <2>0. i \in DOMAIN orders' /\ orders'[i].status = "OPEN"
        BY DEF Open
    <2>1. ~Calm
        BY <1>4, <2>0 DEF Calm
    <2>2. ASSUME NEW r \in Symbols, NEW k \in Nat
          PROVE  ~EntryPlaced(r, k) /\ ~ExitDone(r, k) /\ ~EntryDone(r, k)
        <3>1. ~EntryPlaced(r, k)
            BY <1>4, <2>0 DEF EntryPlaced
        <3>2. ~ExitDone(r, k)
            BY <1>4, <2>0 DEF ExitDone
        <3>3. ~EntryDone(r, k)
            <4>1. k \in DOMAIN orders => k # 0
                BY Basics
            <4> QED BY <1>4, <2>0, <4>1 DEF EntryDone, Open
        <3> QED BY <3>1, <3>2, <3>3
    <2>3. PICK r \in Symbols : \E k \in Nat : ExitPlaced(r, k)
        BY <1>1, <2>1, <2>2 DEF Effect, NoEntryDone
    <2>4. TimeDue(r) /\ s = r
        <3>1. PICK k \in Nat : ExitPlaced(r, k)
            BY <2>3
        <3>2. TimeDue(r)
            BY <3>1 DEF ExitPlaced, StallDue, HeldFor
        <3> QED BY <1>4, <2>0, <3>1, <3>2 DEF ExitPlaced
    <2>5. entered' = entered
        <3>1. ASSUME Entering PROVE FALSE
            <4>1. PICK k \in DOMAIN orders : EntryDone(orders[k].symbol, k)
                BY <3>1 DEF Entering
            <4>2. orders[k].symbol \in Symbols /\ k \in Nat
                BY <4>1, Basics DEF EntryDone
            <4> QED BY <2>2, <4>1, <4>2
        <3> QED BY <1>1, <3>1
    <2> QED BY <1>2, <2>4, <2>5, StaysDue
<1> QED BY <1>3, <1>4

LEMMA TimesKept ==
    ASSUME StateInv, [SNext]_svars, ~Restart, EnteredInv
    PROVE  EnteredInv'
<1>1. Effect /\ (Entering \/ (NoEntryDone /\ entered' = entered))
    BY Effects
<1>3. fills \in Seq(Execution) /\ entered \in [Symbols -> Times]
    BY Basics, SessionParts DEF TypeOK, BooksTyped, TypedState
<1> SUFFICES ASSUME NEW s \in Symbols, s \in Held'
             PROVE  entered'[s] = EntryAt(Tables', s)
    BY DEF EnteredInv, Held
<1>4. ASSUME s \in Held, entered'[s] = entered[s], OtherRow(s)
      PROVE  entered'[s] = EntryAt(Tables', s)
    BY <1>4, RowsKept DEF EnteredInv
<1>6. ASSUME NEW i \in DOMAIN orders, TickEntry(i), EntryDone(orders[i].symbol, i)
      PROVE  entered'[s] = EntryAt(Tables', s)
    <2>1. PICK x \in Execution : /\ x.symbol = orders[i].symbol /\ x.opening = TRUE
                                 /\ x.at = clock /\ fills' = Append(fills, x)
        BY <1>6 DEF EntryDone, RowAdded
    <2>2. entered' = [entered EXCEPT ![orders[i].symbol] = clock]
        BY <1>6 DEF TickEntry
    <2>3. CASE s = orders[i].symbol
        <3>1. entered'[s] = clock
            BY <1>3, <2>2, <2>3
        <3>2. EntryAt(Tables', s) = clock
            <4> DEFINE At(d, e) == EntryAt(e, s) = IF x.symbol = s /\ x.opening THEN x.at
                                                   ELSE EntryAt(d, s)
            <4>1. \A d, e : d.fills = fills /\ e.fills = Append(fills, x) => At(d, e)
                BY <1>3, LastEntry
            <4>2. Tables.fills = fills /\ (Tables').fills = Append(fills, x)
                BY <2>1 DEF Tables
            <4> HIDE DEF At
            <4>3. At(Tables, Tables')
                BY <4>1, <4>2
            <4> QED BY <2>1, <2>3, <4>3 DEF At
        <3> QED BY <3>1, <3>2
    <2>4. CASE s # orders[i].symbol
        <3>1. entered'[s] = entered[s]
            BY <1>3, <2>2, <2>4
        <3>2. OtherRow(s)
            BY <2>1, <2>4 DEF OtherRow
        <3>3. s \in Held
            BY <1>6, <2>4 DEF EntryDone, MovedTo, Held
        <3> QED BY <1>4, <3>1, <3>2, <3>3
    <2> QED BY <2>3, <2>4
<1>7. ASSUME NoEntryDone, entered' = entered
      PROVE  entered'[s] = EntryAt(Tables', s)
    <2>1. CASE Calm
        BY <1>4, <1>7, <2>1 DEF Calm, Held, OtherRow
    <2>2. ASSUME NEW r \in Symbols, NEW k \in Nat, EntryPlaced(r, k) \/ ExitPlaced(r, k)
          PROVE  entered'[s] = EntryAt(Tables', s)
        <3>1. pos' = pos /\ OtherRow(s)
            BY <2>2 DEF EntryPlaced, ExitPlaced, OtherRow
        <3> QED BY <1>4, <1>7, <3>1 DEF Held
    <2>3. ASSUME NEW r \in Symbols, NEW k \in Nat, ExitDone(r, k)
          PROVE  entered'[s] = EntryAt(Tables', s)
        <3>1. OtherRow(s)
            BY <2>3 DEF ExitDone, RowAdded, OtherRow
        <3>2. s \in Held
            BY <2>3 DEF ExitDone, MovedTo, Held
        <3> QED BY <1>4, <1>7, <3>1, <3>2
    <2> QED BY <1>7, <2>1, <2>2, <2>3 DEF NoEntryDone
<1> QED BY <1>1, <1>6, <1>7 DEF Entering

\* What is covered on the tables stays so as time passes.
LEMMA LaterDue ==
    ASSUME NEW d, TypedTables(d), NEW m \in Nat, NEW k \in Nat, k >= m, NEW l
    PROVE  (CoveredOn(d, m, l) => CoveredOn(d, k, l)) /\ (DroppedDue(d, m) => DroppedDue(d, k))
<1>1. ASSUME NEW s \in Symbols, DueOn(d, s, m)
      PROVE  DueOn(d, s, k)
    <2>1. EntryAt(d, s) \in Nat \cup {None}
        <3>1. d.fills \in Seq(Execution) /\ \A j \in DOMAIN d.fills : d.fills[j].at \in Times
            BY DEF TypedTables
        <3>2. EntriesOf(d, s) \subseteq DOMAIN d.fills
            BY DEF EntriesOf, FillsOf
        <3>3. EntriesOf(d, s) # {} => Max(EntriesOf(d, s)) \in DOMAIN d.fills
            BY <3>1, <3>2, LastRow
        <3> QED BY <3>1, <3>3, Constants DEF EntryAt, LastOf
    <2>2. MaxHold \in Nat /\ EntryAt(d, s) \in Nat /\ m - EntryAt(d, s) >= MaxHold
        BY <1>1, <2>1, HoldAssumption DEF DueOn
    <2> HIDE DEF EntryAt
    <2>3. k - EntryAt(d, s) >= MaxHold
        BY <2>2
    <2> QED BY <1>1, <2>3 DEF DueOn
<1>2. HeldOn(d) \subseteq Symbols
    BY DEF HeldOn
<1>3. ASSUME CoveredOn(d, m, l) PROVE CoveredOn(d, k, l)
    BY <1>1, <1>2, <1>3 DEF CoveredOn
<1>4. ASSUME DroppedDue(d, m) PROVE DroppedDue(d, k)
    BY <1>1, <1>2, <1>4 DEF DroppedDue
<1> QED BY <1>3, <1>4

\* A step that is not a restart keeps the tables covered, those of the connection and
\* those on the disk.
LEMMA CoverStays ==
    ASSUME SInv, CoverInv, [SNext]_svars, ~Restart, SInv'
    PROVE  CoverInv'
<1>1. /\ StateInv /\ LedgerInv /\ CutInv /\ TypedTables(db) /\ TypedTables(disk)
      /\ StateInv' /\ LedgerInv' /\ CutInv'
    BY DEF SInv, Usable
<1>2. Covered' /\ EnteredInv' /\ (StallAfter = None => MarketDue') /\ lost' = lost
    BY <1>1, CoveredKept, MarketKept, TimesKept, LostKept DEF CoverInv
<1>3. minute \in Nat /\ minute' \in Nat /\ minute' >= minute
    BY <1>1, MinutesPass
<1>4. /\ CoveredOn(db, minute, lost) => CoveredOn(db, minute', lost)
      /\ CoveredOn(disk, minute, lost) => CoveredOn(disk, minute', lost)
      /\ DroppedDue(db, minute) => DroppedDue(db, minute')
      /\ DroppedDue(disk, minute) => DroppedDue(disk, minute')
    BY <1>1, <1>3, LaterDue
<1>5. /\ "disk" \notin cut => CoveredOn(disk, minute', lost)
      /\ "db" \notin cut /\ phase # "square" => CoveredOn(db, minute', lost)
      /\ StallAfter = None => /\ "disk" \notin cut => DroppedDue(disk, minute')
                              /\ "db" \notin cut => DroppedDue(db, minute')
      /\ lost # {} => "session" \in cut \/ StallAfter # None
    BY <1>4 DEF CoverInv
<1>6. CASE Logged
    <2>1. db' = db /\ disk' = disk /\ cut' = cut /\ queue = <<>>
        BY <1>6 DEF Logged, past
    <2>2. ASSUME phase = "square", phase' # "square"
          PROVE  CoveredOn(db, minute', lost)
        <3>1. Held = {}
            BY <1>1, <2>2, SquareEnds
        <3>2. db = Tables /\ Replay(fills).pos = pos
            BY <1>1, <2>1, NothingQueued, BookIsSound
        <3>3. HeldOn(db) = {}
            BY <3>1, <3>2 DEF HeldOn, Held, Tables
        <3> QED BY <3>3 DEF CoveredOn
    <2> QED BY <1>2, <1>5, <2>1, <2>2 DEF CoverInv
<1>7. CASE WriteRow
    <2>1. /\ disk' = disk /\ phase' = phase
          /\ cut' = IF queue' = <<>> THEN cut \ {"db"} ELSE cut \cup {"db"}
        BY <1>7 DEF WriteRow, vars, call
    <2>2. ("disk" \in cut' <=> "disk" \in cut) /\ ("session" \in cut' <=> "session" \in cut)
        BY <2>1
    <2>3. "db" \notin cut' => queue' = <<>>
        BY <2>1
    <2>4. (queue = <<>>)' => (db = Tables)'
        BY <1>1, NothingQueued, PTL
    <2>5. (phase # "square")' => CoveredOn(Tables, minute, lost)'
        BY <1>1, <1>2, CoveredTables, PTL
    <2>6. MarketDue' => DroppedDue(Tables, minute)'
        BY <1>1, <1>2, DroppedTables, PTL
    <2> QED BY <1>2, <1>5, <2>1, <2>2, <2>3, <2>4, <2>5, <2>6 DEF CoverInv
<1>8. CASE CommitStep
    <2>1. phase' = phase /\ db' = db /\ queue' = queue
        BY <1>8 DEF CommitStep
    <2>2. CASE disk' = disk /\ cut' = cut
        BY <1>2, <1>5, <2>1, <2>2 DEF CoverInv
    <2>3. CASE /\ disk' = db /\ cut' \ {"disk"} = cut \ {"disk"}
               /\ "disk" \in cut' \/ (phase # "square" /\ (queue = <<>> \/ "db" \notin cut))
        <3>1. ("session" \in cut' <=> "session" \in cut) /\ ("db" \in cut' <=> "db" \in cut)
            BY <2>3
        <3>2. "disk" \notin cut' => phase # "square" /\ "db" \notin cut
            BY <1>1, <2>3 DEF CutInv
        <3> QED BY <1>2, <1>5, <2>1, <2>3, <3>1, <3>2 DEF CoverInv
    <2> QED BY <1>8, <2>2, <2>3 DEF CommitStep
<1> QED BY <1>1, <1>6, <1>7, <1>8, LedgerEffect

\* A restart finds its positions with an exit, due, or lost; and with time exits only
\* none is lost but after a commit inside a call.
LEMMA RestartCovered ==
    ASSUME SInv, CoverInv, Restart, SInv'
    PROVE  CoverInv'
<1> DEFINE d == disk
           held == HeldOn(d)
           gone == {h \in held : /\ OpenFor(h)' = {} /\ ~TimeDue(h)'
                                 /\ "disk" \in cut \/ ExitDropped(d, h)}
<1>1. /\ orders' = Resumed(d, held) /\ pos' = Replay(d.fills).pos /\ fills' = d.fills
      /\ phase' = "idle"
      /\ entered' = [s \in Symbols |-> IF s \in held THEN EntryAt(d, s) ELSE None]
      /\ cut' = IF cut \cap {"disk", "session"} = {} THEN {} ELSE {"session"}
      /\ lost' = lost \cup {EntryRow(d, s) : s \in gone}
    BY DEF Restart, EntryAt, HeldOn
<1>2. StateInv /\ TypedTables(d) /\ StateInv'
    BY DEF SInv, Usable
<1> DEFINE r == Resumed(d, held)
<1>3. /\ DOMAIN r = DOMAIN d.orders
      /\ \A i \in DOMAIN r :
            /\ r[i].symbol = d.orders[i].symbol /\ r[i].oco = d.orders[i].oco
            /\ r[i].opening = d.orders[i].opening
            /\ r[i].status = "OPEN" <=> /\ d.orders[i].status = "OPEN" /\ d.orders[i].oco # 0
                                        /\ d.orders[i].symbol \in held
    BY <1>2, ResumedOrders
<1> HIDE DEF gone, r
<1>4. Held' = held
    BY <1>1 DEF Held, HeldOn
<1>5. minute' \in Nat /\ minute \in Nat /\ minute' >= minute /\ MaxHold \in Nat \cup {None}
    BY <1>2, MinutesPass DEF SNext
<1>6. \A s \in Symbols : entered'[s] \in Nat \cup {None}
    <2>1. SessionTypeOK'
        BY <1>2 DEF StateInv
    <2>2. entered' \in [Symbols -> Times]
        BY <2>1 DEF SessionTypeOK, Times
    <2> QED BY <2>2, Constants
<1>7. ASSUME NEW s \in held, DueOn(d, s, minute)
      PROVE  TimeDue(s)'
    <2>1. MaxHold # None /\ EntryAt(d, s) # None /\ minute - EntryAt(d, s) >= MaxHold
        BY <1>7 DEF DueOn
    <2>2. s \in Symbols
        BY DEF HeldOn
    <2>3. entered'[s] = EntryAt(d, s) /\ s \in Held'
        BY <1>1, <1>4, <2>2
    <2>4. minute' - entered'[s] >= MaxHold
        BY <1>5, <1>6, <2>1, <2>2, <2>3
    <2> QED BY <2>1, <2>3, <2>4 DEF TimeDue, HeldFor
<1>8. \A s \in Symbols : ~ExitFor(s)' => OpenFor(s)' = {}
    <2>1. \A i \in Open' : orders'[i].oco # 0
        BY <1>1, <1>3 DEF Open, r
    <2>2. \A i \in Open' : ~orders'[i].opening
        BY <1>2, <2>1 DEF StateInv, IInv, OrdersWellFormed, Open
    <2> QED BY <2>2 DEF ExitFor, OpenFor
<1>9. \A s \in Symbols : EntryAt(Tables', s) = EntryAt(d, s) /\ EntryRow(Tables', s) = EntryRow(d, s)
    <2>1. (Tables').fills = d.fills
        BY <1>1 DEF Tables
    <2> QED BY <2>1, SameEntries
<1>10. Covered'
    <2> SUFFICES ASSUME NEW s \in held, ~TimeDue(s)', ~ExitFor(s)'
                 PROVE  EntryRow(d, s) \in lost'
        BY <1>4, <1>9 DEF Covered, Known, HeldOn
    <2>1. OpenFor(s)' = {}
        BY <1>8 DEF HeldOn
    <2>2. CASE "disk" \in cut \/ ExitDropped(d, s)
        BY <1>1, <2>1, <2>2 DEF gone
    <2>3. CASE "disk" \notin cut /\ ~ExitDropped(d, s)
        <3>1. CoveredOn(d, minute, lost) /\ ~DueOn(d, s, minute)
            BY <1>7, <2>3 DEF CoverInv
        <3>2. ASSUME NEW i \in DOMAIN d.orders, ExitOpen(d.orders, i), d.orders[i].oco # 0,
                     d.orders[i].symbol = s
              PROVE  FALSE
            <4>1. i \in DOMAIN r /\ r[i].status = "OPEN" /\ ~r[i].opening /\ r[i].symbol = s
                BY <1>3, <3>2 DEF ExitOpen
            <4>2. i \in Open' /\ ~orders'[i].opening /\ orders'[i].symbol = s
                BY <1>1, <4>1 DEF Open, r
            <4> QED BY <4>2 DEF ExitFor
        <3> QED BY <1>1, <2>3, <3>1, <3>2 DEF CoveredOn
    <2> QED BY <2>2, <2>3
<1>11. MarketDue'
    BY <1>1, <1>3 DEF MarketDue, Open, r
<1>12. EnteredInv'
    BY <1>1, <1>4, <1>9 DEF EnteredInv, HeldOn
<1>13. CoveredOn(db, minute, lost)' /\ CoveredOn(disk, minute, lost)'
       /\ DroppedDue(db, minute)' /\ DroppedDue(disk, minute)'
    <2>1. db' = Tables' /\ disk' = Tables'
        BY RestartIsFresh
    <2>2. (phase # "square")'
        BY <1>1
    <2>3. CoveredOn(Tables, minute, lost)' /\ DroppedDue(Tables, minute)'
        BY <1>2, <1>10, <1>11, <1>12, <2>2, CoveredTables, DroppedTables, PTL
    <2> QED BY <2>1, <2>3
<1>14. ASSUME StallAfter = None, lost' # {}
       PROVE  "session" \in cut'
    <2>1. CASE lost # {} \/ "disk" \in cut
        BY <1>1, <1>14, <2>1 DEF CoverInv
    <2>2. CASE lost = {} /\ "disk" \notin cut
        <3>1. PICK s \in held : ~TimeDue(s)' /\ ExitDropped(d, s)
            BY <1>1, <1>14, <2>2 DEF gone
        <3>2. DueOn(d, s, minute)
            BY <1>14, <2>2, <3>1 DEF CoverInv, DroppedDue
        <3> QED BY <1>7, <3>1, <3>2
    <2> QED BY <2>1, <2>2
<1> QED BY <1>10, <1>11, <1>12, <1>13, <1>14 DEF CoverInv

LEMMA CoverInit ==
    ASSUME SInit
    PROVE  CoverInv
<1>1. StateInv /\ db = Tables /\ disk = Tables /\ phase = "idle" /\ lost = {}
    BY SessionInit DEF SInv, SInit, Init, Tables
<1>2. Held = {} /\ Open = {}
    BY DEF SInit, Init, Held, Open
<1>3. Covered /\ MarketDue /\ EnteredInv
    BY <1>2 DEF Covered, MarketDue, EnteredInv
<1>4. CoveredOn(Tables, minute, lost) /\ DroppedDue(Tables, minute)
    BY <1>1, <1>3, CoveredTables, DroppedTables
<1> QED BY <1>1, <1>3, <1>4 DEF CoverInv

LEMMA CoveredStates ==
    ASSUME SInv, CoverInv
    PROVE  OrphansAreKnown
<1>1. ASSUME Settled, NEW s \in Held
      PROVE  \/ s \in Overdue \/ \E i \in OpenFor(s) : ~orders[i].opening
             \/ EntryRow(Tables, s) \in lost
    <2>1. s \in Symbols /\ (TimeDue(s) \/ ExitFor(s) \/ Known(Tables, s))
        BY <1>1 DEF CoverInv, Covered, Settled, Held
    <2>2. ExitFor(s) => \E i \in OpenFor(s) : ~orders[i].opening
        BY DEF ExitFor, OpenFor
    <2>3. ExitPending(s) => \E i \in OpenFor(s) : ~orders[i].opening
        BY DEF ExitPending
    <2> QED BY <2>1, <2>2, <2>3 DEF Overdue, Known
<1> QED BY <1>1 DEF OrphansAreKnown, CoverInv

\* Between two steps a held position has an open exit, or is so old that the next
\* minute's step exits it, or is one a restart found without: on a disk with part of a
\* call, or with a strategy's own exit pending.  With time exits only the first alone
\* can be the cause (paper_live.py:15-19, 241, common.py:265, broker.py:404-423).
THEOREM PositionsKeepTheirExits == SSpec => []OrphansAreKnown
<1>1. SInit => SInv /\ CoverInv
    BY SessionInit, CoverInit
<1>2. (SInv /\ CoverInv) /\ [SNext]_svars => (SInv /\ CoverInv)'
    BY SessionStep, CoverStays, RestartCovered
<1>3. SInv /\ CoverInv => OrphansAreKnown
    BY CoveredStates
<1> QED BY <1>1, <1>2, <1>3, PTL DEF SSpec
=============================================================================
