---------------------------- MODULE PaperSession ----------------------------
(***************************************************************************)
(* One strategy's paper-trading session in the live worker: the simulated  *)
(* broker driven by the tick pump and the minute step (app/paper_live.py,  *)
(* paper/session.py), the strategy's entries, time exits and stall exits   *)
(* (paper/strategies/common.py), and the ledger every change is written to *)
(* (paper/ledger.py), from which a restarted worker resumes the day's run  *)
(* (paper/broker.py resume, strategy on_resume).                           *)
(*                                                                         *)
(* The session's lock makes the pump and the step exclude each other.  The *)
(* ledger is one SQLite connection: a row is written as soon as its order, *)
(* fill or trade changes, becomes durable with the next commit, and is     *)
(* lost by a crash before it.  The connection is shared by the strategies, *)
(* each under its own lock, so another session may commit at any moment.   *)
(***************************************************************************)
EXTENDS SimBroker

CONSTANTS
    MaxHold,        \* max_hold_minutes; None: no time exit
    StallAfter,     \* stall_minutes; None: no stall exit
    EntryMinutes,   \* first_entry to last_entry
    TradesPerSymbol, TradesPerDay,  \* max_trades_per_symbol, max_trades_per_day
    SharedLedger,   \* another strategy's session uses the connection
    MaxRestarts     \* starts of the worker after the first

ASSUME HoldAssumption == MaxHold \in Nat \cup {None} /\ StallAfter \in Nat \cup {None}
ASSUME SessionAssumption ==
    /\ EntryMinutes \subseteq Nat /\ TradesPerSymbol \in Nat /\ TradesPerDay \in Nat
    /\ SharedLedger \in BOOLEAN /\ MaxRestarts \in Nat
    /\ MaxTime < DayLength          \* one day
    /\ SquareOff <= MaxTime         \* which has a square-off
    /\ \A p \in Prices : TickBar(p) \in Bars

VARIABLES
    minute,     \* the minute of the day
    stepped,    \* the last minute whose step has begun
    stage,      \* where the session is between two broker calls
    asOf,       \* ctx.as_of, the minute of the session's last step, or None
    dayOver,    \* TradingSession._squared
    asked,      \* entries on_bars has placed in this minute: symbol and side
    entered,    \* DirectionalStrategy._entered_at
    taken,      \* DirectionalStrategy._trades
    ltp,        \* LivePaper._last_ltp
    queue,      \* rows of the last broker call still to be written
    db,         \* the tables as the connection sees them
    disk,       \* the tables as of the last commit
    restarts,
    \* History variables: no action reads them, the properties do.
    cut,        \* what rests on part of the rows of a call: "db", "disk", "session"
    lost        \* entries, as rows of fills, a restart found held without an exit

session == <<minute, stepped, stage, asOf, dayOver, asked>>
strategy == <<entered, taken>>
ledger == <<queue, db, disk>>
past == <<restarts, cut, lost>>
Tables == [orders |-> orders, fills |-> fills, trades |-> trades]
svars == <<vars, session, strategy, ltp, ledger, past>>

Stage == {"idle", "bars", "exits", "entries", "closing", "commit",
          "ending", "end_commit", "stopped"}

------------------------------------------------------------------------------
(* The ledger: rows are written in the order of the calls, one at a time.  *)

Row(table, id, row) == [table |-> table, id |-> id, row |-> row]

Write(tables, r) ==
    CASE r.table = "orders" -> [tables EXCEPT !.orders = Put(@, r.id, r.row)]
      [] r.table = "fills" -> [tables EXCEPT !.fills = Append(@, r.row)]
      [] r.table = "trades" -> [tables EXCEPT !.trades = Append(@, r.row)]

\* The rows of one broker call: the executed order and its fill, then every
\* other order that changed, then the round trip that closed; orders by their ids.
Ranked(ids, k) == CHOOSE i \in ids : Cardinality({j \in ids : j < i}) = k - 1
Changed == {i \in DOMAIN orders' : i \in DOMAIN orders => orders'[i] # orders[i]}
RowsOfCall ==
    LET executed == {i \in Changed : orders'[i].status = "FILLED"}
        rows(ids) == [k \in 1 .. Cardinality(ids) |->
                         Row("orders", Ranked(ids, k), orders'[Ranked(ids, k)])]
    IN  rows(executed)
        \o (IF fills' = fills THEN <<>> ELSE <<Row("fills", 0, Last(fills'))>>)
        \o rows(Changed \ executed)
        \o (IF trades' = trades THEN <<>> ELSE <<Row("trades", 0, Last(trades'))>>)

\* A broker call of the session: the rows of the one before are written.
Logged == queue = <<>> /\ queue' = RowsOfCall /\ UNCHANGED <<db, disk, past>>

MutWriteRow ==      \* every row is committed as it is written
    /\ queue # <<>>
    /\ db' = Write(db, Head(queue)) /\ disk' = db' /\ queue' = Tail(queue)
    /\ UNCHANGED <<vars, session, strategy, ltp, past>>
WriteRow ==
    /\ queue # <<>>
    /\ db' = Write(db, Head(queue)) /\ queue' = Tail(queue)
    /\ cut' = IF queue' = <<>> THEN cut \ {"db"} ELSE cut \cup {"db"}
    /\ UNCHANGED <<vars, session, strategy, ltp, disk, restarts, lost>>

\* ledger.commit of another strategy's session, at any point of this one.  The whole
\* of a square-off counts as one call.
ForeignCommit ==
    /\ SharedLedger /\ stage # "stopped" /\ disk # db
    /\ disk' = db
    /\ cut' = IF "db" \in cut \/ phase = "square" THEN cut \cup {"disk"} ELSE cut \ {"disk"}
    /\ UNCHANGED <<vars, session, strategy, ltp, queue, db, restarts, lost>>

------------------------------------------------------------------------------
(* The tick pump: a changed last price is offered to the broker.           *)

\* A time stamp before the clock leaves the clock alone.
Stamp(at) == IF clock = None THEN at ELSE Higher(at, clock)

PumpTick(s, p) ==
    /\ stage = "idle" /\ ltp[s] # p
    /\ BeginTick(s, TickBar(p), Stamp(minute))
    /\ Logged
    /\ ltp' = [ltp EXCEPT ![s] = p]
    /\ UNCHANGED <<session, strategy>>

\* on_fill hears of an entry when the call returns; nothing reads it before.
TickEntry(i) ==
    /\ EntryFills(i) /\ Logged
    /\ entered' = [entered EXCEPT ![orders[i].symbol] = clock]
    /\ UNCHANGED <<session, taken, ltp>>

TickOther ==
    /\ \/ \E i \in DOMAIN orders :
             VisitUntouched(i) \/ ExitTooLate(i) \/ EntryOpposed(i)
                 \/ EntryUnfunded(i) \/ ExitFills(i)
       \/ EndTick
    /\ Logged
    /\ UNCHANGED <<session, strategy, ltp>>

------------------------------------------------------------------------------
(* The minute step.                                                        *)

\* A step is done in its own minute (MaxTime bounds the day).
Elapse ==
    /\ stage = "idle" /\ phase = "idle" /\ stepped = minute /\ minute < MaxTime
    /\ minute' = minute + 1
    /\ UNCHANGED <<vars, stepped, stage, asOf, dayOver, asked, strategy, ltp, ledger, past>>

BeginStep ==
    /\ stage = "idle" /\ phase = "idle" /\ queue = <<>> /\ stepped # minute
    /\ stepped' = minute /\ asOf' = minute /\ stage' = "bars" /\ asked' = {}
    /\ UNCHANGED <<vars, minute, dayOver, strategy, ltp, ledger, past>>

\* A closed bar marks a symbol that has no live price yet.
MarkBar(s, p) ==
    /\ stage = "bars" /\ Mark(s, p) /\ Logged
    /\ UNCHANGED <<session, strategy, ltp>>

\* session.step after the bars: the strategy, the square-off, or nothing.
CallStrategy ==
    /\ stage = "bars" /\ minute < SquareOff
    /\ stage' = "exits"
    /\ UNCHANGED <<vars, minute, stepped, asOf, dayOver, asked, strategy, ltp, ledger, past>>
CloseDay ==
    /\ stage = "bars" /\ minute >= SquareOff /\ ~dayOver
    /\ BeginSquareOff(Stamp(minute)) /\ Logged
    /\ stage' = "closing"
    /\ UNCHANGED <<minute, stepped, asOf, dayOver, asked, strategy, ltp>>
SkipStrategy ==
    /\ stage = "bars" /\ minute >= SquareOff /\ dayOver
    /\ stage' = "commit"
    /\ UNCHANGED <<vars, minute, stepped, asOf, dayOver, asked, strategy, ltp, ledger, past>>

\* on_bars, _time_exits and _stall_exits: a MARKET exit without a parent is
\* one of theirs, and while it is open they leave the symbol alone.
ExitPending(s) ==
    \E i \in OpenFor(s) : orders[i].type = "MARKET" /\ ~orders[i].opening
HeldFor(s, m) == m # None /\ s \in Held /\ entered[s] # None /\ minute - entered[s] >= m
TimeDue(s) == HeldFor(s, MaxHold)
StallDue(s) == HeldFor(s, StallAfter) /\ \E i \in OpenFor(s) : orders[i].type = "STOP"

\* _exit: cancel what is open for the symbol, then sell or buy back all of it.
MutCancelled(s) == orders       \* leaves the bracket open
Cancelled(s) == [i \in DOMAIN orders |->
                    IF i \in OpenFor(s) THEN [orders[i] EXCEPT !.status = "CANCELLED"]
                                        ELSE orders[i]]
ExitPosition(s) ==
    LET side == IF pos[s].qty > 0 THEN "SELL" ELSE "BUY"
        o == NewOrder(s, side, Abs(pos[s].qty), "MARKET", 0, None)
    IN  /\ stage = "exits" /\ phase = "idle" /\ ~ExitPending(s)
        /\ orders' = Put(Cancelled(s), n + 1,
                         [o EXCEPT !.status = IF Accepted(o) THEN "OPEN" ELSE "REJECTED"])
        /\ n' = n + 1
        /\ UNCHANGED <<book, last, seq, time, call>>

Overdue == {s \in Symbols : TimeDue(s) /\ ~ExitPending(s)}

TimeExit(s) ==
    /\ s \in Overdue /\ ExitPosition(s) /\ Logged
    /\ UNCHANGED <<session, strategy, ltp>>

\* Whether the position has moved is in the bars: it may or may not have.
StallExit(s) ==
    /\ Overdue = {} /\ StallDue(s) /\ ExitPosition(s) /\ Logged
    /\ UNCHANGED <<session, strategy, ltp>>

EndExits ==
    /\ stage = "exits" /\ Overdue = {} /\ queue = <<>>
    /\ stage' = "entries"
    /\ UNCHANGED <<vars, minute, stepped, asOf, dayOver, asked, strategy, ltp, ledger, past>>

\* on_bars: which symbols signal is in the bars, and the market's bias is
\* the direction of all of a minute's entries.
Enter(s, side, q, b) ==
    /\ stage = "entries" /\ minute \in EntryMinutes
    /\ \A a \in asked : a.symbol # s /\ a.side = side
    /\ s \notin Held /\ OpenFor(s) = {} /\ b # None
    /\ taken[s] < TradesPerSymbol /\ SumFunction(taken) < TradesPerDay
    /\ PlaceOrder(s, side, q, "MARKET", 0, b) /\ Logged
    /\ asked' = asked \cup {[symbol |-> s, side |-> side]}
    /\ taken' = [taken EXCEPT ![s] = IF n' \in Open' THEN @ + 1 ELSE @]
    /\ UNCHANGED <<minute, stepped, stage, asOf, dayOver, entered, ltp>>

EndEntries ==
    /\ stage = "entries" /\ queue = <<>>
    /\ stage' = "commit"
    /\ UNCHANGED <<vars, minute, stepped, asOf, dayOver, asked, strategy, ltp, ledger, past>>

ClosingStep ==
    /\ stage \in {"closing", "ending"}
    /\ \E s \in Symbols : ClosePosition(s)
    /\ Logged
    /\ UNCHANGED <<session, strategy, ltp>>

SquareOffDone ==
    /\ stage \in {"closing", "ending"}
    /\ EndSquareOff /\ Logged
    /\ dayOver' = TRUE
    /\ stage' = IF stage = "closing" THEN "commit" ELSE "end_commit"
    /\ UNCHANGED <<minute, stepped, asOf, asked, strategy, ltp>>

\* _record_equity, and end_day's record.
Commit ==
    /\ stage \in {"commit", "end_commit"} /\ queue = <<>>
    /\ disk' = db /\ cut' = cut \ {"disk"}
    /\ stage' = IF stage = "commit" THEN "idle" ELSE "stopped"
    /\ UNCHANGED <<vars, minute, stepped, asOf, dayOver, asked, strategy, ltp, queue, db,
                   restarts, lost>>

------------------------------------------------------------------------------
(* The end of the worker and its restart.                                  *)

\* The worker's loop has ended, or was interrupted: end_day, at the last
\* step's minute, before any the square-off time.
EndTime == IF asOf = None THEN SquareOff ELSE asOf
MutToClose == Open # {}     \* a position without orders is overlooked
ToClose == Held # {} \/ Open # {}
Stop ==
    /\ stage = "idle" /\ phase = "idle" /\ queue = <<>>
    /\ IF ToClose
       THEN BeginSquareOff(Stamp(EndTime)) /\ Logged /\ stage' = "ending" /\ dayOver' = dayOver
       ELSE /\ stage' = "end_commit" /\ dayOver' = TRUE
            /\ UNCHANGED <<vars, ledger, past>>
    /\ UNCHANGED <<minute, stepped, asOf, asked, strategy, ltp>>

\* resume: the exits of held positions are re-armed, other orders cancelled.
MutResumed(d, held) ==      \* no order survives
    [i \in DOMAIN d.orders |-> IF d.orders[i].status # "OPEN" THEN d.orders[i]
                               ELSE [d.orders[i] EXCEPT !.status = "CANCELLED"]]
Resumed(d, held) ==
    [i \in DOMAIN d.orders |->
        LET o == d.orders[i]
        IN  IF o.status # "OPEN" THEN o
            ELSE IF o.oco # 0 /\ o.symbol \in held THEN [o EXCEPT !.active = 0]
            ELSE [o EXCEPT !.status = "CANCELLED"]]

FillsOf(d, s) == {k \in DOMAIN d.fills : d.fills[k].symbol = s}
EntriesOf(d, s) == {k \in FillsOf(d, s) : d.fills[k].opening}
LastOf(d, rows, field) == IF rows = {} THEN None ELSE d.fills[Max(rows)][field]

\* The row of the entry a held symbol was last entered with.
EntryRow(d, s) == Max(EntriesOf(d, s) \cup {0})

RoundTrips(d) == d.trades

\* on_resume counts the entries that were executed.
TakenOf(d) ==
    [s \in Symbols |-> Cardinality({i \in DOMAIN d.orders :
                           /\ d.orders[i].symbol = s /\ d.orders[i].opening
                           /\ d.orders[i].status = "FILLED"})]

\* An exit without a parent, a strategy's own, is not re-armed.
ExitDropped(d, s) ==
    \E i \in DOMAIN d.orders : LET o == d.orders[i]
                             IN  o.symbol = s /\ o.status = "OPEN" /\ ~o.opening /\ o.oco = 0

\* The worker starts again after a crash or a stop, in the same minute or a later
\* one: everything but the disk is new, and the first step is this minute's
\* (live_clock yields it at once, a second time if it was done before).
Restart ==
    LET d == disk
        b == Replay(d.fills)
        held == {s \in Symbols : b.pos[s].qty # 0}
    IN  /\ restarts < MaxRestarts /\ restarts' = restarts + 1
        /\ orders' = Resumed(d, held)
        /\ n' = Max(DOMAIN d.orders \cup {0})
        /\ pos' = b.pos /\ trade' = b.trade /\ cash' = b.cash
        /\ trades' = RoundTrips(d) /\ fills' = d.fills
        /\ last' = [s \in Symbols |-> LastOf(d, FillsOf(d, s), "price")]
        /\ clock' = LastOf(d, DOMAIN d.fills, "at")
        /\ seq' = 0 /\ squared' = FALSE
        /\ phase' = "idle" /\ event' = None /\ seen' = {} /\ todo' = {}
        /\ db' = [d EXCEPT !.orders = orders'] /\ disk' = db' /\ queue' = <<>>
        /\ stage' = "idle" /\ asOf' = None /\ dayOver' = FALSE /\ asked' = {}
        /\ entered' = [s \in Symbols |-> IF s \in held THEN LastOf(d, EntriesOf(d, s), "at")
                                                       ELSE None]
        /\ taken' = TakenOf(d)
        /\ ltp' = [s \in Symbols |-> None]
        /\ minute' \in minute .. MaxTime /\ stepped' = minute' - 1
        /\ cut' = IF cut \cap {"disk", "session"} = {} THEN {} ELSE {"session"}
        /\ lost' = lost \cup {EntryRow(d, s) : s \in {h \in held :
                        /\ OpenFor(h)' = {} /\ ~TimeDue(h)'
                        /\ "disk" \in cut \/ ExitDropped(d, h)}}

------------------------------------------------------------------------------

SInit ==
    /\ Init
    /\ minute = 0 /\ stepped = 0 /\ stage = "idle"
    /\ asOf = None /\ dayOver = FALSE /\ asked = {}
    /\ entered = [s \in Symbols |-> None] /\ taken = [s \in Symbols |-> 0]
    /\ ltp = [s \in Symbols |-> None]
    /\ queue = <<>> /\ restarts = 0 /\ cut = {} /\ lost = {}
    /\ db = Tables /\ disk = db

TickSteps ==
    \/ \E i \in DOMAIN orders : TickEntry(i)
    \/ TickOther
MinuteSteps ==
    \/ BeginStep \/ CallStrategy \/ CloseDay \/ SkipStrategy
    \/ \E s \in Symbols : TimeExit(s)
    \/ EndExits \/ EndEntries \/ ClosingStep \/ SquareOffDone \/ Commit
StrategySteps ==
    \/ \E s \in Symbols, p \in Prices : PumpTick(s, p) \/ MarkBar(s, p)
    \/ \E s \in Symbols : StallExit(s)
    \/ \E s \in Symbols, side \in Side, q \in Quantities, b \in Brackets : Enter(s, side, q, b)

SNext ==
    \/ TickSteps \/ MinuteSteps \/ StrategySteps \/ WriteRow
    \/ Elapse \/ ForeignCommit \/ Stop \/ Restart

SSpec == SInit /\ [][SNext]_svars

(* The worker's threads run until the session ends: a broker call in       *)
(* progress goes on, minutes pass, each gets its step, and at the close    *)
(* the loop ends.  Ticks, signals, crashes and restarts are not promised.  *)
EndOfDay == minute = MaxTime /\ stepped = minute /\ Stop
Fairness ==
    /\ WF_svars(TickSteps) /\ WF_svars(MinuteSteps) /\ WF_svars(WriteRow)
    /\ WF_svars(Elapse) /\ WF_svars(EndOfDay)
FairSpec == SSpec /\ Fairness

------------------------------------------------------------------------------
(* Properties.                                                             *)

Settled == stage = "idle" /\ phase = "idle" /\ queue = <<>>

\* The types of the session's own state, and the stages in which the broker
\* is closing positions.
SessionTypeOK ==
    /\ minute \in 0 .. MaxTime /\ stepped \in -1 .. minute /\ stage \in Stage
    /\ asOf \in 0 .. stepped \cup {None} /\ dayOver \in BOOLEAN
    /\ asked \subseteq [symbol : Symbols, side : Side]
    /\ entered \in [Symbols -> 0 .. MaxTime \cup {None}]
    /\ taken \in [Symbols -> Nat] /\ restarts \in 0 .. MaxRestarts
    /\ cut \subseteq {"db", "disk", "session"} /\ lost \subseteq Nat
    /\ ltp \in [Symbols -> Prices \cup {None}]
    /\ phase = "square" <=> stage \in {"closing", "ending"}
    /\ phase = "tick" => stage = "idle"

\* A crash never orphans a position (paper_live.py:15-19): whenever nothing
\* is in progress, a held position has an open order that exits it, or has
\* been held so long that the next minute's step exits it.
NeverOrphaned ==
    Settled => \A s \in Held : s \in Overdue \/ \E i \in OpenFor(s) : ~orders[i].opening

\* What is true of it: an orphan was made by a restart, which found part of a call on the
\* disk or a strategy's own exit pending there (common.py:265, broker.py:405); and with
\* time exits only, nothing but another session's commit inside a call can be the cause.
OrphansAreKnown ==
    /\ Settled => \A s \in Held : \/ s \in Overdue \/ \E i \in OpenFor(s) : ~orders[i].opening
                                \/ EntryRow(Tables, s) \in lost
    /\ lost # {} => "session" \in cut \/ StallAfter # None

\* The open exits of a symbol are one bracket or one MARKET exit, for all of
\* the position, whatever was cancelled, lost or re-armed on the way
\* (common.py:262-268, broker.py:404-423).
ExitsMatchPosition ==
    \A s \in Symbols :
        LET exits == {i \in OpenFor(s) : ~orders[i].opening}
        IN  /\ \A i \in exits : orders[i].qty = Abs(pos[s].qty)
            /\ Cardinality({orders[i].oco : i \in exits}) <= 1
            /\ Cardinality({i \in exits : orders[i].oco = 0}) <= 1

\* A state between two executions: every filled order has its fill, every
\* closed round trip its row, and a filled entry the rows of its exits.
Whole(d) ==
    LET b == Replay(d.fills)
        executed == {i \in DOMAIN d.orders : d.orders[i].status = "FILLED"}
    IN  /\ Cardinality(executed) = Len(d.fills)
        /\ b.cash = StartingCapital + FoldLeft(LAMBDA a, r : a + r.net, 0, d.trades)
                    + SumFunction([s \in Symbols |-> TradeFlow(b.trade[s])])
        /\ \A i \in executed : d.orders[i].bracket # None =>
              \E j \in DOMAIN d.orders : d.orders[j].oco = i

\* What is durable is such a state (ledger.py:3-5, broker.py:385-423), wherever the
\* session stops and whatever the other one commits between two calls.  A commit inside
\* a call (paper_live.py:241) leaves part of its rows, but never a fill without its order.
DurableIsWhole ==
    /\ cut \cap {"disk", "session"} = {} => Whole(disk)
    /\ Len(disk.fills) <= Cardinality({i \in DOMAIN disk.orders : disk.orders[i].status = "FILLED"})

\* Restarts do not buy entries: neither a symbol nor the day gets more of
\* them than is configured (common.py:156-161, 200, 235-248).
EntriesOn(s) ==
    Cardinality({i \in DOMAIN orders : /\ orders[i].symbol = s /\ orders[i].opening
                                       /\ orders[i].status = "FILLED"})
EntriesCapped ==
    /\ \A s \in Symbols : EntriesOn(s) <= TradesPerSymbol
    /\ SumFunction([s \in Symbols |-> EntriesOn(s)]) <= TradesPerDay

\* At every moment exits fit their position, and entries stay in their caps.
SessionInv == SessionTypeOK /\ ExitsMatchPosition /\ EntriesCapped

\* No entry is executed at or after the square-off time (paper.yaml:33).
NoEntryAfterSquareOff ==
    [][\A i \in Open : orders[i].opening /\ Fills(i) => clock < SquareOff]_svars

\* However often it is restarted, the day ends with nothing held.
EndsFlat == <>[](Held = {} /\ Open = {})
==============================================================================
