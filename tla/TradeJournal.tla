----------------------------- MODULE TradeJournal -----------------------------
(***************************************************************************)
(* The recommendation strategy over a day and its restarts                 *)
(* (paper/strategies/recommendation.py) with the journal it keeps          *)
(* (paper/journal.py).  A line of the journal is durable when written; the *)
(* ledger is committed once a minute; a crash loses what is between.       *)
(*                                                                         *)
(* A trade is its stock and the minute of its signal, which is all that    *)
(* differs between two trade ids of a run.  Of the broker there is what    *)
(* the strategy sees: entries refused, filled, dead, positions closed.     *)
(***************************************************************************)
EXTENDS Values, Sequences, FiniteSets, FiniteSetsExt, SequencesExt

CONSTANTS
    Traded,                     \* the stocks
    PerSymbol, MaxOpen,         \* max_trades_per_symbol_per_day, max_open_positions
    NoEntryAfter, SquareOff,    \* minutes of the day
    DayLength, MaxLives         \* bounds

\* Of an entry order.  Cancelled is what the square-off found unfilled.
Statuses == {"OPEN", "FILLED", "REJECTED", "CANCELLED"}
\* Why the policy refuses a recommendation.
Limits == {"after no_entry_after", "position already open", "symbol traded today", "max open positions"}

ASSUME JournalAssumption ==
    /\ IsFiniteSet(Traded) /\ None \notin Statuses \cup Limits
    /\ {PerSymbol, MaxOpen, NoEntryAfter, SquareOff, DayLength, MaxLives} \subseteq Nat

VARIABLES
    clock, squared, over,         \* the session: minute of the last step; _squared; stopped
    order,                      \* status of a stock's entry order, None: none yet
    held,                       \* the trade of its position, as the minute of the signal
    pending, open, traded, missed_seen,     \* the strategy's books
    entries, exits, missed,     \* the journal; an exit and a missed signal by what they tell
    fills, saved,               \* the ledger: rows written, rows committed
    lives,                      \* of the worker
    lost,                       \* whether a crash has lost fills
    again                       \* whether a trade id was given twice
books == <<pending, open, traded, missed_seen>>
journal == <<entries, exits, missed>>
jvars == <<clock, squared, over, order, held, books, journal, fills, saved, lives, lost, again>>

Nothing == [s \in Traded |-> None]
LedgerRow(s, signal, side) == [symbol |-> s, signal |-> signal, side |-> side]
Rows(rows, s, side) == {i \in DOMAIN rows : rows[i].symbol = s /\ rows[i].side = side}
Trades(rows, side) ==
    {<<rows[i].symbol, rows[i].signal>> : i \in {j \in DOMAIN rows : rows[j].side = side}}

JournalInit ==
    /\ clock = 0 /\ squared = FALSE /\ over = FALSE
    /\ order = Nothing /\ held = Nothing
    /\ pending = Nothing /\ open = Nothing
    /\ traded = [s \in Traded |-> 0] /\ missed_seen = {}
    /\ entries = <<>> /\ exits = {} /\ missed = {}
    /\ fills = <<>> /\ saved = <<>>
    /\ lives = 1 /\ lost = FALSE /\ again = FALSE

------------------------------------------------------------------------------
(* Signals that were not taken, once for each stock and reason.            *)

AllMissed(signals) ==
    /\ missed' = missed \cup (signals \ missed_seen)
    /\ missed_seen' = missed_seen \cup signals

\* _drop_dead_orders.
Reasons == [REJECTED |-> "broker at fill", CANCELLED |-> "no fill"]
DeadIn(status) == {s \in Traded : pending[s] # None /\ status[s] \in {"REJECTED", "CANCELLED"}}
DeadSignals(status) == {<<s, Reasons[status[s]]>> : s \in DeadIn(status)}
WithoutDead == [s \in Traded |-> IF s \in DeadIn(order) THEN None ELSE pending[s]]

------------------------------------------------------------------------------
(* A minute before the square-off: RecommendationStrategy.on_bars.         *)

\* Why the policy refuses a recommendation that is good enough; None: it does not.
Refusal(s, used) ==
    IF clock + 1 > NoEntryAfter THEN "after no_entry_after"
    ELSE IF s \in used THEN "position already open"
    ELSE IF traded[s] >= PerSymbol THEN "symbol traded today"
    ELSE IF Cardinality(used) >= MaxOpen THEN "max open positions"
    ELSE None

InUse == {s \in Traded : held[s] # None \/ WithoutDead[s] # None}

\* The list from the top: what is placed, and what is missed for a limit or
\* because the broker refuses it.
Offered(done, offer) ==
    LET why == Refusal(offer.stock, InUse \cup done.placed)
        tell(reason) == [done EXCEPT !.missed = @ \cup {<<offer.stock, reason>>}]
    IN  IF why = "position already open" THEN done
        ELSE IF why # None THEN tell(why)
        ELSE IF offer.refused THEN tell("broker")
        ELSE [done EXCEPT !.placed = @ \cup {offer.stock}]
MinuteStart == [placed |-> {}, missed |-> DeadSignals(order)]
Worked(list) == FoldLeft(Offered, MinuteStart, list)

MinuteBegins == ~over /\ clock < DayLength /\ clock' = clock + 1

Minute(list) ==
    /\ MinuteBegins /\ clock' < SquareOff
    /\ LET done == Worked(list)
       IN  /\ AllMissed(done.missed)
           /\ pending' = [s \in Traded |-> IF s \in done.placed THEN clock' ELSE WithoutDead[s]]
           /\ order' = [s \in Traded |-> IF s \in done.placed THEN "OPEN" ELSE order[s]]
    /\ saved' = fills
    /\ UNCHANGED <<squared, over, held, open, traded, entries, exits, fills, lives, lost, again>>

------------------------------------------------------------------------------
(* Fills between the minutes, from the pump, which outlives their errors.  *)

Filled(s) ==
    /\ ~over /\ order[s] = "OPEN"
    /\ order' = [order EXCEPT ![s] = "FILLED"]
    /\ held' = [held EXCEPT ![s] = pending[s]]
    /\ fills' = Append(fills, LedgerRow(s, pending[s], "BUY"))
    /\ pending' = [pending EXCEPT ![s] = None]
    /\ open' = [open EXCEPT ![s] = pending[s]]
    /\ traded' = [traded EXCEPT ![s] = @ + 1]
    \* record_entry refuses a trade id it has
    /\ IF <<s, pending[s]>> \in ToSet(entries)
       THEN again' = TRUE /\ UNCHANGED entries
       ELSE entries' = Append(entries, <<s, pending[s]>>) /\ UNCHANGED again
    /\ UNCHANGED <<clock, squared, over, missed_seen, exits, missed, saved, lives, lost>>

RefusedAtFill(s) ==
    /\ ~over /\ order[s] = "OPEN"
    /\ order' = [order EXCEPT ![s] = "REJECTED"]
    /\ UNCHANGED <<clock, squared, over, held, books, journal, fills, saved, lives, lost, again>>

\* Positions are closed in the order in which their stocks were first traded, and
\* told to the strategy in turn; it forgets the trade, and record_exit refuses one
\* that is not open in the journal, which ends the telling.
FirstRow(s) == Min({i \in DOMAIN fills : fills[i].symbol = s})
InTurn(closed) ==
    LET rows == InOrder({FirstRow(s) : s \in closed})
    IN  [n \in DOMAIN rows |-> fills[rows[n]].symbol]

Follows(s) == <<s, open[s]>>
Refused(s) == open[s] # None /\ (Follows(s) \notin ToSet(entries) \/ Follows(s) \in exits)
Raises(closed) == \E s \in closed : Refused(s)
Told(closed) == {s \in closed : \A t \in closed : Refused(t) => FirstRow(s) <= FirstRow(t)}

Closed(closed) ==
    LET turn == InTurn(closed)
    IN  /\ held' = [s \in Traded |-> IF s \in closed THEN None ELSE held[s]]
        /\ fills' = fills \o [n \in DOMAIN turn |-> LedgerRow(turn[n], held[turn[n]], "SELL")]
        /\ open' = [s \in Traded |-> IF s \in Told(closed) THEN None ELSE open[s]]
        /\ exits' = exits \cup {Follows(s) : s \in {t \in Told(closed) : open[t] # None /\ ~Refused(t)}}

Exited(s) ==
    /\ ~over /\ held[s] # None
    /\ Closed({s})
    /\ UNCHANGED <<clock, squared, over, order, pending, traded, missed_seen, entries, missed, saved,
                   lives, lost, again>>

------------------------------------------------------------------------------
(* The square-off, and the end of the session.                             *)

Held == {s \in Traded : held[s] # None}
AfterSquareOff == [s \in Traded |-> IF order[s] = "OPEN" THEN "CANCELLED" ELSE order[s]]
SquaresOff == order' = AfterSquareOff /\ Closed(Held)

\* An error of the journal ends the step before it is committed.
LateMinute ==
    /\ MinuteBegins /\ clock' >= SquareOff
    /\ IF squared THEN UNCHANGED <<order, held, open, exits, fills>> ELSE SquaresOff
    /\ IF ~squared /\ Raises(Held)
       THEN UNCHANGED <<squared, saved>>
       ELSE squared' = TRUE /\ saved' = fills'
    /\ UNCHANGED <<over, pending, traded, missed_seen, entries, missed, lives, lost, again>>

\* end_day, at the end of the clock or when the user stops the worker.
Stop ==
    /\ ~over /\ over' = TRUE
    /\ SquaresOff
    /\ IF Raises(Held)
       THEN UNCHANGED <<squared, pending, missed, missed_seen, saved>>
       ELSE /\ squared' = TRUE /\ saved' = fills'
            /\ AllMissed(DeadSignals(order')) /\ pending' = Nothing
    /\ UNCHANGED <<clock, traded, entries, lives, lost, again>>

------------------------------------------------------------------------------
(* A crash, or a restart: the ledger as committed, the journal as written. *)

PositionOf(rows, s) ==
    LET own == {i \in DOMAIN rows : rows[i].symbol = s}
        last == rows[Max(own)]
    IN  IF own = {} THEN None ELSE IF last.side = "BUY" THEN last.signal ELSE None

MutAttached(s) ==
    LET own == Rows(saved, s, "BUY") IN IF own = {} THEN None ELSE saved[Max(own)].signal
\* on_resume: the last trade of the journal without an exit.
Attached(s) ==
    LET left == {i \in DOMAIN entries : entries[i][1] = s /\ entries[i] \notin exits}
    IN  IF PositionOf(saved, s) = None \/ left = {} THEN None ELSE entries[Max(left)][2]

\* The next step may be of the same minute again, or of a later one.
Restart ==
    /\ lives < MaxLives /\ clock > 0
    /\ lives' = lives + 1 /\ clock' \in clock-1..DayLength-1
    /\ squared' = FALSE /\ over' = FALSE
    /\ order' = Nothing /\ pending' = Nothing /\ missed_seen' = {}
    /\ held' = [s \in Traded |-> PositionOf(saved, s)]
    /\ open' = [s \in Traded |-> Attached(s)]
    /\ traded' = [s \in Traded |-> Cardinality(Rows(saved, s, "BUY"))]
    /\ fills' = saved /\ lost' = (lost \/ fills # saved)
    /\ UNCHANGED <<journal, saved, again>>

\* What a minute's list may offer: each stock at most once, and whether the broker
\* would refuse its order.
Offers ==
    {list \in UNION {[1 .. n -> [stock : Traded, refused : BOOLEAN]] : n \in 0 .. Cardinality(Traded)} :
        \A i, j \in DOMAIN list : list[i].stock = list[j].stock => i = j}

JournalNext ==
    \/ \E list \in Offers : Minute(list)
    \/ \E s \in Traded : Filled(s) \/ RefusedAtFill(s) \/ Exited(s)
    \/ LateMinute \/ Stop \/ Restart

JournalSpec == JournalInit /\ [][JournalNext]_jvars

------------------------------------------------------------------------------
(* Properties.                                                             *)

\* As long as no crash lost a fill, the journal tells the ledger's day, each
\* trade and each exit once, and the strategy follows the positions there are
\* (recommendation.py:13-14, 57-58, journal.py:3-7).
JournalTellsTheLedger ==
    ~lost /\ ~again =>
        /\ ToSet(entries) = Trades(fills, "BUY")
        /\ Len(entries) = Cardinality({i \in DOMAIN fills : fills[i].side = "BUY"})
        /\ exits = Trades(fills, "SELL")
        /\ open = held

\* Whatever was lost, no trade of the ledger is without its lines, and a position is
\* followed as the trade it is, unless the journal has its exit already.  Then it is
\* not followed, or as a trade of its stock that a crash took from the ledger.
NothingUntold ==
    /\ Trades(fills, "BUY") \subseteq ToSet(entries)
    /\ ~again => Trades(fills, "SELL") \subseteq exits
    /\ ~again => \A s \in Traded :
           IF held[s] = None THEN open[s] = None
           ELSE IF <<s, held[s]>> \notin exits THEN open[s] = held[s]
           ELSE open[s] # None =>
                    Follows(s) \in ToSet(entries) \ (exits \cup Trades(fills, "BUY"))

\* A stock is traded no more often than allowed, over all lives.
TradedAsAllowed == \A s \in Traded : Cardinality(Rows(fills, s, "BUY")) <= PerSymbol

\* A signal that was placed ends as a trade or as a missed one, in the life in
\* which it came (recommendation.py:11-12).
NoSignalVanishes ==
    \A s \in Traded :
        /\ order[s] = "OPEN" <=> pending[s] # None /\ s \notin DeadIn(order)
        /\ over /\ ~again /\ order[s] \in {"REJECTED", "CANCELLED"} =>
              <<s, Reasons[order[s]]>> \in missed

JournalHolds == JournalTellsTheLedger /\ NothingUntold /\ TradedAsAllowed /\ NoSignalVanishes

(* What the code says.                                                     *)

\* on_resume re-attaches "journal trades of still-open positions" (recommendation.py:56-57).
AttachesItsTrade == ~again => \A s \in Traded : open[s] \in {held[s], None}
=============================================================================
