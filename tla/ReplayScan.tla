----------------------------- MODULE ReplayScan -----------------------------
(***************************************************************************)
(* A morning of the market, scanned live (market_scanner.py) minute by     *)
(* minute, and the same morning read again from the files                  *)
(* (research/universe_history.py, research/outcomes.py).                   *)
(*                                                                         *)
(* A minute of a stock is a candle, or None where nobody traded.  The live *)
(* scan reads the exchange's quotes, which run with the day, as often as   *)
(* its calls succeed; the replay has the whole day's candles at once.      *)
(***************************************************************************)
EXTENDS ScanRules

CONSTANTS
    Listed,             \* the stocks
    Pasts,              \* what the sessions before may have been, for each stock
    Mornings,           \* bound: those the day goes on after
    BarShapes,          \* candles a minute may have
    Sides, NiftyChange,    \* the market's bias and NIFTY's change
    QuoteMaxAge,        \* minutes a quote counts for
    IndexTape,          \* NIFTY's candles
    Horizons, LastExit, Cost,   \* outcomes.py: minutes, minute, hundredths of a percent
    ScanMinutes         \* bound

VARIABLES
    past,               \* stock |-> sessions before today
    stats,              \* stock |-> its statistics, None: no history (scanner.stats)
    exchange,           \* stock |-> what the exchange quotes
    quotes,             \* stock |-> the scanner's last quote
    tape,               \* stock |-> the minutes of the day's file, so far
    shown               \* for each minute: who was quoted, and the live list
scanVars == <<past, stats, exchange, quotes, tape, shown>>

Now == Len(shown)
NotQuoted == [s \in Listed |-> None]

\* External: the exchange's running values.  Before the first trade there is no
\* range, and the price is the last close.
Opened(s) == [volume |-> 0, last |-> IF stats[s] = None THEN 0 ELSE stats[s].prev_close,
              high |-> None, low |-> None, turnover |-> 0]
Transacted(was, b) ==
    [volume |-> was.volume + b.volume, last |-> b.close,
     high |-> IF was.high = None THEN b.high ELSE Max({was.high, b.high}),
     low |-> IF was.low = None THEN b.low ELSE Min({was.low, b.low}),
     turnover |-> was.turnover + b.volume * b.open]

\* _quote_one
QuoteAt(e, before, m) ==
    [volume |-> e.volume, last |-> e.last, high |-> e.high, low |-> e.low,
     vwap |-> IF e.volume = 0 THEN None ELSE e.turnover \div e.volume, at |-> m,
     prev_volume |-> IF before = None THEN None ELSE before.volume,
     prev_at |-> IF before = None THEN None ELSE before.at]

\* _fresh_quotes
Fresh(book, m) ==
    [s \in Listed |->
        IF book[s] = None THEN None
        ELSE IF m - book[s].at <= QuoteMaxAge THEN book[s] ELSE None]

ScanInit ==
    /\ past \in Pasts
    /\ stats = [s \in Listed |-> DailyStats(Daily(past[s]))]
    /\ exchange = [s \in Listed |-> Opened(s)]
    /\ quotes = NotQuoted /\ tape = [s \in Listed |-> <<>>] /\ shown = <<>>

\* A minute passes, the stocks of the pool whose calls succeed are quoted, and the
\* worker reads the list.
ScanMinute(bar, answered) ==
    LET m == Now + 1
        quoted == {s \in answered : InPool(stats[s])}
    IN  /\ Now < ScanMinutes /\ past \in Mornings
        /\ exchange' = [s \in Listed |-> IF bar[s] = None THEN exchange[s]
                                         ELSE Transacted(exchange[s], bar[s])]
        /\ quotes' = [s \in Listed |-> IF s \in quoted THEN QuoteAt(exchange'[s], quotes[s], m)
                                       ELSE quotes[s]]
        /\ tape' = [s \in Listed |-> Append(tape[s], bar[s])]
        /\ shown' = Append(shown, [quoted |-> quoted,
                 list |-> Qualify(Fresh(quotes', m), stats, m, Sides, NiftyChange)])
        /\ UNCHANGED <<past, stats>>

ScanNext ==
    \E bar \in [Listed -> BarShapes \cup {None}], answered \in {{}, Listed} : ScanMinute(bar, answered)

------------------------------------------------------------------------------
(* The replay: ReplayScanner.                                              *)

\* The candles that had closed by minute m.
MutClosedBy(s, m) == Candles(SubSeq(tape[s], 1, Min({m + 1, Len(tape[s])})))  \* has begun
ClosedBy(s, m) == Candles(SubSeq(tape[s], 1, m))

VolumeOf(candles) == MapThenSumSet(LAMBDA i : candles[i].volume, DOMAIN candles)
Typical(candles) ==
    MapThenSumSet(LAMBDA i : (candles[i].high + candles[i].low + candles[i].close)
                                 * candles[i].volume, DOMAIN candles)
ReplayQuote(s, m) ==
    LET closed == ClosedBy(s, m)
        before == ClosedBy(s, m - 1)
        day == MergedBar(closed, 0)
        known == before # <<>>
    IN  IF closed = <<>> THEN None
        ELSE [volume |-> day.volume, last |-> day.close, high |-> day.high, low |-> day.low,
              vwap |-> IF day.volume = 0 THEN None ELSE Typical(closed) \div (3 * day.volume),
              at |-> m,
              prev_volume |-> IF known THEN VolumeOf(before) ELSE None,
              prev_at |-> IF known THEN m - 1 ELSE None]

\* Over the pool of the day, which was chosen by the same filters.
Pool == {s \in Listed : InPool(stats[s])}
Replayed(m) ==
    RankVolumeChange([s \in Pool |-> ReplayQuote(s, m)], stats, m)

------------------------------------------------------------------------------
(* The outcomes of what was shown: label_row.                              *)

\* Candles of minutes t .. t+h-1; None if one is missing.
Window(minutes, t, h) ==
    IF Len(minutes) < t + h THEN None
    ELSE LET win == SubSeq(minutes, t + 1, t + h)
         IN  IF None \in ToSet(win) THEN None ELSE MergedBar(win, t)

Label(minutes, t, h) ==
    LET w == Window(minutes, t, h)
        index == Window(IndexTape, t, h)
        forward == Pct(w.close, w.open)
    IN  IF t + h > LastExit \/ w = None THEN None
        ELSE [fwd |-> forward, net |-> forward - Cost,
              mfe |-> Pct(w.high, w.open), mae |-> Pct(w.low, w.open),
              xs_nifty |-> IF index = None THEN None
                           ELSE forward - Pct(index.close, index.open)]

------------------------------------------------------------------------------
(* Properties.                                                             *)

ListOf(list, s) == {c \in ToSet(list) : c.symbol = s}
\* What both read: the average price is the exchange's here, the candles' there.
Facts(c) == <<c.change, c.volume_change, [c.parts EXCEPT !.movement.vwap = None]>>

\* A stock that was quoted in this minute and, having traded, in the one before.
ReadTwice(s, m) ==
    /\ s \in shown[m].quoted
    /\ m > 1 => s \in shown[m-1].quoted /\ ClosedBy(s, m - 1) # <<>>
Qualifies(c) ==
    /\ MovesWith(c.change, "LONG", NiftyChange)
    /\ c.volume_change >= Qualifying.min_volume_change

\* History is replayed as it was lived: at every minute of the day that is over,
\* the replay shows the long candidates the live scan showed, with the same facts,
\* although it reads them from a file that goes on (universe_history.py:9-12).
ReplayIsLive ==
    \A m \in DOMAIN shown :
        LET replayed == Replayed(m)
        IN  \A s \in Listed : ReadTwice(s, m) =>
                {Facts(c) : c \in {d \in ListOf(shown[m].list, s) : d.direction = "LONG"}}
                    = {Facts(c) : c \in {d \in ListOf(replayed, s) : Qualifies(d)}}

\* No stock stands before one that has at least its points in every part.
Beats(a, b) ==
    \A g \in DOMAIN PreWeights : \A p \in DOMAIN a.parts[g] :
        LET x == a.parts[g][p]  y == b.parts[g][p]
        IN  (x = None) = (y = None) /\ (x # None => x >= y)
ListFollowsEvidence ==
    \A m \in DOMAIN shown : \A i, j \in DOMAIN shown[m].list :
        i < j /\ Beats(shown[m].list[j], shown[m].list[i]) =>
            shown[m].list[i].score = shown[m].list[j].score

\* When a snapshot is taken no label of it can be known; when its window is over,
\* the label is there unless a candle is missing or the day ends too early, and
\* the move lies within the best and the worst one.
LabelsSettle ==
    \A s \in Listed : \A t \in 0..Now, h \in Horizons :
        LET label == Label(tape[s], t, h)
        IN  /\ Label(SubSeq(tape[s], 1, t), t, h) = None
            /\ t + h <= Now =>
                  (label = None <=> t + h > LastExit
                                    \/ \E i \in t+1..t+h : tape[s][i] = None)
            /\ label # None => label.mae <= label.fwd /\ label.fwd <= label.mfe
                               /\ label.mae <= 0 /\ label.mfe >= 0

\* What the days before say does not change, and is asked before the first minute.
ScanIsHonest ==
    /\ Now = 0 => \A s \in Listed : HistoryIsSound(past[s])
    /\ ReplayIsLive /\ ListFollowsEvidence /\ LabelsSettle
=============================================================================
