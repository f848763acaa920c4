--------------------------- MODULE HistoryDownload ---------------------------
(***************************************************************************)
(* The download of the market's history                                    *)
(* (scripts/fetch_universe_history.py): the daily candles of every stock,  *)
(* the liquid pool of each day, the 1-min bars of who was ever in a pool.  *)
(* It is run again, with the same range and directory, until all is there; *)
(* each run keeps what it finds in the files.  A run can fail at any call  *)
(* and be killed at any moment.  The backtest fills gaps of the same files *)
(* (ensure_cached of paper/backtest.py).                                   *)
(*                                                                         *)
(* A date is a number, and a candle of a stock is its date: the market     *)
(* says what was traded on it.  What is over does not change.  Files of    *)
(* days outside FirstDay .. LastDay are left out.                          *)
(***************************************************************************)
EXTENDS Values, Sequences, FiniteSets, FiniteSetsExt, SequencesExt

CONSTANTS
    Torn,                   \* a file that is cut off
    HistoryStocks, Indices,
    Markets,                \* what may have been traded: volumes, 0 for none
    FirstDay, LastDay,            \* arguments: the sessions asked for
    Lead,                   \* STATS_LEAD_DAYS
    Span,                   \* MAX_DAILY_WINDOW_DAYS
    Prior, MinVolume,       \* sessions of the statistics, and the filter
    Slack,                  \* calendar days that download_sessions adds
    MaxRuns                 \* bound

ASSUME HistoryAssumption ==
    /\ None \notin {"whole", "part", "empty"}
    /\ HistoryStocks \subseteq Nat /\ {FirstDay, LastDay, Lead, Span, Prior, Slack} \subseteq Nat
    /\ \A m \in Markets, i \in HistoryStocks \cup Indices, d \in FirstDay - Lead .. LastDay :
           m[i][d] \in Nat

VARIABLES
    market,     \* instrument -> date -> volume
    today,
    daily,      \* stock -> the file of its daily candles
    pools,      \* pools.json: day -> the pool's stocks and their statistics
    files,      \* instrument -> date -> the file of the session: "whole", "part" or "empty"
    done,       \* instrument -> its file in _done: how many sessions it was given
    step,       \* of the run: "off", "daily", "pools" or "bars"
    left,       \* instruments still to fetch in this step
    from,       \* the next window of daily candles begins here
    batch,      \* daily candles read so far
    errors,     \* stocks whose daily candles failed
    runs

historyVars == <<market, today, daily, pools, files, done, step, left, from, batch, errors, runs>>

Start == FirstDay - Lead
Dates == FirstDay .. LastDay
Sessions(i) == {d \in Start .. LastDay : market[i][d] > 0}
HistoryInit ==
    /\ market \in Markets /\ today \in LastDay .. LastDay + 1
    /\ daily = [s \in HistoryStocks |-> None] /\ pools = None
    /\ files = [i \in HistoryStocks \cup Indices |-> [d \in Dates |-> None]]
    /\ done = [i \in HistoryStocks \cup Indices |-> None]
    /\ step = "off" /\ left = {} /\ from = Start /\ batch = <<>> /\ errors = {}
    /\ runs = 0

\* Out of market hours: the last session asked for is over.
RunBegins ==
    /\ step = "off" /\ runs < MaxRuns /\ today > LastDay
    /\ runs' = runs + 1 /\ step' = "daily"
    /\ left' = HistoryStocks /\ from' = Start /\ batch' = <<>> /\ errors' = {}
    /\ UNCHANGED <<market, today, daily, pools, files, done>>

RunEnds ==
    /\ step # "off" /\ step' = "off" /\ left' = {} /\ from' = Start /\ batch' = <<>> /\ errors' = {}

\* Killed.  What is in memory is gone; each file is whole, but for pools.json.
Killed == RunEnds /\ UNCHANGED <<market, today, daily, pools, files, done, runs>>

------------------------------------------------------------------------------
(* fetch_daily: stock by stock, window by window.                          *)

Stock == Min(left)
NextStock ==
    /\ left' = left \ {Stock} /\ from' = Start /\ batch' = <<>>
    /\ step' = IF left' = {} THEN "pools" ELSE "daily"
    /\ UNCHANGED <<market, today, pools, files, done, runs>>

KeepDaily ==
    /\ step = "daily" /\ daily[Stock] # None /\ NextStock
    /\ UNCHANGED <<daily, errors>>

NextWindow(end) == end + 1
FetchWindow ==
    /\ step = "daily" /\ daily[Stock] = None /\ from <= LastDay
    /\ LET end == Min({LastDay, from + Span})
       IN  /\ batch' = batch \o InOrder({d \in Sessions(Stock) : from <= d /\ d <= end})
           /\ from' = NextWindow(end)
    /\ UNCHANGED <<market, today, daily, pools, files, done, step, left, errors, runs>>

\* save_daily: one file put in the place of the other.
SaveDaily ==
    /\ step = "daily" /\ daily[Stock] = None /\ from > LastDay
    /\ daily' = [daily EXCEPT ![Stock] = batch] /\ NextStock
    /\ UNCHANGED errors

\* One bad symbol never stops the run; nothing of it is kept.
DailyFails ==
    /\ step = "daily" /\ daily[Stock] = None /\ NextStock
    /\ errors' = errors \cup {Stock}
    /\ UNCHANGED daily

------------------------------------------------------------------------------
(* The pools of the days: trading_days and build_pools.                    *)

Have == {s \in HistoryStocks : daily[s] \notin {None, <<>>}}
TradedOn(d) == {s \in Have : d \in ToSet(daily[s])}
TradingDays == {d \in Dates : TradedOn(d) # {} /\ 2 * Cardinality(TradedOn(d)) >= Cardinality(Have)}

LastOf(seq, n) == SubSeq(seq, Max({1, Len(seq) - n + 1}), Len(seq))
DatesBefore(s, d) ==
    LET rows == InOrder({n \in DOMAIN daily[s] : daily[s][n] < d})
    IN  [n \in DOMAIN rows |-> daily[s][rows[n]]]
VolumeOn(volumes, dates) == FoldLeft(LAMBDA sum, d : sum + volumes[d], 0, dates)
\* daily_stats: the close before, by its date, and the sessions averaged.
Stats(s, d) ==
    LET prior == LastOf(DatesBefore(s, d), Prior)
    IN  IF prior = <<>> THEN None
        ELSE [prev_close |-> prior[Len(prior)], sessions |-> Len(prior),
              volume |-> VolumeOn(market[s], prior)]
Admits(stats) == stats # None /\ stats.volume >= MinVolume * stats.sessions
PoolOf(d) ==
    LET stats == [s \in Have |-> Stats(s, d)]
    IN  [s \in {t \in Have : Admits(stats[t])} |-> stats[s]]
BuildPools == [d \in TradingDays |-> PoolOf(d)]

Readable == pools \notin {None, Torn}
Reused == pools # None /\ errors = {}
Ever(book) == UNION {DOMAIN book[d] : d \in DOMAIN book}

ToBars ==
    /\ step' = "bars" /\ left' = {i \in Ever(pools') \cup Indices : done[i] = None}
    /\ UNCHANGED <<market, today, daily, files, done, from, batch, errors, runs>>

ReusePools ==
    /\ step = "pools" /\ Reused /\ Readable /\ pools # <<>>
    /\ UNCHANGED pools /\ ToBars

WritePools ==
    /\ step = "pools" /\ ~Reused /\ TradingDays # {}
    /\ pools' = BuildPools /\ ToBars

\* The file cannot be read, or holds no day: nothing catches what that raises.
PoolsRaise ==
    /\ step = "pools" /\ RunEnds
    /\ IF Reused THEN pools \in {Torn, <<>>} /\ UNCHANGED pools
                 ELSE TradingDays = {} /\ pools' = <<>>
    /\ UNCHANGED <<market, today, daily, files, done, runs>>

KilledWriting ==
    /\ step = "pools" /\ ~Reused /\ RunEnds /\ pools' = Torn
    /\ UNCHANGED <<market, today, daily, files, done, runs>>

------------------------------------------------------------------------------
(* The 1-min bars: one instrument per worker, in any order.                *)

\* download_sessions: the last sessions of the instrument, as many as the pools
\* have days, out of so many calendar days.
Asked == Cardinality(DOMAIN pools)
Reach == (Asked * 7) \div 5 + Slack
Found(i) == {d \in Sessions(i) : d + Reach >= LastDay}
Kept(i) == {d \in Found(i) : Cardinality({e \in Found(i) : e > d}) < Asked}
Saved(i) == {d \in Dates : files[i][d] = "whole"}

\* The request has been answered; a session of it is saved.
SaveSession(i) ==
    /\ step = "bars" /\ i \in left
    /\ LET missing == (Kept(i) \cap Dates) \ Saved(i)
       IN  missing # {} /\ files' = [files EXCEPT ![i][Min(missing)] = "whole"]
    /\ UNCHANGED <<market, today, daily, pools, done, step, left, from, batch, errors, runs>>

MutMarkDone(i) ==
    /\ step = "bars" /\ i \in left
    /\ done' = [done EXCEPT ![i] = Cardinality(Kept(i))] /\ left' = left \ {i}
    /\ UNCHANGED <<market, today, daily, pools, files, step, from, batch, errors, runs>>
MarkDone(i) ==
    /\ step = "bars" /\ i \in left /\ Kept(i) \cap Dates \subseteq Saved(i)
    /\ done' = [done EXCEPT ![i] = Cardinality(Kept(i))] /\ left' = left \ {i}
    /\ UNCHANGED <<market, today, daily, pools, files, step, from, batch, errors, runs>>

BarsFail(i) ==
    /\ step = "bars" /\ i \in left /\ left' = left \ {i}
    /\ UNCHANGED <<market, today, daily, pools, files, done, step, from, batch, errors, runs>>

AllFetched ==
    /\ step = "bars" /\ left = {} /\ RunEnds
    /\ UNCHANGED <<market, today, daily, pools, files, done, runs>>

------------------------------------------------------------------------------
(* ensure_cached: the days of a backtest that have no file, one request.   *)

Past(d) == d < today
Answer(i, d) == IF market[i][d] = 0 THEN "empty" ELSE IF d < today THEN "whole" ELSE "part"
EnsureCached(i, wanted) ==
    /\ LET missing == {d \in wanted : Past(d) /\ files[i][d] = None}
       IN  /\ missing # {}
           /\ files' = [files EXCEPT ![i] =
                  [d \in Dates |-> IF d \in missing THEN Answer(i, d) ELSE @[d]]]
    /\ UNCHANGED <<market, today, daily, pools, done, step, left, from, batch, errors, runs>>

DayPasses ==
    /\ today <= LastDay /\ today' = today + 1
    /\ UNCHANGED <<market, daily, pools, files, done, step, left, from, batch, errors, runs>>

HistoryNext ==
    \/ RunBegins \/ Killed
    \/ KeepDaily \/ FetchWindow \/ SaveDaily \/ DailyFails
    \/ ReusePools \/ WritePools \/ PoolsRaise \/ KilledWriting
    \/ \E i \in HistoryStocks \cup Indices :
        \/ SaveSession(i) \/ MarkDone(i) \/ BarsFail(i)
        \/ EnsureCached(i, Dates)
    \/ AllFetched \/ DayPasses

HistorySpec == HistoryInit /\ [][HistoryNext]_historyVars

------------------------------------------------------------------------------
(* Properties.                                                             *)

\* A file of daily candles has every session of the range once, in order,
\* however many requests it took and whatever failed on the way.
DailyIsWhole == \A s \in HistoryStocks : daily[s] # None => daily[s] = InOrder(Sessions(s))

\* The statistics of a pool are of the sessions before its day and of no other,
\* so the close before is that of the last session.
PoolsKnowThePast ==
    Readable => \A d \in DOMAIN pools : \A s \in DOMAIN pools[d] :
        LET before == {x \in Sessions(s) : x < d}
        IN  /\ pools[d][s].prev_close = Max(before)
            /\ pools[d][s].sessions = Min({Prior, Cardinality(before)})

\* The pools that bars are fetched for follow from the daily files, unless a run
\* without errors has found older ones.
PoolsFollowFiles ==
    step = "bars" => (errors = {} /\ runs > 1) \/ pools = BuildPools

\* An instrument that counts as done has every session of the pools' days, but for
\* those out of reach, those that a session of no pool's day has displaced, and, where
\* the pools have more days than when it was fetched, those that nobody asks for again.
DoneIsDownloaded ==
    Readable => \A i \in HistoryStocks \cup Indices : \A d \in DOMAIN pools \cap Sessions(i) :
        done[i] # None =>
            \/ d \in Saved(i)
            \/ d + Reach < LastDay
            \/ \E e \in Sessions(i) \ DOMAIN pools : e > d
            \/ done[i] < Cardinality(Kept(i))

\* A file tells its day for good: no session is taken for a holiday, and none is
\* kept that was still going on.
FilesTellTheDay ==
    \A i \in HistoryStocks \cup Indices : \A d \in Dates :
        files[i][d] # None => files[i][d] = IF market[i][d] > 0 THEN "whole" ELSE "empty"

\* Whatever fails and is run again, the files of the history tell the market's days.
HistoryIsSound ==
    DailyIsWhole /\ PoolsKnowThePast /\ PoolsFollowFiles /\ DoneIsDownloaded /\ FilesTellTheDay

(* What the code says.                                                     *)

\* "Pools are a pure function of the daily files" (fetch_universe_history.py:103).
PoolsAreCurrent == step = "bars" => pools = BuildPools

\* "Save the last `sessions` trading days ending at `day`" (fetch_replay_data.py:32).
LastSessionsSaved ==
    Readable => \A i \in HistoryStocks \cup Indices : done[i] # None =>
        Cardinality(Saved(i)) >= Min({Asked, Cardinality(Sessions(i) \cap Dates)})
==============================================================================
