------------------------------ MODULE CandleCache ------------------------------
(***************************************************************************)
(* The 1-minute bars of the day, from the exchange to the strategies.      *)
(*                                                                         *)
(* The exchange forms the bar of the running minute.  At each of its       *)
(* minutes the worker asks for the bars from the last cached one on        *)
(* (storage/candle_cache.py), through the adapter, which retries           *)
(* (broker/groww.py, utils/retry.py), and marks those that had closed when *)
(* the minute began.  The paper session takes the closed bars it has not   *)
(* seen from the file (app/paper_live.py).  The file outlives a crash.     *)
(*                                                                         *)
(* A bar is the number of its trades: the later of two versions of a bar   *)
(* has more.  A minute without trades has no bar.                          *)
(***************************************************************************)
EXTENDS Naturals

CONSTANTS
    None,
    Stocks,
    LastMinute,     \* of the day; minutes count from 0
    MaxTrades,      \* in a minute
    MaxAttempts     \* of a call of the adapter

ASSUME CacheAssumption ==
    /\ LastMinute \in Nat /\ MaxTrades \in Nat /\ MaxAttempts \in Nat \ {0} /\ None \notin Nat
    /\ \A bar \in [trades : 1 .. MaxTrades, complete : BOOLEAN] : bar # None

VARIABLES
    clock,      \* the running minute
    trades,     \* the exchange: trades of each stock and minute so far
    asOf,       \* the worker's minute, or None before its first
    fetching,   \* the stock whose bars are being fetched, or None
    attempts,   \* of that call
    last,       \* how the last attempt ended
    file,       \* the cached bars of each stock
    fetched,    \* the minute in which each stock was last refreshed
    seen,       \* LivePaper._seen
    taken       \* how often each bar was given to the session, and as what

cvars == <<clock, trades, asOf, fetching, attempts, last, file, fetched, seen, taken>>

Minutes == 0 .. LastMinute
CachedBar == [trades : 1 .. MaxTrades, complete : BOOLEAN]
NoBars == [m \in Minutes |-> None]
NotTaken == [times |-> 0, trades |-> 0]

CacheTypeOK ==
    /\ clock \in Minutes /\ asOf \in Minutes \cup {None}
    /\ trades \in [Stocks -> [Minutes -> 0 .. MaxTrades]]
    /\ fetching \in Stocks \cup {None} /\ attempts \in 0 .. MaxAttempts
    /\ last \in {"none", "ok", "limited", "timeout", "refused"}
    /\ file \in [Stocks -> [Minutes -> CachedBar \cup {None}]]
    /\ fetched \in [Stocks -> Minutes \cup {None}]
    /\ seen \in [Stocks -> Minutes \cup {None}]
    /\ taken \in [Stocks -> [Minutes -> [times : Nat, trades : 0 .. MaxTrades]]]
    /\ fetching = None => attempts = 0

------------------------------------------------------------------------------
(* The exchange.                                                           *)

Trade(s) ==
    /\ trades[s][clock] < MaxTrades
    /\ trades' = [trades EXCEPT ![s][clock] = @ + 1]
    /\ UNCHANGED <<clock, asOf, fetching, attempts, last, file, fetched, seen, taken>>

MinutePasses ==
    /\ clock < LastMinute /\ clock' = clock + 1
    /\ UNCHANGED <<trades, asOf, fetching, attempts, last, file, fetched, seen, taken>>

------------------------------------------------------------------------------
(* IntradayCandleCache.refresh, through GrowwAdapter._call.                *)

Cached(s) == {m \in Minutes : file[s][m] # None}

\* From the last cached bar, which may have been forming.
MutFirstWanted(s) ==
    IF Cached(s) = {} THEN 0 ELSE (CHOOSE m \in Cached(s) : \A n \in Cached(s) : n <= m) + 1
FirstWanted(s) ==
    IF Cached(s) = {} THEN 0 ELSE CHOOSE m \in Cached(s) : \A n \in Cached(s) : n <= m

Answer(s) == {m \in FirstWanted(s) .. asOf : trades[s][m] > 0}

Closed(m) == asOf >= m + 1

Merged(s) ==
    [m \in Minutes |->
        IF m \in Answer(s) THEN [trades |-> trades[s][m], complete |-> Closed(m)]
        ELSE IF file[s][m] # None THEN [file[s][m] EXCEPT !.complete = Closed(m)]
        ELSE None]

BeginFetch(s) ==
    /\ asOf # None /\ fetching = None
    /\ fetching' = s /\ last' = "none"
    /\ UNCHANGED <<clock, trades, asOf, attempts, file, fetched, seen, taken>>

Retryable == {"limited"}    \* a timeout is translated before the retry sees it
MayTry == attempts < MaxAttempts /\ last \in {"none"} \cup Retryable

AttemptSucceeds ==
    /\ fetching # None /\ MayTry
    /\ file' = [file EXCEPT ![fetching] = Merged(fetching)]
    /\ fetched' = [fetched EXCEPT ![fetching] = asOf]
    /\ fetching' = None /\ attempts' = 0 /\ last' = "ok"
    /\ UNCHANGED <<clock, trades, asOf, seen, taken>>

AttemptFails(how) ==
    /\ fetching # None /\ MayTry
    /\ attempts' = attempts + 1 /\ last' = how
    /\ UNCHANGED <<clock, trades, asOf, fetching, file, fetched, seen, taken>>

\* The error leaves the call; the stock is left out of this minute.
CallRaises ==
    /\ fetching # None /\ last # "none" /\ ~MayTry
    /\ fetching' = None /\ attempts' = 0
    /\ UNCHANGED <<clock, trades, asOf, last, file, fetched, seen, taken>>

------------------------------------------------------------------------------
(* LiveSource and LivePaper.on_minute.                                     *)

\* The bars a strategy scores: closed ones only, of a refresh that succeeded.
Scored(s) ==
    IF fetched[s] # asOf THEN {} ELSE {m \in Cached(s) : file[s][m].complete}

\* The bars the session is given, from the file as it is.
Unseen(s) ==
    {m \in Cached(s) : /\ file[s][m].complete /\ m + 1 <= asOf
                       /\ seen[s] = None \/ m > seen[s]}

SeenAfter(s) ==
    IF Unseen(s) = {} THEN seen[s]
    ELSE CHOOSE m \in Unseen(s) : \A n \in Unseen(s) : n <= m

OnMinute(followed) ==
    /\ asOf # None /\ fetching = None
    /\ seen' = [s \in Stocks |-> IF s \in followed THEN SeenAfter(s) ELSE seen[s]]
    /\ taken' = [s \in Stocks |-> [m \in Minutes |->
                    IF s \in followed /\ m \in Unseen(s)
                    THEN [times |-> taken[s][m].times + 1, trades |-> file[s][m].trades]
                    ELSE taken[s][m]]]
    /\ UNCHANGED <<clock, trades, asOf, fetching, attempts, last, file, fetched>>

NextMinute ==
    /\ fetching = None /\ asOf # clock
    /\ asOf' = clock
    /\ UNCHANGED <<clock, trades, fetching, attempts, last, file, fetched, seen, taken>>

\* The worker dies and starts again: only the file is left.
Restart ==
    /\ asOf # None /\ asOf' = None
    /\ fetching' = None /\ attempts' = 0 /\ last' = "none"
    /\ fetched' = [s \in Stocks |-> None]
    /\ seen' = [s \in Stocks |-> None]
    /\ taken' = [s \in Stocks |-> [m \in Minutes |-> NotTaken]]
    /\ UNCHANGED <<clock, trades, file>>

------------------------------------------------------------------------------
CacheInit ==
    /\ clock = 0 /\ asOf = None /\ fetching = None /\ attempts = 0 /\ last = "none"
    /\ trades = [s \in Stocks |-> [m \in Minutes |-> 0]]
    /\ file = [s \in Stocks |-> NoBars]
    /\ fetched = [s \in Stocks |-> None] /\ seen = [s \in Stocks |-> None]
    /\ taken = [s \in Stocks |-> [m \in Minutes |-> NotTaken]]

------------------------------------------------------------------------------
(* Properties.                                                             *)

\* A bar marked complete is the bar of the exchange, and no trade will be
\* added to it.
CompleteIsFinal ==
    \A s \in Stocks : \A m \in Cached(s) :
        file[s][m].complete => m < clock /\ file[s][m].trades = trades[s][m]

\* A stock that was refreshed in this minute has every closed bar, also after
\* failed calls, minutes the worker missed, and a restart.
NoHoles ==
    \A s \in Stocks : asOf # None /\ fetched[s] = asOf =>
        Scored(s) = {m \in Minutes : m < asOf /\ trades[s][m] > 0}

\* The session is given each bar once, and as it was when it had closed.
BarsTakenOnce ==
    \A s \in Stocks, m \in Minutes :
        /\ taken[s][m].times <= 1
        /\ taken[s][m].times = 1 => taken[s][m].trades = trades[s][m]

\* A bar that was passed over is never given later: so none is passed over.
NonePassedOver ==
    \A s \in Stocks, m \in Minutes :
        seen[s] # None /\ m <= seen[s] /\ trades[s][m] > 0 => taken[s][m].times = 1

\* The session is given the closed bars, all of them, each once.
BarsTaken == BarsTakenOnce /\ NonePassedOver

\* What the notes on the provider say: timeouts are retried too.
TimeoutsAreRetried ==
    [][last = "timeout" /\ CallRaises => attempts = MaxAttempts]_cvars
==============================================================================
