----------------------------- MODULE RuleChecks -----------------------------
(***************************************************************************)
(* The pure rules, each in the setting it works in: the fill rules on the  *)
(* ticks of a minute, the setup detectors on the candles of a day, the     *)
(* engine on the stocks of a minute's run, the strategies on the candles   *)
(* they trade on, one strategy with its journal over restarts, the scan of *)
(* a morning with its replay, the news of a stock, and the research: the   *)
(* download of its history, the record of its rows, the comparisons of its *)
(* study.  They share no state: a behaviour is about one of them and       *)
(* leaves the others where they start.                                     *)
(***************************************************************************)
EXTENDS FillChecks, SetupChecks, Recommendation, TradingDay, TradeJournal, HistoryDownload, Snapshots,
        StudyRules

CONSTANTS
    SessionMinutes, AtrPeriod, NarrowDays, CurveSessions, StatsSessions,        \* ReplayScan
    Qualifying, LongOnly, MarketCurve, PreWeights, ValueSteps, Listed, Pasts, Mornings,
    BarShapes, Sides, NiftyChange, QuoteMaxAge, IndexTape, Horizons, LastExit, Cost,
    ScanMinutes,
    Lexicon, StopWords, ClauseWord, SubjectWindow, NegationWindow, RoundupMin,  \* NewsRules
    MergeOverlap, MaxShown, NewsNow, Lookback, Published, OppositeWord, MaxHeadlines

VARIABLES
    about,          \* what the behaviour is about
    past, stats, exchange, quotes, tape, shown,                               \* ReplayScan
    headlines                                                                 \* NewsRules

Scan == INSTANCE ReplayScan
NewsFeed == INSTANCE NewsRules
scanVars == <<past, stats, exchange, quotes, tape, shown>>
researchVars == <<historyVars, recordVars, studyVars>>
ruleVars == <<about, ticks, dayVars, runVars, tradeVars, jvars, scanVars, headlines, researchVars>>

NoRun == world = None /\ todo = <<>> /\ by_mode = None /\ excluded = {} /\ ranked = None
NoTrading ==
    /\ trader = None /\ day = None /\ says = None /\ minute = 0 /\ checked = None
    /\ waiting = {} /\ holding = {} /\ count = None /\ finished = {} /\ placed = {}

NoScan ==
    /\ past = <<>> /\ stats = None /\ exchange = None /\ quotes = None
    /\ tape = <<>> /\ shown = <<>>

StillHistory == HistoryInit /\ market = (CHOOSE m \in Markets : TRUE) /\ today = LastDay

RuleInit ==
    /\ about \in {"fills", "setups", "ranking", "trading", "journal", "scan", "news", "history",
                  "record", "study"}
    /\ JournalInit
    /\ IF about = "scan" THEN Scan!ScanInit ELSE NoScan
    /\ Init
    /\ NewsFeed!NewsInit
    /\ DayInit
    /\ IF about = "ranking" THEN RunInit ELSE NoRun
    /\ IF about = "trading" THEN TradeInit ELSE NoTrading
    /\ IF about = "history" THEN HistoryInit ELSE StillHistory
    /\ RecordInit /\ StudyInit

RuleNext ==
    /\ UNCHANGED about
    /\ IF about \in {"history", "record", "study"} THEN TRUE ELSE UNCHANGED researchVars
    /\ IF about \in {"journal", "scan", "news"} THEN TRUE ELSE UNCHANGED <<jvars, scanVars, headlines>>
    /\ IF about \in {"fills", "setups", "ranking", "trading"}
       THEN TRUE ELSE UNCHANGED <<ticks, dayVars, runVars, tradeVars>>
    /\ \/ about = "fills" /\ Next /\ UNCHANGED <<dayVars, runVars, tradeVars>>
       \/ about = "setups" /\ DayNext /\ UNCHANGED <<ticks, runVars, tradeVars>>
       \/ about = "ranking" /\ RunNext /\ UNCHANGED <<ticks, dayVars, tradeVars>>
       \/ about = "trading" /\ TradeNext /\ UNCHANGED <<ticks, dayVars, runVars>>
       \/ about = "journal" /\ JournalNext /\ UNCHANGED <<scanVars, headlines>>
       \/ about = "scan" /\ Scan!ScanNext /\ UNCHANGED <<jvars, headlines>>
       \/ about = "news" /\ NewsFeed!NewsNext /\ UNCHANGED <<jvars, scanVars>>
       \/ about = "history" /\ HistoryNext /\ UNCHANGED <<recordVars, studyVars>>
       \/ about = "record" /\ RecordNext /\ UNCHANGED <<historyVars, studyVars>>
       \/ about = "study" /\ DayIsAdded /\ UNCHANGED <<historyVars, recordVars>>

RuleSpec == RuleInit /\ [][RuleNext]_ruleVars

\* No stock is lost or counted twice in a minute's run, the lists are in the order of
\* the evidence and shown in full, and nothing of them is bought at the open or near
\* the close; a stock's own move does not confirm its sector, bulls and bears are treated
\* alike, and the checklist tells what the score was built from (see Recommendation).
RunIsSound ==
    about = "ranking" =>
        /\ EveryStockOnce /\ RankFollowsEvidence /\ ShownInFull /\ NothingBoughtOutOfHours
        /\ ranked # None => SectorIsOthers /\ BiasIsFair /\ ChecklistTellsScore

\* An order is what it says on the chart of the market, within its budgets, and
\* the limits of the day hold (see TradingDay).
EntriesAreSound == about = "trading" => OrdersAreSound /\ LimitsHold

\* The morning in the files is the morning that was scanned, and what is measured
\* afterwards was not known then (see ReplayScan).
ScanAgrees == about = "scan" => Scan!ScanIsHonest

=============================================================================
