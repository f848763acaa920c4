\* Minutes of up to four ticks, days of up to five minutes, every minute of three stocks.
SPECIFICATION RuleSpec
CONSTANTS
    None = None
    SlipNum = 5
    SlipDen = 100
    RateDen = 1000
    Rates <- MCRates
    Prices = {96, 98, 100, 103, 104}
    Levels = {95, 96, 97, 98, 100, 101, 103, 104, 105}
    Quantities = {1, 5, 20, 39, 60}
    MaxTicks = 4
    Scale = 30
    DayMinutes = 2
    OrbMinutes <- MCOrb
    ExtAtr <- MCExtAtr
    ExtFallback = 50
    EmaFast = 2
    EmaSlow = 3
    ReclaimLookback = 3
    PullbackLookback = 3
    TrendLookback = 3
    BurstLookback = 2
    BurstHold = 3
    Shapes <- MCShapes
    Prep <- MCPrep
    IndexBars <- MCIndexBars
    MaxMinutes = 5
    TooOldAfter = 2
    WarmAfter = 5
    MarketRamp = 50
    DeadBand = 10
    MinIndexScore = 1
    MinTotalScore = 3
    ConfirmRs = 20
    ConfirmPeers = 60
    WeakPeers = 40
    MinPeers = 2
    Members = {1, 2, 3}
    Stocks = {1, 2, 3}
    Worlds <- MCWorlds
    Weights <- MCWeights
    StatePoints <- MCStatePoints
    Bonus <- MCBonus
    MaxBonus = 500
    LunchPenalty = 1000
    LunchStart = 135
    LunchEnd = 255
    OpeningCapUntil = 5
    DayCapAfter = 330
    CloseCapAfter = 345
    Floors <- MCFloors
    InPlayWeights <- MCInPlay
    MinInPlay = 5000
    MinRvol = 150
    Filters <- MCFilters
    Policy <- MCPolicy
    Entry <- MCEntry
    Scalp <- MCScalp
    Trend <- MCTrend
    Orb <- MCOrbRules
    Names = {1, 2}
    TradeDays <- MCTradeDays
    Biases = {"BULLISH", "BEARISH", "NEUTRAL"}
    NiftyMoves <- MCNifty
    Traded = {1, 2}
    PerSymbol = 1
    MaxOpen = 1
    NoEntryAfter = 2
    SquareOff = 3
    DayLength = 3
    MaxLives = 3
    SessionMinutes = 3
    AtrPeriod = 2
    NarrowDays = 3
    CurveSessions = 3
    StatsSessions = 3
    Qualifying <- MCQualifying
    LongOnly = TRUE
    MarketCurve <- MCCurve
    PreWeights <- MCPreWeights
    ValueSteps = {5000, 20000, 50000, 90000}
    Listed = {1, 2}
    Pasts <- MCPasts
    Mornings <- MCMornings
    BarShapes <- MCMinutes
    Sides <- MCSides
    NiftyChange = 10
    QuoteMaxAge = 1
    IndexTape <- MCIndexTape
    Horizons = {1, 2}
    LastExit = 2
    Cost = 10
    ScanMinutes = 3
    Lexicon <- MCLexicon
    StopWords = {"on"}
    ClauseWord = ";"
    SubjectWindow = 3
    NegationWindow = 2
    RoundupMin = 3
    MergeOverlap = 60
    MaxShown = 1
    NewsNow = 10
    Lookback = 5
    Published <- MCPublished
    OppositeWord <- MCOpposite
    MaxHeadlines = 3
    Torn = Torn
    HistoryStocks = {1, 2, 3}
    Indices = {9}
    Markets <- MCMarkets
    FirstDay = 4
    LastDay = 6
    Lead = 3
    Span = 3
    Prior = 2
    MinVolume = 2
    Slack = 0
    MaxRuns = 2
    Recorded = {1}
    Categories = {1, 2, 3}
    WatchLevel = 2
    PanelMinutes = 2
    SessionOpen = 0
    SessionEnd = 2
    LastTick = 3
    MaxStarts = 2
    DayShapes <- MCDayShapes
    MaxDays = 4
    MinRows = 3
    MinDays = 3
    TailShare = 4
INVARIANTS
    FillsAreHonest
    SignalsTellTheDay
    RunIsSound
    
    EntriesAreSound
    JournalHolds
    ScanAgrees
    HistoryIsSound
    RecordTells
    StudyIsFair
CHECK_DEADLOCK FALSE
