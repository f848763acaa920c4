------------------------------- MODULE Universe -------------------------------
(***************************************************************************)
(* The live universe: which stocks the worker follows, minute by minute.   *)
(*                                                                         *)
(* Two threads share it.  The scanner (app/market_scanner.py) quotes the   *)
(* strongest movers of its pool once a minute, as many as the API budget   *)
(* leaves beside the worker's own calls.  The worker (app/                 *)
(* dynamic_universe.py) ranks the fresh quotes at each tick, lets the      *)
(* ActiveSet (quantitative/volume_scan.py) decide who stays, prepares the  *)
(* newcomers, and hands the list to the live feed.  Open paper positions   *)
(* are pinned.  The morning's daily statistics are cached in a file that   *)
(* survives a restart of the worker, as do the positions of the day's run. *)
(*                                                                         *)
(* A quote is kept as its time and the side on which it qualifies: price,  *)
(* volume and score only decide that side and the order of the ranking,    *)
(* both inputs here.                                                       *)
(***************************************************************************)
EXTENDS Integers, FiniteSets

CONSTANTS
    None,           \* a model value: absent
    Symbols,
    Liquid,         \* symbols whose daily statistics pass the filters
    NoHistory,      \* symbols with no daily candles, new listings
    Unknown,        \* symbols the instrument master cannot resolve
    MinStay,        \* min_stay_minutes
    QuoteMaxAge,    \* quote_max_age_seconds, in minutes
    BatchSize,      \* symbols per batch call
    Fixed,          \* index candles of the worker in each minute
    ApiCalls,       \* api_calls_per_minute
    MaxTime, MaxRestarts

ASSUME UniverseAssumption ==
    /\ IsFiniteSet(Symbols) /\ None \notin Symbols
    /\ Liquid \subseteq Symbols /\ NoHistory \subseteq Symbols /\ Unknown \subseteq Symbols
    /\ MinStay \in Nat /\ QuoteMaxAge \in Nat /\ BatchSize \in Nat \ {0}
    /\ Fixed \in Nat /\ ApiCalls \in Nat
    /\ MaxTime \in Nat /\ MaxRestarts \in Nat
    /\ None \notin Nat /\ None \notin {"LONG", "SHORT"}

VARIABLES
    now,        \* the minute
    restarts,
    up,         \* the worker runs
    known,      \* the day's file of daily statistics
    pool,       \* MarketScanner.pool
    quotes,     \* MarketScanner._quotes, those that qualify on some side
    wanted,     \* quotes of the cycle in progress still to be fetched
    cycledAt,   \* the minute of the last scan cycle
    bias,       \* ctx.sentiment
    stage,      \* "idle", or "preparing" within DynamicUniverse.refresh
    tickedAt,   \* the minute of the last worker tick
    entered,    \* ActiveSet._entered
    direction,  \* DynamicUniverse._direction
    joining,    \* new members still to be resolved and prepared
    resolved,   \* DynamicUniverse._instruments
    preps,      \* ctx.preps
    stocks,     \* ctx.stocks
    feedStocks, \* the list the live feed was last given
    pinned,     \* LivePaper.open_symbols
    spent,      \* API calls made in this minute
    joined,     \* how many symbols joined in this minute
    lastSide    \* history: the side each symbol last qualified on since the start

process == <<now, restarts, up>>
scanner == <<known, pool, quotes, wanted, cycledAt>>
follow == <<entered, direction, joining, resolved, preps, stocks, feedStocks>>
history == <<joined, lastSide>>
vars == <<process, scanner, bias, stage, tickedAt, follow, pinned, spent, history>>

Sides == {"LONG", "SHORT"}
Biases == {"BULLISH", "BEARISH", "NEUTRAL"}
Quote == [at : Nat, side : Sides]

TypeOK ==
    /\ now \in 0 .. MaxTime /\ restarts \in 0 .. MaxRestarts /\ up \in BOOLEAN
    /\ known \in [Symbols -> {"absent", "stats", "empty"}] /\ pool \subseteq Symbols
    /\ quotes \in [Symbols -> Quote \cup {None}] /\ wanted \subseteq pool
    /\ cycledAt \in Nat \cup {None} /\ tickedAt \in Nat \cup {None}
    /\ bias \in Biases /\ stage \in {"idle", "preparing"}
    /\ entered \in [Symbols -> Nat \cup {None}]
    /\ direction \in [Symbols -> Sides \cup {None}]
    /\ joining \subseteq Symbols /\ resolved \subseteq Symbols \ Unknown
    /\ preps \in [Symbols -> {"none", "ready", "failed"}]
    /\ stocks \subseteq resolved /\ feedStocks \subseteq resolved
    /\ pinned \subseteq Symbols
    /\ spent \in Nat /\ joined \in Nat /\ lastSide \in [Symbols -> Sides \cup {None}]

------------------------------------------------------------------------------
(* The API budget.                                                         *)

BatchCalls == 2 * ((Cardinality(pool) + BatchSize - 1) \div BatchSize)

MutQuoteBudget ==       \* the worker's candle calls are forgotten
    LET left == ApiCalls - BatchCalls - Fixed
    IN  IF left < 0 THEN 0 ELSE left
QuoteBudget ==
    LET left == ApiCalls - BatchCalls - Fixed - Cardinality(stocks)
    IN  IF left < 0 THEN 0 ELSE left

Capacity ==
    LET half == (ApiCalls - BatchCalls - Fixed) \div 2
    IN  IF half < 1 THEN 1 ELSE half

------------------------------------------------------------------------------
(* The ranking and the active set.                                         *)

Directions(b) == CASE b = "BULLISH" -> {"LONG"} [] b = "BEARISH" -> {"SHORT"}
                   [] b = "NEUTRAL" -> Sides

MutFresh == {s \in Symbols : quotes[s] # None}     \* at any age
Fresh == {s \in Symbols : quotes[s] # None /\ now - quotes[s].at <= QuoteMaxAge}
Ranked == {s \in Fresh : quotes[s].side \in Directions(bias)}

\* The first top_n of the ranking, in whatever order the scores give.
Tops == {t \in SUBSET Ranked :
            \/ t = Ranked /\ Cardinality(t) <= Capacity
            \/ Cardinality(t) = Capacity}

Kept == {s \in Symbols : entered[s] # None /\ now - entered[s] < MinStay}

MutMembers(top) == top \cup Kept     \* pins are forgotten
Members(top) == top \cup Kept \cup pinned

Active == {s \in Symbols : entered[s] # None}

\* The side a member is followed on: of its quote, or what it was before.
SideOf(s) == IF s \in Ranked THEN quotes[s].side ELSE direction[s]

\* Symbols of the research panel: followed, and not as falling stocks.
Researched == {s \in stocks : direction[s] # "SHORT"}

------------------------------------------------------------------------------
(* The worker starts: the scanner's morning preparation, then the threads. *)

Nobody == [s \in Symbols |-> None]

MutKnownAfter(failed) ==    \* a failed fetch is cached as "no history"
    [s \in Symbols |-> IF known[s] # "absent" THEN known[s]
                       ELSE IF s \in NoHistory \cup failed THEN "empty" ELSE "stats"]
KnownAfter(failed) ==
    [s \in Symbols |-> IF known[s] # "absent" THEN known[s]
                       ELSE IF s \in failed THEN "absent"
                       ELSE IF s \in NoHistory THEN "empty" ELSE "stats"]

Start(failed) ==
    /\ ~up /\ now < MaxTime
    /\ failed \subseteq {s \in Symbols : known[s] = "absent"}
    /\ up' = TRUE /\ now' = now + 1
    /\ known' = KnownAfter(failed)
    /\ pool' = {s \in Liquid : known'[s] = "stats"}
    /\ quotes' = Nobody /\ wanted' = {} /\ cycledAt' = None
    /\ bias' = "NEUTRAL"        \* no sentiment yet: both sides
    /\ stage' = "idle" /\ tickedAt' = None
    /\ entered' = Nobody /\ direction' = Nobody
    /\ joining' = {} /\ resolved' = {} /\ preps' = [s \in Symbols |-> "none"]
    /\ stocks' = {} /\ feedStocks' = {}
    /\ spent' = 0 /\ joined' = 0 /\ lastSide' = Nobody
    /\ UNCHANGED <<restarts, pinned>>

\* The process dies.  Its positions are in the ledger.
Crash ==
    /\ up /\ restarts < MaxRestarts
    /\ up' = FALSE /\ restarts' = restarts + 1
    /\ UNCHANGED <<now, scanner, bias, stage, tickedAt, follow, pinned, spent, history>>

\* A minute passes; the scan and the tick of a minute are done at most once.
NextMinute ==
    /\ up /\ stage = "idle" /\ tickedAt = now /\ now < MaxTime
    /\ now' = now + 1 /\ spent' = 0 /\ joined' = 0
    /\ UNCHANGED <<restarts, up, scanner, bias, stage, tickedAt, follow, pinned, lastSide>>

------------------------------------------------------------------------------
(* The scanner's thread.                                                   *)

\* MarketScanner.cycle: batches for the whole pool, then the strongest movers
\* up to the budget.  A failed batch leaves fewer movers, or none.
Cycle(top) ==
    /\ up /\ wanted = {} /\ cycledAt # now
    /\ top \subseteq pool /\ Cardinality(top) <= QuoteBudget
    /\ wanted' = top /\ cycledAt' = now
    /\ spent' = spent + BatchCalls + Cardinality(top)
    /\ UNCHANGED <<process, known, pool, quotes, bias, stage, tickedAt, follow, pinned, history>>

\* _quote_one by one of the quote workers, stamped with the cycle's start.
Quoted(s, side) ==
    /\ up /\ s \in wanted
    /\ wanted' = wanted \ {s}
    /\ quotes' = [quotes EXCEPT ![s] = IF side = None THEN None
                                       ELSE [at |-> cycledAt, side |-> side]]
    /\ UNCHANGED <<process, known, pool, cycledAt, bias, stage, tickedAt, follow, pinned,
                   spent, history>>

QuoteFails(s) ==
    /\ up /\ s \in wanted
    /\ wanted' = wanted \ {s}
    /\ UNCHANGED <<process, known, pool, quotes, cycledAt, bias, stage, tickedAt, follow,
                   pinned, spent, history>>

------------------------------------------------------------------------------
(* The worker's tick: DynamicUniverse.refresh, then the minute's candles.  *)

BeginTick(top) ==
    /\ up /\ stage = "idle" /\ tickedAt # now
    /\ top \in Tops
    /\ tickedAt' = now /\ stage' = "preparing"
    /\ LET members == Members(top)
       IN  /\ entered' = [s \in Symbols |-> IF s \notin members THEN None
                                            ELSE IF entered[s] = None THEN now
                                            ELSE entered[s]]
           /\ direction' = [s \in Symbols |-> IF s \in members THEN SideOf(s) ELSE None]
           /\ joining' = members \ resolved
    /\ lastSide' = [s \in Symbols |-> IF s \in Ranked THEN quotes[s].side ELSE lastSide[s]]
    /\ UNCHANGED <<process, scanner, bias, resolved, preps, stocks, feedStocks, pinned,
                   spent, joined>>

\* A newcomer is resolved and its history fetched, which may fail: it is then
\* scored as incomplete, for as long as the process lives.
Prepare(s, outcome) ==
    /\ up /\ stage = "preparing" /\ s \in joining \ Unknown
    /\ joining' = joining \ {s}
    /\ resolved' = resolved \cup {s}
    /\ preps' = [preps EXCEPT ![s] = outcome]
    /\ spent' = spent + 1
    /\ UNCHANGED <<process, scanner, bias, stage, tickedAt, entered, direction, stocks,
                   feedStocks, pinned, history>>

CannotResolve(s) ==
    /\ up /\ stage = "preparing" /\ s \in joining \cap Unknown
    /\ joining' = joining \ {s}
    /\ UNCHANGED <<process, scanner, bias, stage, tickedAt, entered, direction, resolved,
                   preps, stocks, feedStocks, pinned, spent, history>>

\* The rest of run_tick: one candle call per index and followed stock, and
\* the new sentiment.
Score(b) ==
    /\ spent' = spent + Fixed + Cardinality(stocks')
    /\ bias' = b /\ stage' = "idle"
    /\ joined' = Cardinality(stocks' \ stocks)
    /\ UNCHANGED <<process, scanner, tickedAt, entered, direction, joining, resolved, preps,
                   pinned, lastSide>>

MutResized == Cardinality(Active) # Cardinality(stocks)     \* a swap goes unseen
Changed == Active # stocks

Followed == Active \cap resolved

\* feed.set_stocks, only in this branch.
Resubscribe(b) ==
    /\ up /\ stage = "preparing" /\ joining = {} /\ Changed
    /\ stocks' = Followed /\ feedStocks' = stocks'
    /\ Score(b)

KeepFollowing(b) ==
    /\ up /\ stage = "preparing" /\ joining = {} /\ ~Changed
    /\ stocks' = Followed /\ UNCHANGED feedStocks
    /\ Score(b)

------------------------------------------------------------------------------
(* The paper sessions.                                                     *)

\* on_minute, after the tick: entries on followed stocks.
Enter(s) ==
    /\ up /\ stage = "idle" /\ tickedAt = now /\ s \in stocks
    /\ pinned' = pinned \cup {s}
    /\ UNCHANGED <<process, scanner, bias, stage, tickedAt, follow, spent, history>>

\* The pump fills an exit at any moment.
Leave(s) ==
    /\ up /\ s \in pinned /\ s \in feedStocks
    /\ pinned' = pinned \ {s}
    /\ UNCHANGED <<process, scanner, bias, stage, tickedAt, follow, spent, history>>

------------------------------------------------------------------------------
Init ==
    /\ now = 0 /\ restarts = 0 /\ up = FALSE
    /\ known = [s \in Symbols |-> "absent"] /\ pool = {}
    /\ quotes = Nobody /\ wanted = {} /\ cycledAt = None
    /\ bias = "NEUTRAL" /\ stage = "idle" /\ tickedAt = None
    /\ entered = Nobody /\ direction = Nobody
    /\ joining = {} /\ resolved = {} /\ preps = [s \in Symbols |-> "none"]
    /\ stocks = {} /\ feedStocks = {}
    /\ pinned \in SUBSET Symbols        \* the positions of the run that is resumed
    /\ spent = 0 /\ joined = 0 /\ lastSide = Nobody

Next ==
    \/ \E failed \in SUBSET Symbols : Start(failed)
    \/ Crash
    \/ NextMinute
    \/ \E top \in SUBSET pool : Cycle(top)
    \/ \E s \in Symbols, side \in Sides \cup {None} : Quoted(s, side)
    \/ \E s \in Symbols : QuoteFails(s)
    \/ \E top \in SUBSET Symbols : BeginTick(top)
    \/ \E s \in Symbols, outcome \in {"ready", "failed"} : Prepare(s, outcome)
    \/ \E s \in Symbols : CannotResolve(s)
    \/ \E b \in Biases : Resubscribe(b)
    \/ \E b \in Biases : KeepFollowing(b)
    \/ \E s \in Symbols : Enter(s)
    \/ \E s \in Symbols : Leave(s)

Spec == Init /\ [][Next]_vars

------------------------------------------------------------------------------
(* Safety.                                                                 *)

Ticked == up /\ stage = "idle" /\ tickedAt # None

\* A stock with an open position is followed from the first tick on, over
\* restarts too: no ranking, budget or expired stay drops it.
HeldAreFollowed == Ticked => pinned \ Unknown \subseteq stocks

\* What is followed, what the feed streams and what is prepared agree, and a
\* stock is only scored after its preparation was tried.
FollowedAgree ==
    Ticked => /\ feedStocks = stocks
              /\ stocks = Active \ Unknown
              /\ \A s \in stocks : preps[s] # "none"

\* The scan leaves room for the worker's calls: a minute costs at most the
\* budget, or what the followed stocks alone cost, plus two calls for each
\* stock that joined within the minute, which no budget foresees.
SpentIsBounded ==
    LET own == BatchCalls + Fixed + Cardinality(stocks)
        base == IF own > ApiCalls THEN own ELSE ApiCalls
    IN  Ticked => spent <= base + 2 * joined

\* The cache of the day never holds "no history" for a stock that has some: a
\* failed fetch is tried again by the next start.
NeverPoisoned == \A s \in Symbols : known[s] = "empty" => s \in NoHistory

\* A stock that last qualified as a falling one is not in the research panel.
ShortsStayOut == Ticked => \A s \in Researched : lastSide[s] # "SHORT"

\* What a minute works on: no more than its budget and its newcomers cost, and
\* no falling stock among those that are researched.
PanelInv == SpentIsBounded /\ ShortsStayOut

(* Action properties.                                                      *)

\* A stock joins on a fresh quote on the market's side, or because it is held;
\* it leaves after its minimum stay and never while it is held.
MembershipChanges ==
    [][up /\ up' =>
        \A s \in Symbols :
            /\ s \notin Active /\ s \in Active' =>
                  \/ s \in pinned
                  \/ /\ now - quotes[s].at <= QuoteMaxAge
                     /\ quotes[s].side \in Directions(bias)
            /\ s \in Active /\ s \notin Active' =>
                  now - entered[s] >= MinStay /\ s \notin pinned]_vars

(* What the documentation says of the size of the universe does not hold:   *)
(* kept and pinned members come on top of the ranking's share.             *)

\* At most `capacity` stocks are followed.
WithinCapacity == Ticked => Cardinality(stocks) <= Capacity
==============================================================================
