---------------------------- MODULE Recommendation --------------------------
(***************************************************************************)
(* The recommendation engine (engine.py, scoring.py, groups.py, in_play.py,*)
(* liquidity.py, policy.py) inside the minute's run of the worker          *)
(* (worker.py:119-217): each stock of the universe is excluded or scored   *)
(* in both modes, and what was scored is ranked once all are done.         *)
(*                                                                         *)
(* A stock's evidence is a record of what the candles, the preparation and *)
(* the feed say about it; the signals are those SetupRules computes.       *)
(* Percentages and ratios are in hundredths, scores in hundredths of a     *)
(* point; None is a value nobody has.  Stocks are numbers: the order of    *)
(* the numbers is the alphabetical order of the symbols.                   *)
(***************************************************************************)
EXTENDS MarketViews, SetupRules

CONSTANTS
    Stocks,             \* the active universe
    Worlds,             \* what a minute may look like (see the variable world)
    \* strategy.yaml
    Weights,            \* group |-> weight; a group without one is not blended
    StatePoints,        \* state of a setup |-> points
    Bonus, MaxBonus,    \* independent setups |-> bonus
    LunchPenalty, LunchStart, LunchEnd,
    OpeningCapUntil, DayCapAfter, CloseCapAfter,
    Floors,             \* category |-> least score
    InPlayWeights, MinInPlay, MinRvol,
    Filters,            \* universe.yaml: bounds on price, volume, value, spread
    Policy              \* paper.yaml: what the recommendation strategy buys

ASSUME RankingAssumption ==
    /\ Stocks \subseteq Nat /\ IsFiniteSet(Stocks)
    /\ "setup" \in DOMAIN Weights /\ \A g \in DOMAIN Weights : Weights[g] \in Nat \ {0}
    /\ DOMAIN Floors = {"STRONG_CANDIDATE", "CANDIDATE", "WATCH", "NEUTRAL"}

VARIABLES
    world,      \* [as_of, nifty, bank, index: the sector's, stock: Stocks -> evidence]
    todo,       \* stocks still to be evaluated this minute, in order
    by_mode,    \* mode |-> the recommendations so far
    excluded,   \* [symbol, reason] of the stocks left out
    ranked      \* mode |-> the published list; None before it is written
runVars == <<world, todo, by_mode, excluded, ranked>>

------------------------------------------------------------------------------
(* Gates *)

DataQuality(e) ==
    IF e.age = None \/ ~e.prep THEN "INCOMPLETE"
    ELSE IF e.age > TooOldAfter THEN "STALE" ELSE "OK"

LiquidityFails(e, feed) ==
    LET spread == IF feed = None THEN None ELSE feed.spread
    IN  \/ e.price < Filters.min_price \/ e.price > Filters.max_price
        \/ e.liquidity.volume < Filters.min_volume \/ e.liquidity.value < Filters.min_value
        \/ IF spread = None THEN FALSE ELSE spread > Filters.max_spread

Liquid(e, feed) == e.liquidity # None /\ ~LiquidityFails(e, feed)

InPlayRamps ==
    [rvol |-> <<100, 300>>, gap |-> <<0, 300>>, atr |-> <<100, 400>>, range |-> <<30, 100>>,
     rs |-> <<0, 200>>]

\* A feature without data scores zero here, unlike a part of a group.
InPlayScore(e) ==
    LET points(k) == LET r == Ramp(e[k], InPlayRamps[k][1], InPlayRamps[k][2])
                     IN  IF r = None THEN 0 ELSE r
    IN  MapThenSumSet(LAMBDA k : InPlayWeights[k] * points(k), DOMAIN InPlayWeights)
            \div SumFunction(InPlayWeights)

IsInPlay(e) == IF e.rvol = None THEN FALSE ELSE e.rvol >= MinRvol /\ InPlayScore(e) >= MinInPlay

------------------------------------------------------------------------------
(* The setups of a mode *)

Family(name) ==
    CASE name \in {"ORB5", "ORB15", "PDH", "GAP_AND_GO", "NARROW_CPR"} -> "price_structure"
      [] name \in {"VWAP_RECLAIM", "VWAP_PULLBACK"} -> "vwap"
      [] OTHER -> name

\* The state of the first setup with the most points; FAILED when none has any
\* and one failed; None when there is nothing.
BestState(signals) ==
    LET points == [i \in DOMAIN signals |-> StatePoints[signals[i].state]]
        top == Max({0} \cup ToSet(points))
        failed == \E i \in DOMAIN signals : signals[i].state = "FAILED"
    IN  IF top = 0 THEN IF failed THEN "FAILED" ELSE None
        ELSE signals[Min({i \in DOMAIN signals : points[i] = top})].state

SetupScore(signals) == Max({0} \cup {StatePoints[s.state] : s \in ToSet(signals)})

Confluence(signals) ==
    LET families == {Family(s.name) : s \in {x \in ToSet(signals) : x.state \in Active}}
        earned == {Bonus[n] : n \in {m \in DOMAIN Bonus : Cardinality(families) >= m}}
    IN  Min({MaxBonus, Max({0} \cup earned)})

------------------------------------------------------------------------------
(* The eight groups *)

StructurePoints(e) ==
    CASE e.structure = "above_prev_high" -> 10000 [] e.structure = "above_range" -> 7000
      [] e.structure = "above_open" -> 3000 [] OTHER -> 0

PriceGroup(e) ==
    Average([change |-> Ramp(e.change, 0, 300), range |-> Ramp(e.range, 30, 100),
             position |-> Ramp(e.position, 50, 100), vwap |-> Ramp(e.vwap, 0, 100),
             structure |-> StructurePoints(e)])

VolumeGroup(e) == Average([rvol |-> Ramp(e.rvol, 100, 400), accel |-> Ramp(e.accel, 100, 300)])

\* m: short ROC and its change, share of the EMA checks that hold, RSI, ADX and
\* whether the close is above EMA20.  An overextended RSI counts half, a trend
\* that is not up counts nothing.
MomentumGroup(m, full) ==
    Average([roc |-> Ramp(m.roc, 0, full), accel |-> Ramp(m.accel, 0, full \div 2),
             ema |-> Ramp(m.ema, 0, 100),
             rsi |-> IF m.rsi = None THEN None
                     ELSE IF m.rsi > 8000 THEN 5000 ELSE Ramp(m.rsi, 5000, 7000),
             adx |-> IF m.adx = None THEN None
                     ELSE IF m.uptrend THEN Ramp(m.adx, 1500, 3500) ELSE 0])

SetupGroup(signals) == Min({10000, SetupScore(signals) + Confluence(signals)})

\* regime: the last NIFTY close against its EMA20, whether it is stale or not.
MarketGroup(e, w) ==
    Average([nifty |-> IndexScore(w.nifty),
             regime |-> IF w.nifty = None THEN None ELSE w.nifty.regime,
             bank |-> IF e.bank THEN IndexScore(w.bank) ELSE None])

SectorGroup(context) ==
    IF context.status # "available" THEN None
    ELSE Average([sector |-> context.score, stock |-> Ramp(context.stock_vs_sector, -50, 50)])

LiquidityGroup(e, feed, mode) ==
    LET spread == IF feed = None THEN None ELSE feed.spread
    IN  Average([score |-> e.liquidity.score,
                 spread |-> IF spread = None THEN None ELSE Ramp(-spread, -50, -5),
                 micro |-> IF feed # None /\ mode = "SCALP" THEN feed.micro ELSE None])

NewsGroup(e) ==
    CASE e.news = "POSITIVE" -> 10000 [] e.news = "NEGATIVE" -> 0 [] e.news = "MIXED" -> 4000
      [] e.news \in {"NEUTRAL", "NO_RELEVANT_INFORMATION"} -> 5000 [] OTHER -> None

\* Fresh changes of the universe's stocks: what sector_snapshot sees of them.
FreshChanges(w) ==
    [s \in {m \in Members \cap Stocks : w.stock[m].fetched /\ Fresh(w.stock[m].age)}
        |-> w.stock[s].since_open]

IndexChange(index) == IF IndexAvailable(index) THEN Change(index) ELSE None

ContextOf(s, w) ==
    StockContext(s, FreshChanges(w), w.stock[s].since_open, IndexChange(w.index),
                 IndexChange(w.nifty))

Groups(s, w, mode) ==
    LET e == w.stock[s]
    IN  [movement |-> PriceGroup(e), volume |-> VolumeGroup(e),
         momentum |-> MomentumGroup(e.momentum[mode], IF mode = "SCALP" THEN 100 ELSE 200),
         setup |-> SetupGroup(e.signals[mode]), market |-> MarketGroup(e, w),
         sector |-> SectorGroup(ContextOf(s, w)),
         liquidity |-> LiquidityGroup(e, FeedOf(e.feed), mode), news |-> NewsGroup(e)]

------------------------------------------------------------------------------
(* From groups to a rank *)

\* The setup group always has a value, so with a weight on it there is always
\* something to blend.
Blend(groups) ==
    LET used == {g \in DOMAIN Weights : groups[g] # None}
    IN  MapThenSumSet(LAMBDA g : Weights[g] * groups[g], used)
            \div SumFunctionOnSet(Weights, used)

AtLunch(t) == LunchPenalty > 0 /\ LunchStart <= t /\ t < LunchEnd

WatchCap == Floors["CANDIDATE"] - 1
NeutralCap == Floors["WATCH"] - 1

Caps(mode, t) ==
    (IF t < OpeningCapUntil THEN <<WatchCap>> ELSE <<>>)
        \o (IF mode = "DAY" /\ t >= DayCapAfter THEN <<WatchCap>> ELSE <<>>)
        \o (IF t >= CloseCapAfter THEN <<NeutralCap>> ELSE <<>>)

\* A score with the points its caps took.
CapScore(scored, limit) ==
    IF scored.score > limit
    THEN [score |-> limit, capped |-> scored.capped + limit - scored.score] ELSE scored

ApplyTimeRules(score, mode, t) ==
    FoldLeft(CapScore,
             [score |-> Clamp(score - (IF AtLunch(t) THEN LunchPenalty ELSE 0)), capped |-> 0],
             Caps(mode, t))

Categorize(score) ==
    LET met == {c \in DOMAIN Floors : score >= Floors[c]}
    IN  IF met = {} THEN "AVOID" ELSE CHOOSE c \in met : \A d \in met : Floors[d] <= Floors[c]

Recommend(s, w, mode) ==
    LET e == w.stock[s]
        scored == ApplyTimeRules(Blend(Groups(s, w, mode)), mode, w.as_of)
        best == BestState(e.signals[mode])
        category == Categorize(scored.score)
        avoided == best = "FAILED" \/ category = "AVOID"
    IN  [symbol |-> s, score |-> scored.score, capped |-> scored.capped,
         category |-> IF avoided THEN "AVOID" ELSE category, best_state |-> best,
         in_play |-> IsInPlay(e), eligible |-> ~avoided, rank |-> None]

\* The prerequisites shown with a stock that was scored, the news aside.
SectorStatus ==
    [CONFIRMED |-> "PASS", NEUTRAL |-> "WARN", WEAK |-> "FAIL", UNAVAILABLE |-> "NA"]

Technicals(best) ==
    CASE best \in Active -> "PASS" [] best = "EXTENDED" -> "WARN" [] OTHER -> "FAIL"

Checklist(s, w, mode) ==
    LET e == w.stock[s]
        feed == FeedOf(e.feed)
        spread == IF feed = None THEN None ELSE feed.spread
        market == IndexScore(w.nifty)
    IN  [technicals |-> Technicals(BestState(e.signals[mode])),
         in_play |-> IF IsInPlay(e) THEN "PASS" ELSE "FAIL",
         liquidity |-> IF spread = None THEN "WARN" ELSE "PASS",
         sector |-> SectorStatus[ContextOf(s, w).verdict],
         market |-> IF market = None THEN "NA" ELSE IF market >= 5000 THEN "PASS" ELSE "WARN"]

MutPreCap(r) == r.score             \* ties at a cap in alphabetical order
PreCap(r) == r.score - r.capped

Before(a, b) ==
    \/ a.score > b.score
    \/ a.score = b.score /\ PreCap(a) > PreCap(b)
    \/ a.score = b.score /\ PreCap(a) = PreCap(b) /\ a.symbol < b.symbol

RankRecommendations(recs) ==
    LET eligible == SetToSortSeq({r \in recs : r.eligible}, Before)
        avoid == SetToSortSeq({r \in recs : ~r.eligible}, Before)
    IN  [i \in DOMAIN eligible |-> [eligible[i] EXCEPT !.rank = i]] \o avoid

------------------------------------------------------------------------------
(* The minute's run *)

RunInit ==
    /\ world \in Worlds
    /\ todo = SetToSortSeq(Stocks, <)
    /\ by_mode = [mode \in Mode |-> {}] /\ excluded = {} /\ ranked = None

Exclude(s, reason) ==
    /\ excluded' = excluded \cup {[symbol |-> s, reason |-> reason]}
    /\ todo' = Tail(todo) /\ UNCHANGED <<world, by_mode, ranked>>

Current == Head(todo)
Evidence == world.stock[Current]
Raised == ~Evidence.fetched \/ Evidence.raises

\* Its candles could not be fetched, or its evaluation raises.
ExcludeError ==
    /\ todo # <<>> /\ Raised
    /\ Exclude(Current, "error during evaluation")

ExcludeData ==
    /\ todo # <<>> /\ ~Raised /\ DataQuality(Evidence) # "OK"
    /\ Exclude(Current, DataQuality(Evidence))

ExcludeIlliquid ==
    /\ todo # <<>> /\ ~Raised /\ DataQuality(Evidence) = "OK"
    /\ ~Liquid(Evidence, FeedOf(Evidence.feed))
    /\ Exclude(Current, "liquidity")

EvaluateSymbol ==
    /\ todo # <<>> /\ ~Raised /\ DataQuality(Evidence) = "OK"
    /\ Liquid(Evidence, FeedOf(Evidence.feed))
    /\ by_mode' = [mode \in Mode |-> by_mode[mode] \cup {Recommend(Current, world, mode)}]
    /\ todo' = Tail(todo) /\ UNCHANGED <<world, excluded, ranked>>

Publish ==
    /\ todo = <<>> /\ ranked = None
    /\ ranked' = [mode \in Mode |-> RankRecommendations(by_mode[mode])]
    /\ UNCHANGED <<world, todo, by_mode, excluded>>

RunNext == ExcludeError \/ ExcludeData \/ ExcludeIlliquid \/ EvaluateSymbol \/ Publish

------------------------------------------------------------------------------
(* What the recommendation strategy buys of a published list *)

CategoryRank ==
    [STRONG_CANDIDATE |-> 4, CANDIDATE |-> 3, WATCH |-> 2, NEUTRAL |-> 1, AVOID |-> 0]

\* open: symbols held or with an entry pending; traded: symbol |-> entries today.
Eligible(r, open, traded, at) ==
    /\ r.eligible /\ r.rank # None
    /\ r.rank <= Policy.max_rank
    /\ CategoryRank[r.category] >= CategoryRank[Policy.minimum_category]
    /\ r.score >= Policy.minimum_score
    /\ Policy.require_triggered => r.best_state = "TRIGGERED"
    /\ Policy.require_in_play => r.in_play
    /\ at <= Policy.no_entry_after
    /\ r.symbol \notin open
    /\ traded[r.symbol] < Policy.max_trades
    /\ Cardinality(open) < Policy.max_open

\* The symbols in use after the list was worked from the top.
InUseAfter(list, open, traded, at) ==
    FoldLeft(LAMBDA used, r : IF Eligible(r, used, traded, at) THEN used \cup {r.symbol}
                                                              ELSE used,
             open, list)

------------------------------------------------------------------------------
(* What the dashboard shows of a published list *)

Rankable == {"STRONG_CANDIDATE", "CANDIDATE", "WATCH", "NEUTRAL"}
DefaultCategories == Rankable \ {"NEUTRAL"}

Select(recs, categories, minimum, top_n) ==
    LET chosen == SelectSeq(recs, LAMBDA r : /\ r.eligible /\ r.category \in categories
                                            /\ r.score >= minimum)
    IN  SubSeq(SortSeq(chosen, LAMBDA a, b : a.rank < b.rank), 1, Min({top_n, Len(chosen)}))

AvoidedOf(recs) ==
    SortSeq(SelectSeq(recs, LAMBDA r : ~r.eligible),
            LAMBDA a, b : a.score > b.score \/ (a.score = b.score /\ a.symbol < b.symbol))

------------------------------------------------------------------------------

RecsOf(mode) == {r.symbol : r \in by_mode[mode]}
Excluded == {x.symbol : x \in excluded}

\* No stock is lost or counted twice on its way to the dashboard: it waits, or
\* it was excluded once, or it is in the lists of both modes; and a list has
\* the ranks 1, 2, ... before the stocks to avoid (worker.py:172-210).
EveryStockOnce ==
    /\ \A s \in Stocks :
           LET parts == <<ToSet(todo), Excluded, RecsOf("SCALP")>>
           IN  Quantify(DOMAIN parts, LAMBDA k : s \in parts[k]) = 1
    /\ Cardinality(excluded) = Cardinality(Excluded) /\ RecsOf("SCALP") = RecsOf("DAY")
    /\ ranked # None => \A mode \in Mode :
           LET list == ranked[mode]
           IN  /\ {list[i].symbol : i \in DOMAIN list} = RecsOf(mode)
               /\ \A i \in DOMAIN list : list[i].rank \in {i, None}
               /\ \A i \in DOMAIN list : list[i].rank = None => ~list[i].eligible
               /\ \A i, j \in DOMAIN list : i < j /\ list[i].rank = None => list[j].rank = None

\* The dashboard leaves nobody out: a stock of the run is in the whole table or
\* among those to avoid, never in both, and AVOID never enters the table, even if
\* asked for; what is bought was in the table a reader sees by default, at its
\* rank (view_model.py:60-72).
ShownInFull ==
    ranked # None => \A mode \in Mode :
        LET list == ranked[mode]
            symbols(recs) == {recs[i].symbol : i \in DOMAIN recs}
            table == Select(list, Rankable \cup {"AVOID"}, 0, Len(list))
            seen == Select(list, DefaultCategories, 0, Policy.max_rank)
        IN  /\ symbols(table) \cap symbols(AvoidedOf(list)) = {}
            /\ symbols(table \o AvoidedOf(list)) = RecsOf(mode)
            /\ \A i \in DOMAIN table : table[i].category # "AVOID"
            /\ \A s \in InUseAfter(list, {}, [t \in Stocks |-> 0], world.as_of) :
                   \E i \in DOMAIN seen : seen[i].symbol = s /\ seen[i].rank = i

\* What the evidence alone is worth, before any cap.
Worth(s, mode) ==
    Clamp(Blend(Groups(s, world, mode)) - (IF AtLunch(world.as_of) THEN LunchPenalty ELSE 0))

\* Every setup of a at least as far as b's, every other group at least b's.
AtLeast(a, b, mode) ==
    LET sa == world.stock[a].signals[mode]
        sb == world.stock[b].signals[mode]
        ga == Groups(a, world, mode)
        gb == Groups(b, world, mode)
    IN  /\ DOMAIN sa = DOMAIN sb
        /\ \A i \in DOMAIN sa :
               sa[i].name = sb[i].name /\ StatePoints[sa[i].state] >= StatePoints[sb[i].state]
        /\ \A g \in DOMAIN ga \ {"setup"} :
               IF ga[g] = None \/ gb[g] = None THEN ga[g] = gb[g] ELSE ga[g] >= gb[g]

\* The order of a list is the order of the evidence: caps, which make scores
\* equal, do not disturb it (engine.py:289-293), and better evidence of the
\* same kind is never worth less.
RankFollowsEvidence ==
    ranked # None => \A mode \in Mode :
        LET recs == ranked[mode]
            symbols == {recs[k].symbol : k \in DOMAIN recs}
        IN  \A worth \in {[s \in symbols |-> Worth(s, mode)]} : \A i, j \in DOMAIN recs :
                LET a == recs[i]
                    b == recs[j]
                IN  /\ i < j /\ a.rank # None /\ b.rank # None =>
                           \/ worth[a.symbol] > worth[b.symbol]
                           \/ worth[a.symbol] = worth[b.symbol] /\ a.symbol < b.symbol
                    /\ worth[a.symbol] < worth[b.symbol] => ~AtLeast(a.symbol, b.symbol, mode)

\* The time rules of the engine and the policy of the strategy agree: nothing
\* is bought in the first minutes, late in the session or near the close, for
\* the lists of those minutes have no candidate to offer (scoring.py:111-128,
\* policy.py:54-75), and never a stock whose setup failed.
NothingBoughtOutOfHours ==
    ranked # None => \A mode \in Mode :
        LET bought == InUseAfter(ranked[mode], {}, [s \in Stocks |-> 0], world.as_of)
        IN  /\ Caps(mode, world.as_of) # <<>> => bought = {}
            /\ \A s \in bought : BestState(world.stock[s].signals[mode]) = "TRIGGERED"
            /\ Cardinality(bought) <= Policy.max_open

\* A stock never confirms its own sector: its own move changes nothing in the
\* verdict and the score, and a peer that rises instead of falling never makes
\* the verdict worse (sector.py:5-8, 128-139).
SectorIsOthers ==
    LET level == [CONFIRMED |-> 3, NEUTRAL |-> 2, WEAK |-> 1, UNAVAILABLE |-> 0]
        seen(s, changes) == StockContext(s, changes, world.stock[s].since_open,
                                         IndexChange(world.index), IndexChange(world.nifty))
        fresh == FreshChanges(world)
        risen(m) == [fresh EXCEPT ![m] = 1 + (IF @ > 0 THEN @ ELSE -@)]
    IN  \A s \in Members, m \in DOMAIN fresh :
            IF m = s THEN seen(s, risen(m)) = seen(s, fresh)
            ELSE level[seen(s, risen(m)).verdict] >= level[seen(s, fresh).verdict]

\* The checklist of a stock in a list tells what its score was built from: no
\* technicals exactly where no setup counts, no sector exactly where the group has
\* no value, and what is bought was shown with its technicals passed
\* (prerequisites.py:26-54, engine.py:242-259).
ChecklistTellsScore ==
    ranked # None => \A mode \in Mode : \A s \in RecsOf(mode) :
        LET checks == Checklist(s, world, mode)
            groups == Groups(s, world, mode)
        IN  /\ checks.technicals = "FAIL" <=> SetupScore(world.stock[s].signals[mode]) = 0
            /\ checks.sector = "NA" <=> groups.sector = None
            /\ s \in InUseAfter(ranked[mode], {}, [t \in Stocks |-> 0], world.as_of) =>
                   checks.technicals = "PASS"

\* Bulls and bears are treated alike: the market upside down gives the opposite
\* bias, and there is a side to trade only if no index leans the other way
\* (sentiment.py:8-19, 96-102).
BiasIsFair ==
    LET scores(sign) == [n \in {m \in {"nifty", "bank"} : world[m] # None} |->
                            sign * VotesOf(world[n])]
        bias == MarketSentiment([nifty |-> world.nifty, bank |-> world.bank])
        opposite == [BULLISH |-> "BEARISH", BEARISH |-> "BULLISH", NEUTRAL |-> "NEUTRAL"]
        side == TradeDirection(bias)
    IN  /\ Bias(scores(-1)) = opposite[bias]
        /\ side # None => /\ Directions(bias) = {side}
                          /\ \A n \in DOMAIN scores(1) :
                                 IF side = "LONG" THEN scores(1)[n] > 0 ELSE scores(1)[n] < 0
=============================================================================
