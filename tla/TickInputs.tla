------------------------------ MODULE TickInputs ------------------------------
(***************************************************************************)
(* What a minute of the worker reads (run_tick and run_loop of             *)
(* app/worker.py), in its order: the universe may change, a few news are   *)
(* fetched, the bars of each followed stock are refreshed one after the    *)
(* other, then the paper session is given the new bars.  All of it takes   *)
(* time: the exchange goes on, and the next minute may come late.          *)
(*                                                                         *)
(* Bars and news do not touch each other.  They have sets of stocks of     *)
(* their own, so that one can be made small without the other.             *)
(***************************************************************************)
EXTENDS CandleCache, FiniteSets

CONSTANTS NewsStocks, NoAlias, Refresh, MaxAge, PerTick, MaxRestarts

ASSUME NewsAssumption ==
    /\ IsFiniteSet(NewsStocks) /\ NoAlias \subseteq NewsStocks
    /\ Refresh \in Nat /\ MaxAge \in Nat /\ MaxAge >= Refresh /\ PerTick \in Nat \ {0}
    /\ MaxRestarts \in Nat

VARIABLES
    stage,      \* of the minute: "wait", "news", "bars" or "paper"
    followed,   \* the stocks (and indices) of the minute
    left,       \* those still to be refreshed
    restarts,
    known, attempted, fetchedAt, waited     \* NewsService

News == INSTANCE NewsService WITH Stocks <- NewsStocks

vars == <<cvars, stage, followed, left, restarts, known, attempted, fetchedAt, waited>>

TypeOK ==
    /\ CacheTypeOK /\ News!NewsTypeOK
    /\ stage \in {"wait", "news", "bars", "paper"}
    /\ left \subseteq followed /\ followed \subseteq Stocks
    /\ restarts \in 0 .. MaxRestarts
    /\ fetching # None => stage = "bars" /\ fetching \in followed \ left
    /\ stage \in {"news", "bars", "paper"} => asOf # None

Init ==
    /\ CacheInit /\ News!NewsInit
    /\ stage = "wait" /\ followed = {} /\ left = {} /\ restarts = 0

------------------------------------------------------------------------------
BeginMinute(stocks, named) ==
    /\ stage = "wait" /\ stage' = "news"
    /\ NextMinute
    /\ followed' = stocks /\ left' = stocks
    /\ News!AddSymbols(named)
    /\ UNCHANGED restarts

FetchNews(some, ok) ==
    /\ stage = "news" /\ stage' = "bars"
    /\ News!Tick(asOf, some, ok)
    /\ UNCHANGED <<cvars, followed, left, restarts>>

RefreshBars(s) ==
    /\ stage = "bars" /\ s \in left /\ left' = left \ {s}
    /\ BeginFetch(s)
    /\ UNCHANGED <<stage, followed, restarts, known, attempted, fetchedAt, waited>>

Call ==
    /\ \/ AttemptSucceeds
       \/ \E how \in {"limited", "timeout", "refused"} : AttemptFails(how)
       \/ CallRaises
    /\ UNCHANGED <<stage, followed, left, restarts, known, attempted, fetchedAt, waited>>

BarsRefreshed ==
    /\ stage = "bars" /\ left = {} /\ fetching = None /\ stage' = "paper"
    /\ UNCHANGED <<cvars, followed, left, restarts, known, attempted, fetchedAt, waited>>

Paper ==
    /\ stage = "paper" /\ stage' = "wait"
    /\ OnMinute(followed)
    /\ UNCHANGED <<followed, left, restarts, known, attempted, fetchedAt, waited>>

Exchange ==
    /\ MinutePasses \/ \E s \in Stocks : Trade(s)
    /\ UNCHANGED <<stage, followed, left, restarts, known, attempted, fetchedAt, waited>>

Crash ==
    /\ restarts < MaxRestarts /\ restarts' = restarts + 1
    /\ Restart
    /\ stage' = "wait" /\ followed' = {} /\ left' = {}
    /\ known' = {} /\ waited' = [s \in NewsStocks |-> 0]
    /\ attempted' = [s \in NewsStocks |-> None] /\ fetchedAt' = [s \in NewsStocks |-> None]

Next ==
    \/ \E stocks \in SUBSET Stocks, named \in SUBSET NewsStocks : BeginMinute(stocks, named)
    \/ \E some \in SUBSET NewsStocks : \E ok \in SUBSET some : FetchNews(some, ok)
    \/ \E s \in Stocks : RefreshBars(s)
    \/ Call \/ BarsRefreshed \/ Paper \/ Exchange \/ Crash

Spec == Init /\ [][Next]_vars

------------------------------------------------------------------------------
(* Properties.                                                             *)

\* A complete bar is final, none is missing before one that is cached, and the
\* session is given every closed bar once (see CandleCache).
BarsInv == TypeOK /\ CompleteIsFinal /\ NoHoles /\ BarsTaken

\* The news of no stock starve, and a minute that has its news withholds none
\* without a reason (see NewsService).
NewsInv ==
    /\ News!TurnsAreTaken
    /\ stage \in {"bars", "paper"} => News!UnavailableIsExplained(asOf)
==============================================================================
