------------------------------ MODULE NewsService ------------------------------
(***************************************************************************)
(* The news of the stocks (qualitative/news_service.py): in each minute a  *)
(* few are fetched, those never tried first, then those tried longest ago, *)
(* each again once refresh_minutes have passed.  A failed fetch keeps what *)
(* there was until it is too old.  Stocks are added as the universe        *)
(* changes and never removed.                                              *)
(***************************************************************************)
EXTENDS Integers, FiniteSets

CONSTANTS
    None,
    Stocks,
    NoAlias,        \* stocks without a name to search for
    Refresh,        \* refresh_minutes
    MaxAge,         \* max_age_minutes
    PerTick         \* fetch_per_tick

VARIABLES
    known,      \* the stocks with aliases
    attempted,  \* last attempt of each
    fetchedAt,  \* last success of each
    waited      \* history: minutes in which a stock was due and left out

nvars == <<known, attempted, fetchedAt, waited>>

NewsTypeOK ==
    /\ known \subseteq Stocks \ NoAlias
    /\ attempted \in [Stocks -> Nat \cup {None}] /\ fetchedAt \in [Stocks -> Nat \cup {None}]
    /\ waited \in [Stocks -> Nat]
    /\ \A s \in Stocks : fetchedAt[s] # None =>
          s \in known /\ attempted[s] # None /\ fetchedAt[s] <= attempted[s]

WithNames(stocks) == stocks \ NoAlias

AddSymbols(stocks) ==
    /\ known' = known \cup WithNames(stocks)
    /\ UNCHANGED <<attempted, fetchedAt, waited>>

Due(now) == {s \in known : attempted[s] = None \/ now - attempted[s] >= Refresh}

\* s is sorted before r, or they may come in any order.
MutNotAfter(s, r) == attempted[s] # None        \* known ones first
NotAfter(s, r) ==
    attempted[s] # None => attempted[r] # None /\ attempted[s] <= attempted[r]

Served(now, some) ==
    /\ some \subseteq Due(now)
    /\ some = Due(now) \/ Cardinality(some) = PerTick
    /\ Cardinality(some) <= PerTick
    /\ \A s \in some, r \in Due(now) \ some : NotAfter(s, r)

\* The attempt is noted before the fetch, so that one that fails takes its
\* turn like the others.
AttemptedAfter(now, some, ok) ==
    [s \in Stocks |-> IF s \in some THEN now ELSE attempted[s]]

Tick(now, some, ok) ==
    /\ Served(now, some) /\ ok \subseteq some
    /\ attempted' = AttemptedAfter(now, some, ok)
    /\ fetchedAt' = [s \in Stocks |-> IF s \in ok THEN now ELSE fetchedAt[s]]
    /\ waited' = [s \in Stocks |-> IF s \in Due(now) \ some THEN waited[s] + 1 ELSE 0]
    /\ UNCHANGED known

\* NewsService.result; a checked result is aggregated from the cached items.
Result(s, now) ==
    IF s \notin known THEN "none"
    ELSE IF attempted[s] = None THEN "pending"
    ELSE IF fetchedAt[s] = None \/ now - fetchedAt[s] > MaxAge THEN "unavailable"
    ELSE "checked"

NewsInit ==
    /\ known = {}
    /\ attempted = [s \in Stocks |-> None] /\ fetchedAt = [s \in Stocks |-> None]
    /\ waited = [s \in Stocks |-> 0]

------------------------------------------------------------------------------
\* Nobody starves: a stock that is due waits at most until every other stock
\* has had one turn, newcomers and failing ones included.
TurnsAreTaken == \A s \in known : waited[s] * PerTick < Cardinality(known)

\* A result is withheld only for the reasons it gives: the last fetch failed,
\* or the next is pending.  (For MaxAge >= Refresh, after the tick of a minute.)
UnavailableIsExplained(now) ==
    \A s \in known :
        Result(s, now) = "unavailable" => fetchedAt[s] # attempted[s] \/ waited[s] > 0
==============================================================================
