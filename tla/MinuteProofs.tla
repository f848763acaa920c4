----------------------------- MODULE MinuteProofs -----------------------------
(***************************************************************************)
(* Theorems about a minute of the worker.                                  *)
(*                                                                         *)
(* What it reads, for any stocks, any length of the day, any number of     *)
(* trades, attempts and restarts: the bars of the cache's file are those   *)
(* of the exchange, without a hole, the session is given each closed bar   *)
(* once; and the news of no stock starve.                                  *)
(*                                                                         *)
(* "Complete is final" and "no holes" are not inductive: whether the next  *)
(* answer closes a hole depends on the bar it is asked from, the last one  *)
(* of the file.  The invariant says what the file knows below its last     *)
(* bar: every bar of the exchange, exact, and complete up to some minute.  *)
(*                                                                         *)
(* What its loop does, for any number of sessions, positions and lives     *)
(* and any length of the day: whatever raises, no bar is lost without      *)
(* being told, and no session stays invested past its square-off without   *)
(* being told.                                                             *)
(*                                                                         *)
(* "Flat or told" of the minute does not survive on its own: the sessions  *)
(* come one after the other, and ticks fill orders in between.  The        *)
(* invariant says which sessions have had their turn, and that nothing     *)
(* fills in a session once it is squared off.                              *)
(***************************************************************************)
EXTENDS MinuteChecks, Integers, FiniteSetTheorems, WellFoundedInduction, TLAPS

------------------------------------------------------------------------------
(* The bars and the news.                                                  *)

\* The minute in hand is not ahead of the clock.
ClockAhead == asOf # None => asOf <= clock

\* The bars of the file: none of the future, and a complete one is final; below
\* another bar they are exact, complete if that one is, and all there are.
FileSound(s) ==
    /\ \A m \in Cached(s) :
        /\ m <= clock /\ (asOf # None => m <= asOf)
        /\ file[s][m].trades <= trades[s][m]
        /\ file[s][m].complete =>
               m < clock /\ (asOf # None => m < asOf) /\ file[s][m].trades = trades[s][m]
    /\ \A m, n \in Cached(s) : m < n =>
        file[s][m].trades = trades[s][m] /\ (file[s][n].complete => file[s][m].complete)
    /\ \A n \in Cached(s), m \in Minutes : m < n /\ trades[s][m] > 0 => m \in Cached(s)

\* A refresh of this minute has found every bar that had closed.
RefreshSound(s) ==
    /\ fetched[s] # None => asOf # None /\ fetched[s] <= asOf
    /\ asOf # None /\ fetched[s] = asOf =>
        \A m \in Minutes : m < asOf /\ trades[s][m] > 0 => m \in Cached(s) /\ file[s][m].complete

\* What the session was given are the bars up to the last one, each once and exact.
TakenSound(s) ==
    /\ seen[s] # None => asOf # None /\ seen[s] < asOf
    /\ \A m \in Minutes :
        /\ taken[s][m].times \in {0, 1}
        /\ taken[s][m].times = 1 =>
               seen[s] # None /\ m <= seen[s] /\ taken[s][m].trades = trades[s][m]
        /\ seen[s] # None /\ m <= seen[s] /\ trades[s][m] > 0 => taken[s][m].times = 1

\* News were not attempted after the minute in hand.
AttemptsPast ==
    \A s \in NewsStocks : attempted[s] # None => asOf # None /\ attempted[s] <= asOf

BarsSound == \A s \in Stocks : FileSound(s) /\ RefreshSound(s) /\ TakenSound(s)

IInv == TypeOK /\ ClockAhead /\ AttemptsPast /\ BarsSound

------------------------------------------------------------------------------
LEMMA Constants ==
    /\ LastMinute \in Nat /\ MaxTrades \in Nat /\ MaxAttempts \in Nat \ {0} /\ None \notin Nat
    /\ IsFiniteSet(NewsStocks) /\ Refresh \in Nat /\ MaxAge \in Nat /\ MaxAge >= Refresh
    /\ PerTick \in Nat \ {0} /\ MaxRestarts \in Nat
    /\ 0 \in Minutes /\ Minutes \subseteq Nat /\ None \notin Minutes
BY CacheAssumption, NewsAssumption DEF Minutes

\* A set of naturals that is not empty has a least element.
LEMMA LeastNat ==
    ASSUME NEW T \in SUBSET Nat, T # {}
    PROVE  \E x \in T : \A y \in T : x <= y
<1> DEFINE R == OpToRel(<, Nat)
<1>1. IsWellFoundedOn(R, Nat)
    BY NatLessThanWellFounded
<1>2. \A x, y \in Nat : <<x, y>> \in R <=> x < y
    BY DEF OpToRel
<1>3. T \subseteq Nat
    OBVIOUS
<1> HIDE DEF R
<1>4. PICK x \in T : \A y \in T : <<y, x>> \notin R
    BY <1>1, <1>3, WFMin
<1>5. ASSUME NEW y \in T PROVE x <= y
    <2>1. x \in Nat /\ y \in Nat /\ <<y, x>> \notin R
        BY <1>3, <1>4
    <2>2. ~(y < x)
        BY <1>2, <2>1
    <2> QED BY <2>1, <2>2
<1> QED BY <1>5

\* Of some minutes of the day one is the last.
LEMMA LastOfMinutes ==
    ASSUME NEW T \in SUBSET Minutes, T # {}
    PROVE  \E m \in T : \A n \in T : n <= m
<1> DEFINE U == {LastMinute - m : m \in T}
<1>1. U \in SUBSET Nat /\ U # {}
    <2>1. \A m \in T : LastMinute - m \in Nat
        BY Constants DEF Minutes
    <2> QED BY <2>1
<1> HIDE DEF U
<1>2. PICK x \in U : \A y \in U : x <= y
    BY <1>1, LeastNat
<1> USE DEF U
<1>3. PICK m \in T : x = LastMinute - m
    BY <1>2
<1>4. ASSUME NEW n \in T PROVE n <= m
    <2>1. LastMinute - m <= LastMinute - n
        BY <1>2, <1>3
    <2>2. m \in Nat /\ n \in Nat /\ LastMinute \in Nat
        BY Constants
    <2> QED BY <2>1, <2>2
<1> QED BY <1>4

\* The bars are asked for from the last cached one on.
LEMMA FirstIsLast ==
    ASSUME NEW s \in Stocks
    PROVE  /\ Cached(s) = {} => FirstWanted(s) = 0
           /\ Cached(s) # {} => FirstWanted(s) \in Cached(s) /\ \A n \in Cached(s) : n <= FirstWanted(s)
           /\ FirstWanted(s) \in Minutes
<1>1. CASE Cached(s) = {}
    BY <1>1, Constants DEF FirstWanted
<1>2. CASE Cached(s) # {}
    <2>1. Cached(s) \in SUBSET Minutes
        BY DEF Cached
    <2>2. \E m \in Cached(s) : \A n \in Cached(s) : n <= m
        BY <1>2, <2>1, LastOfMinutes
    <2> QED BY <1>2, <2>1, <2>2 DEF FirstWanted
<1> QED BY <1>1, <1>2

\* The last bar a session has seen is the last of those it was given, if any.
LEMMA SeenIsLast ==
    ASSUME NEW s \in Stocks
    PROVE  /\ Unseen(s) = {} => SeenAfter(s) = seen[s]
           /\ Unseen(s) # {} => SeenAfter(s) \in Unseen(s) /\ \A n \in Unseen(s) : n <= SeenAfter(s)
<1>1. CASE Unseen(s) = {}
    BY <1>1 DEF SeenAfter
<1>2. CASE Unseen(s) # {}
    <2>1. Unseen(s) \in SUBSET Minutes
        BY DEF Unseen, Cached
    <2>2. \E m \in Unseen(s) : \A n \in Unseen(s) : n <= m
        BY <1>2, <2>1, LastOfMinutes
    <2> QED BY <1>2, <2>2 DEF SeenAfter
<1> QED BY <1>1, <1>2

------------------------------------------------------------------------------
(* Types.                                                                  *)

StageOK ==
    /\ stage \in {"wait", "news", "bars", "paper"}
    /\ left \subseteq followed /\ followed \subseteq Stocks
    /\ restarts \in 0 .. MaxRestarts
    /\ fetching # None => stage = "bars" /\ fetching \in followed \ left
    /\ stage \in {"news", "bars", "paper"} => asOf # None

LEMMA TypeParts == TypeOK <=> CacheTypeOK /\ News!NewsTypeOK /\ StageOK
BY DEF TypeOK, StageOK

LEMMA InitIInv == Init => IInv
<1> SUFFICES ASSUME Init PROVE IInv
    OBVIOUS
<1> USE Constants DEF Init, CacheInit, News!NewsInit
<1>1. CacheTypeOK
    <2>1. NoBars \in [Minutes -> CachedBar \cup {None}]
        BY DEF NoBars
    <2>2. [m \in Minutes |-> NotTaken] \in [Minutes -> [times : Nat, trades : 0 .. MaxTrades]]
        BY DEF NotTaken
    <2>3. [m \in Minutes |-> 0] \in [Minutes -> 0 .. MaxTrades]
        OBVIOUS
    <2>4. attempts \in 0 .. MaxAttempts /\ clock \in Minutes
        OBVIOUS
    <2>5. /\ trades \in [Stocks -> [Minutes -> 0 .. MaxTrades]]
          /\ file \in [Stocks -> [Minutes -> CachedBar \cup {None}]]
          /\ taken \in [Stocks -> [Minutes -> [times : Nat, trades : 0 .. MaxTrades]]]
        BY <2>1, <2>2, <2>3
    <2>6. fetched \in [Stocks -> Minutes \cup {None}] /\ seen \in [Stocks -> Minutes \cup {None}]
        OBVIOUS
    <2> QED BY <2>4, <2>5, <2>6 DEF CacheTypeOK
<1>2. News!NewsTypeOK
    BY DEF News!NewsTypeOK
<1>3. StageOK
    BY DEF StageOK
<1>4. ClockAhead /\ AttemptsPast
    BY DEF ClockAhead, AttemptsPast
<1>5. BarsSound
    <2> SUFFICES ASSUME NEW s \in Stocks PROVE FileSound(s) /\ RefreshSound(s) /\ TakenSound(s)
        BY DEF BarsSound
    <2>1. Cached(s) = {}
        BY DEF Cached, NoBars
    <2> QED BY <2>1 DEF FileSound, RefreshSound, TakenSound, NotTaken
<1> QED BY <1>1, <1>2, <1>3, <1>4, <1>5, TypeParts DEF IInv

\* The bars that an answer is merged with are bars.
LEMMA MergedType ==
    ASSUME CacheTypeOK, NEW s \in Stocks, asOf # None
    PROVE  Merged(s) \in [Minutes -> CachedBar \cup {None}]
<1>1. trades[s] \in [Minutes -> 0 .. MaxTrades] /\ file[s] \in [Minutes -> CachedBar \cup {None}]
    BY DEF CacheTypeOK
<1>2. \A m \in Minutes : Closed(m) \in BOOLEAN
    BY DEF Closed
<1>3. \A m \in Minutes : m \in Answer(s) =>
          [trades |-> trades[s][m], complete |-> Closed(m)] \in CachedBar
    BY <1>1, <1>2, Constants DEF Answer, CachedBar
<1>4. \A m \in Minutes : file[s][m] # None =>
          [file[s][m] EXCEPT !.complete = Closed(m)] \in CachedBar
    BY <1>1, <1>2 DEF CachedBar
<1> QED BY <1>3, <1>4 DEF Merged

LEMMA StepCacheType == IInv /\ [Next]_vars => CacheTypeOK'
<1> SUFFICES ASSUME IInv, [Next]_vars PROVE CacheTypeOK'
    OBVIOUS
<1>0. CacheTypeOK /\ StageOK
    BY TypeParts DEF IInv
<1> USE Constants
<1>1. CASE \E s \in Stocks : Trade(s)
    <2> PICK s \in Stocks : Trade(s)
        BY <1>1
    <2>1. trades[s] \in [Minutes -> 0 .. MaxTrades] /\ clock \in Minutes
        BY <1>0 DEF CacheTypeOK
    <2>2. trades[s][clock] + 1 \in 0 .. MaxTrades
        BY <2>1 DEF Trade
    <2>3. [trades[s] EXCEPT ![clock] = @ + 1] \in [Minutes -> 0 .. MaxTrades]
        BY <2>1, <2>2
    <2>4. trades' = [trades EXCEPT ![s] = [trades[s] EXCEPT ![clock] = @ + 1]]
        BY DEF Trade
    <2>5. trades' \in [Stocks -> [Minutes -> 0 .. MaxTrades]]
        BY <1>0, <2>3, <2>4 DEF CacheTypeOK
    <2> QED BY <1>0, <2>5 DEF CacheTypeOK, Trade
<1>2. CASE MinutePasses
    <2>1. clock' \in Minutes
        BY <1>0, <1>2 DEF CacheTypeOK, Minutes, MinutePasses
    <2> QED BY <1>0, <1>2, <2>1 DEF CacheTypeOK, MinutePasses
<1>3. CASE NextMinute
    BY <1>0, <1>3 DEF CacheTypeOK, NextMinute
<1>4. CASE \E s \in Stocks : BeginFetch(s)
    BY <1>0, <1>4 DEF CacheTypeOK, BeginFetch
<1>5. CASE AttemptSucceeds
    <2>1. fetching \in Stocks /\ asOf # None /\ asOf \in Minutes
        BY <1>0, <1>5 DEF CacheTypeOK, StageOK, AttemptSucceeds
    <2>2. Merged(fetching) \in [Minutes -> CachedBar \cup {None}]
        BY <1>0, <2>1, MergedType
    <2>3. file' \in [Stocks -> [Minutes -> CachedBar \cup {None}]]
        BY <1>0, <1>5, <2>2 DEF CacheTypeOK, AttemptSucceeds
    <2>4. fetched' \in [Stocks -> Minutes \cup {None}]
        BY <1>0, <1>5, <2>1 DEF CacheTypeOK, AttemptSucceeds
    <2> QED BY <1>0, <1>5, <2>3, <2>4 DEF CacheTypeOK, AttemptSucceeds
<1>6. CASE \E how \in {"limited", "timeout", "refused"} : AttemptFails(how)
    <2>1. attempts' \in 0 .. MaxAttempts
        BY <1>0, <1>6 DEF CacheTypeOK, AttemptFails, MayTry
    <2> QED BY <1>0, <1>6, <2>1 DEF CacheTypeOK, AttemptFails
<1>7. CASE CallRaises
    BY <1>0, <1>7 DEF CacheTypeOK, CallRaises
<1>8. CASE OnMinute(followed)
    <2>1. \A s \in Stocks : SeenAfter(s) \in Minutes \cup {None}
        BY <1>0, SeenIsLast DEF CacheTypeOK, Unseen, Cached
    <2>2. seen' \in [Stocks -> Minutes \cup {None}]
        BY <1>0, <1>8, <2>1 DEF CacheTypeOK, OnMinute
    <2>3. \A s \in Stocks, m \in Minutes : m \in Unseen(s) =>
              [times |-> taken[s][m].times + 1, trades |-> file[s][m].trades]
                  \in [times : Nat, trades : 0 .. MaxTrades]
        <3> SUFFICES ASSUME NEW s \in Stocks, NEW m \in Unseen(s)
                     PROVE  taken[s][m].times + 1 \in Nat /\ file[s][m].trades \in 0 .. MaxTrades
            OBVIOUS
        <3>1. m \in Minutes /\ file[s][m] \in CachedBar
            BY <1>0 DEF CacheTypeOK, Unseen, Cached
        <3>2. taken[s][m] \in [times : Nat, trades : 0 .. MaxTrades]
            BY <1>0, <3>1 DEF CacheTypeOK
        <3> QED BY <3>1, <3>2 DEF CachedBar
    <2>4. taken' \in [Stocks -> [Minutes -> [times : Nat, trades : 0 .. MaxTrades]]]
        BY <1>0, <1>8, <2>3 DEF CacheTypeOK, OnMinute
    <2> QED BY <1>0, <1>8, <2>2, <2>4 DEF CacheTypeOK, OnMinute
<1>9. CASE Restart
    <2>1. [m \in Minutes |-> NotTaken] \in [Minutes -> [times : Nat, trades : 0 .. MaxTrades]]
        BY DEF NotTaken
    <2>2. taken' \in [Stocks -> [Minutes -> [times : Nat, trades : 0 .. MaxTrades]]]
        BY <1>9, <2>1 DEF Restart
    <2> QED BY <1>0, <1>9, <2>2 DEF CacheTypeOK, Restart
<1>10. CASE UNCHANGED cvars
    BY <1>0, <1>10 DEF CacheTypeOK, cvars
<1> QED
    BY <1>1, <1>2, <1>3, <1>4, <1>5, <1>6, <1>7, <1>8, <1>9, <1>10
       DEF Next, BeginMinute, FetchNews, RefreshBars, Call, BarsRefreshed, Paper, Exchange, Crash, vars

LEMMA StepStage == IInv /\ [Next]_vars => StageOK'
<1> SUFFICES ASSUME IInv, [Next]_vars PROVE StageOK'
    OBVIOUS
<1>0. StageOK /\ CacheTypeOK
    BY TypeParts DEF IInv
<1> USE Constants
<1>1. CASE \E stocks \in SUBSET Stocks, named \in SUBSET NewsStocks : BeginMinute(stocks, named)
    <2>1. asOf' # None /\ fetching' = None
        BY <1>0, <1>1 DEF BeginMinute, NextMinute, CacheTypeOK
    <2> QED BY <1>0, <1>1, <2>1 DEF StageOK, BeginMinute
<1>2. CASE \E some \in SUBSET NewsStocks : \E ok \in SUBSET some : FetchNews(some, ok)
    BY <1>0, <1>2 DEF StageOK, FetchNews, cvars
<1>3. CASE \E s \in Stocks : RefreshBars(s)
    BY <1>0, <1>3 DEF StageOK, RefreshBars, BeginFetch
<1>4. CASE Call
    <2>1. UNCHANGED <<stage, followed, left, restarts, asOf>> /\ fetching' \in {fetching, None}
        BY <1>4 DEF Call, AttemptSucceeds, AttemptFails, CallRaises
    <2> QED BY <1>0, <2>1 DEF StageOK
<1>5. CASE BarsRefreshed
    BY <1>0, <1>5 DEF StageOK, BarsRefreshed, cvars
<1>6. CASE Paper
    BY <1>0, <1>6 DEF StageOK, Paper, OnMinute
<1>7. CASE Exchange
    BY <1>0, <1>7 DEF StageOK, Exchange, MinutePasses, Trade
<1>8. CASE Crash
    BY <1>0, <1>8 DEF StageOK, Crash, Restart
<1>9. CASE UNCHANGED vars
    BY <1>0, <1>9 DEF StageOK, vars, cvars
<1> QED BY <1>1, <1>2, <1>3, <1>4, <1>5, <1>6, <1>7, <1>8, <1>9 DEF Next

\* The news keep their types, and are never attempted ahead of the minute.
LEMMA StepNewsType == IInv /\ [Next]_vars => (News!NewsTypeOK /\ AttemptsPast)'
<1> SUFFICES ASSUME IInv, [Next]_vars PROVE News!NewsTypeOK' /\ AttemptsPast'
    OBVIOUS
<1>0. News!NewsTypeOK /\ CacheTypeOK /\ StageOK /\ AttemptsPast /\ ClockAhead
    BY TypeParts DEF IInv
<1> USE Constants
<1>1. CASE \E stocks \in SUBSET Stocks, named \in SUBSET NewsStocks : BeginMinute(stocks, named)
    <2>1. asOf' = clock /\ asOf' \in Nat /\ (asOf # None => asOf <= asOf' /\ asOf \in Nat)
        BY <1>0, <1>1 DEF BeginMinute, NextMinute, CacheTypeOK, ClockAhead
    <2>2. News!NewsTypeOK'
        BY <1>0, <1>1 DEF BeginMinute, News!AddSymbols, News!WithNames, News!NewsTypeOK
    <2>3. AttemptsPast'
        BY <1>0, <1>1, <2>1 DEF BeginMinute, News!AddSymbols, AttemptsPast, News!NewsTypeOK
    <2> QED BY <2>2, <2>3
<1>2. CASE \E some \in SUBSET NewsStocks : \E ok \in SUBSET some : FetchNews(some, ok)
    <2> PICK some \in SUBSET NewsStocks : \E ok \in SUBSET some : FetchNews(some, ok)
        BY <1>2
    <2> PICK ok \in SUBSET some : FetchNews(some, ok)
        OBVIOUS
    <2>1. asOf \in Nat /\ asOf' = asOf
        BY <1>0 DEF FetchNews, StageOK, CacheTypeOK, cvars
    <2>2. /\ ok \subseteq some /\ some \subseteq known /\ known' = known
          /\ attempted' = [s \in NewsStocks |-> IF s \in some THEN asOf ELSE attempted[s]]
          /\ fetchedAt' = [s \in NewsStocks |-> IF s \in ok THEN asOf ELSE fetchedAt[s]]
          /\ waited' = [s \in NewsStocks |->
                            IF s \in News!Due(asOf) \ some THEN waited[s] + 1 ELSE 0]
        BY DEF FetchNews, News!Tick, News!Served, News!Due, News!AttemptedAfter
    <2>3. waited' \in [NewsStocks -> Nat]
        BY <1>0, <2>2 DEF News!NewsTypeOK
    <2>4. /\ attempted' \in [NewsStocks -> Nat \cup {None}]
          /\ fetchedAt' \in [NewsStocks -> Nat \cup {None}]
        BY <1>0, <2>1, <2>2 DEF News!NewsTypeOK
    <2>5. \A s \in NewsStocks : fetchedAt'[s] # None =>
              s \in known' /\ attempted'[s] # None /\ fetchedAt'[s] <= attempted'[s]
        BY <1>0, <2>1, <2>2 DEF News!NewsTypeOK, AttemptsPast
    <2>6. News!NewsTypeOK'
        BY <1>0, <2>2, <2>3, <2>4, <2>5 DEF News!NewsTypeOK
    <2>7. AttemptsPast'
        BY <1>0, <2>1, <2>2 DEF AttemptsPast
    <2> QED BY <2>6, <2>7
<1>3. CASE Crash
    BY <1>0, <1>3 DEF Crash, Restart, News!NewsTypeOK, AttemptsPast
<1>4. CASE UNCHANGED <<known, attempted, fetchedAt, waited, asOf>>
    BY <1>0, <1>4 DEF News!NewsTypeOK, AttemptsPast
<1> QED
    BY <1>1, <1>2, <1>3, <1>4
       DEF Next, RefreshBars, BeginFetch, Call, AttemptSucceeds, AttemptFails, CallRaises,
           BarsRefreshed, Paper, OnMinute, Exchange, MinutePasses, Trade, vars, cvars

LEMMA StepClock == IInv /\ [Next]_vars => ClockAhead'
<1> SUFFICES ASSUME IInv, [Next]_vars PROVE ClockAhead'
    OBVIOUS
<1>0. ClockAhead /\ CacheTypeOK
    BY TypeParts DEF IInv
<1> USE Constants
<1>1. CASE NextMinute
    BY <1>0, <1>1 DEF NextMinute, ClockAhead, CacheTypeOK
<1>2. CASE MinutePasses
    BY <1>0, <1>2 DEF MinutePasses, ClockAhead, CacheTypeOK
<1>3. CASE Restart
    BY <1>3 DEF Restart, ClockAhead
<1>4. CASE UNCHANGED <<clock, asOf>>
    BY <1>0, <1>4 DEF ClockAhead
<1> QED
    BY <1>1, <1>2, <1>3, <1>4
       DEF Next, BeginMinute, FetchNews, RefreshBars, BeginFetch, Call, AttemptSucceeds,
           AttemptFails, CallRaises, BarsRefreshed, Paper, OnMinute, Exchange, Trade, Crash, vars,
           cvars

------------------------------------------------------------------------------
(* The bars.                                                               *)

\* One stock's bars, with the types its proofs use.
Numbers(s) ==
    /\ clock \in Nat /\ (asOf # None => asOf \in Nat /\ asOf <= clock)
    /\ \A m \in Minutes : m \in Nat /\ trades[s][m] \in Nat
    /\ Cached(s) \subseteq Minutes /\ \A m \in Cached(s) : file[s][m].trades \in Nat
    /\ (fetched[s] # None => fetched[s] \in Nat) /\ (seen[s] # None => seen[s] \in Nat)

LEMMA BarTypes ==
    ASSUME IInv, NEW s \in Stocks
    PROVE  FileSound(s) /\ RefreshSound(s) /\ TakenSound(s) /\ Numbers(s)
<1>1. FileSound(s) /\ RefreshSound(s) /\ TakenSound(s)
    BY DEF IInv, BarsSound
<1>2. CacheTypeOK /\ ClockAhead
    BY TypeParts DEF IInv
<1>3. /\ clock \in Minutes /\ asOf \in Minutes \cup {None}
      /\ trades[s] \in [Minutes -> 0 .. MaxTrades]
      /\ file[s] \in [Minutes -> CachedBar \cup {None}]
      /\ fetched[s] \in Minutes \cup {None} /\ seen[s] \in Minutes \cup {None}
    BY <1>2 DEF CacheTypeOK
<1>4. \A m \in Minutes : m \in Nat /\ trades[s][m] \in Nat
    BY <1>3, Constants
<1>5. \A m \in Cached(s) : file[s][m].trades \in Nat
    BY <1>3, Constants DEF Cached, CachedBar
<1>6. clock \in Nat /\ (asOf # None => asOf \in Nat /\ asOf <= clock)
    BY <1>2, <1>3, Constants DEF ClockAhead
<1>7. (fetched[s] # None => fetched[s] \in Nat) /\ (seen[s] # None => seen[s] \in Nat)
    BY <1>3, Constants
<1> QED BY <1>1, <1>4, <1>5, <1>6, <1>7 DEF Numbers, Cached

\* A trade is one of the running minute, which no exact bar is about.
LEMMA TradeKeeps ==
    ASSUME IInv, NEW s \in Stocks, NEW r \in Stocks, Trade(r)
    PROVE  FileSound(s)' /\ RefreshSound(s)' /\ TakenSound(s)'
<1>0. FileSound(s) /\ RefreshSound(s) /\ TakenSound(s) /\ Numbers(s)
    BY BarTypes
<1>1. /\ UNCHANGED <<clock, asOf, file, fetched, seen, taken>> /\ Cached(s)' = Cached(s)
    BY DEF Trade, Cached
<1>2. /\ trades[s] \in [Minutes -> 0 .. MaxTrades] /\ clock \in Minutes
      /\ trades \in [Stocks -> [Minutes -> 0 .. MaxTrades]]
    BY DEF IInv, TypeOK, CacheTypeOK
<1>3. \A m \in Minutes : m # clock => trades'[s][m] = trades[s][m]
    BY <1>2 DEF Trade
<1>4. \A m \in Minutes : trades'[s][m] \in Nat /\ trades[s][m] <= trades'[s][m]
    BY <1>0, <1>2, Constants DEF Trade, Numbers
<1>5. FileSound(s)'
    BY <1>0, <1>1, <1>3, <1>4 DEF FileSound, Numbers
<1>6. RefreshSound(s)'
    BY <1>0, <1>1, <1>3 DEF RefreshSound, Numbers
<1>7. TakenSound(s)'
    BY <1>0, <1>1, <1>3 DEF TakenSound, Numbers
<1> QED BY <1>5, <1>6, <1>7

\* Time passes at the exchange and for the worker.
LEMMA TimeKeeps ==
    ASSUME IInv, NEW s \in Stocks, MinutePasses \/ NextMinute
    PROVE  FileSound(s)' /\ RefreshSound(s)' /\ TakenSound(s)'
<1>0. FileSound(s) /\ RefreshSound(s) /\ TakenSound(s) /\ Numbers(s)
    BY BarTypes
<1>1. /\ UNCHANGED <<trades, file, fetched, seen, taken>> /\ Cached(s)' = Cached(s)
    BY DEF MinutePasses, NextMinute, Cached
<1>2. CASE MinutePasses
    <2>1. clock' = clock + 1 /\ asOf' = asOf
        BY <1>2 DEF MinutePasses
    <2>2. FileSound(s)'
        BY <1>0, <1>1, <2>1 DEF FileSound, Numbers
    <2> QED BY <1>0, <1>1, <2>1, <2>2 DEF RefreshSound, TakenSound
<1>3. CASE NextMinute
    <2>1. clock' = clock /\ asOf' = clock /\ asOf # clock /\ asOf' # None
        BY <1>0, <1>3, Constants DEF NextMinute, Numbers
    <2>2. FileSound(s)'
        BY <1>0, <1>1, <2>1 DEF FileSound, Numbers
    <2>3. fetched[s] # None => fetched[s] < clock
        BY <1>0, <2>1 DEF RefreshSound, Numbers
    <2>4. RefreshSound(s)'
        BY <1>0, <1>1, <2>1, <2>3 DEF RefreshSound, Numbers
    <2>5. seen[s] # None => seen[s] < clock
        BY <1>0, <2>1 DEF TakenSound, Numbers
    <2>6. TakenSound(s)'
        BY <1>0, <1>1, <2>1, <2>5 DEF TakenSound
    <2> QED BY <2>2, <2>4, <2>6
<1> QED BY <1>2, <1>3

\* What a refresh makes of the file: every bar exact, closed ones complete, and no
\* hole up to the minute in hand.
LEMMA MergeFills ==
    ASSUME IInv, NEW s \in Stocks, asOf # None
    PROVE  LET after == Merged(s)
               kept == {m \in Minutes : after[m] # None}
           IN  /\ \A m \in kept : /\ m <= asOf /\ after[m].trades = trades[s][m]
                                  /\ after[m].complete <=> m < asOf
               /\ \A m \in Minutes : m <= asOf /\ trades[s][m] > 0 => m \in kept
<1> DEFINE after == Merged(s)
           kept == {m \in Minutes : after[m] # None}
           first == FirstWanted(s)
<1>0. FileSound(s) /\ Numbers(s)
    BY BarTypes
<1>1. /\ file[s] \in [Minutes -> CachedBar \cup {None}] /\ \A m \in Cached(s) : file[s][m] \in CachedBar
      /\ None \notin CachedBar
    <2>1. file[s] \in [Minutes -> CachedBar \cup {None}]
        BY DEF IInv, TypeOK, CacheTypeOK
    <2>2. \A m \in Cached(s) : file[s][m] \in CachedBar
        BY <2>1 DEF Cached
    <2>3. None \notin CachedBar
        <3>1. \A bar \in CachedBar : bar # None
            BY CacheAssumption DEF CachedBar
        <3> QED BY <3>1
    <2> QED BY <2>1, <2>2, <2>3
<1>2. /\ Cached(s) = {} => first = 0
      /\ Cached(s) # {} => first \in Cached(s) /\ \A n \in Cached(s) : n <= first
      /\ first \in Minutes
    BY FirstIsLast
<1>3. \A m \in Answer(s) : m \in Minutes /\ first <= m /\ m <= asOf /\ trades[s][m] > 0
    BY <1>0, <1>2, Constants DEF Answer, Numbers, Minutes, IInv, TypeOK, CacheTypeOK
<1>4. \A m \in Minutes : first <= m /\ m <= asOf /\ trades[s][m] > 0 => m \in Answer(s)
    BY <1>0, <1>2, Constants DEF Answer, Numbers
<1>5. \A m \in Answer(s) : after[m] = [trades |-> trades[s][m], complete |-> Closed(m)]
    BY <1>3 DEF Merged
<1>6. \A m \in Cached(s) \ Answer(s) : after[m] = [file[s][m] EXCEPT !.complete = Closed(m)]
    BY DEF Merged, Cached
<1>7. \A m \in Cached(s) \ Answer(s) : m < first /\ first \in Cached(s)
    <2> SUFFICES ASSUME NEW m \in Cached(s) \ Answer(s) PROVE m < first /\ first \in Cached(s)
        OBVIOUS
    <2>1. m <= first /\ first \in Cached(s) /\ m \in Nat /\ first \in Nat
        BY <1>2, Constants DEF Cached
    <2>2. first <= asOf /\ file[s][first].trades <= trades[s][first] /\ file[s][first].trades > 0
        BY <1>0, <1>1, <2>1, Constants DEF FileSound, CachedBar
    <2>3. first \in Answer(s)
        BY <1>0, <1>2, <1>4, <2>1, <2>2 DEF Numbers
    <2> QED BY <2>1, <2>3
<1>8. \A m \in Minutes : Closed(m) <=> m < asOf
    BY <1>0, Constants DEF Closed, Numbers
<1>9. kept = Cached(s) \cup Answer(s)
    <2>1. \A m \in Minutes : m \notin Cached(s) /\ m \notin Answer(s) => after[m] = None
        BY DEF Merged, Cached
    <2>2. \A m \in Answer(s) : m \in Minutes /\ after[m] # None
        <3> SUFFICES ASSUME NEW m \in Answer(s) PROVE after[m] # None
            BY <1>3
        <3> DEFINE t == trades[s][m]
                   c == Closed(m)
        <3>1. t \in 1 .. MaxTrades
            <4>1. m \in Minutes /\ t > 0
                BY <1>3
            <4>2. t \in 0 .. MaxTrades
                BY <4>1 DEF IInv, TypeOK, CacheTypeOK
            <4> QED BY <4>1, <4>2, Constants
        <3>2. c \in BOOLEAN
            BY DEF Closed
        <3> HIDE DEF t, c
        <3>3. [trades |-> t, complete |-> c] \in CachedBar
            BY <3>1, <3>2 DEF CachedBar
        <3>4. after[m] = [trades |-> t, complete |-> c]
            BY <1>5 DEF t, c
        <3> QED BY <1>1, <3>3, <3>4
    <2>3. \A m \in Cached(s) \ Answer(s) : m \in Minutes /\ after[m] # None
        <3> SUFFICES ASSUME NEW m \in Cached(s) \ Answer(s) PROVE m \in Minutes /\ after[m] # None
            OBVIOUS
        <3> DEFINE b == file[s][m]
                   c == Closed(m)
        <3>1. b \in CachedBar /\ m \in Minutes
            BY <1>1 DEF Cached
        <3>2. c \in BOOLEAN
            BY DEF Closed
        <3>3. after[m] = [b EXCEPT !.complete = c]
            BY <1>6
        <3> HIDE DEF b, c, after
        <3>4. [b EXCEPT !.complete = c] \in CachedBar
            BY <3>1, <3>2 DEF CachedBar
        <3> QED BY <1>1, <3>1, <3>3, <3>4
    <2> QED BY <2>1, <2>2, <2>3
<1> HIDE DEF after
<1>10. ASSUME NEW m \in kept
       PROVE  m <= asOf /\ after[m].trades = trades[s][m] /\ (after[m].complete <=> m < asOf)
    <2>1. CASE m \in Answer(s)
        <3>1. m \in Minutes /\ m <= asOf
            BY <1>3, <2>1
        <3>2. after[m] = [trades |-> trades[s][m], complete |-> Closed(m)]
            BY <1>5, <2>1
        <3>3. after[m].trades = trades[s][m] /\ after[m].complete = Closed(m)
            BY <3>2
        <3> QED BY <1>8, <3>1, <3>3
    <2>2. CASE m \in Cached(s) \ Answer(s)
        <3>1. m < first /\ first \in Cached(s) /\ m \in Minutes
            BY <1>7, <2>2
        <3>2. file[s][m].trades = trades[s][m] /\ m <= asOf
            BY <1>0, <2>2, <3>1 DEF FileSound
        <3>3. after[m].trades = file[s][m].trades /\ after[m].complete = Closed(m)
            BY <1>1, <1>6, <2>2 DEF CachedBar
        <3> QED BY <1>8, <3>1, <3>2, <3>3
    <2> QED BY <1>9, <2>1, <2>2
<1>11. ASSUME NEW m \in Minutes, m <= asOf, trades[s][m] > 0
       PROVE  m \in kept
    <2>1. CASE first <= m
        BY <1>4, <1>9, <1>11, <2>1
    <2>2. CASE m < first
        <3>1. first \in Cached(s)
            BY <1>2, <2>2, Constants
        <3>2. m \in Cached(s)
            BY <1>0, <1>11, <2>2, <3>1 DEF FileSound
        <3> QED BY <1>9, <3>2
    <2>3. m \in Nat /\ first \in Nat
        BY <1>2, Constants
    <2> QED BY <2>1, <2>2, <2>3
<1> QED BY <1>10, <1>11 DEF after

\* The answer of a successful call.
LEMMA CallKeeps ==
    ASSUME IInv, NEW s \in Stocks, AttemptSucceeds
    PROVE  FileSound(s)' /\ RefreshSound(s)' /\ TakenSound(s)'
<1>0. FileSound(s) /\ RefreshSound(s) /\ TakenSound(s) /\ Numbers(s)
    BY BarTypes
<1>1. /\ UNCHANGED <<clock, trades, asOf, seen, taken>>
      /\ fetching \in Stocks /\ asOf # None
      /\ file' = [file EXCEPT ![fetching] = Merged(fetching)]
      /\ fetched' = [fetched EXCEPT ![fetching] = asOf]
      /\ file \in [Stocks -> [Minutes -> CachedBar \cup {None}]]
      /\ fetched \in [Stocks -> Minutes \cup {None}]
    BY DEF AttemptSucceeds, IInv, TypeOK, CacheTypeOK
<1>2. CASE s # fetching
    <2>1. file'[s] = file[s] /\ fetched'[s] = fetched[s]
        BY <1>1, <1>2
    <2>2. Cached(s)' = Cached(s)
        BY <2>1 DEF Cached
    <2> QED BY <1>0, <1>1, <2>1, <2>2 DEF FileSound, RefreshSound, TakenSound
<1>3. CASE s = fetching
    <2>1. file'[s] = Merged(s) /\ fetched'[s] = asOf
        BY <1>1, <1>3
    <2>2. Cached(s)' = {m \in Minutes : Merged(s)[m] # None}
        BY <2>1 DEF Cached
    <2>3. /\ \A m \in Cached(s)' : /\ m <= asOf /\ file'[s][m].trades = trades[s][m]
                                   /\ file'[s][m].complete <=> m < asOf
          /\ \A m \in Minutes : m <= asOf /\ trades[s][m] > 0 => m \in Cached(s)'
        BY <1>1, <2>1, <2>2, MergeFills
    <2>4. Cached(s)' \subseteq Minutes
        BY DEF Cached
    <2>5. FileSound(s)'
        BY <1>0, <1>1, <2>3, <2>4 DEF FileSound, Numbers
    <2>6. RefreshSound(s)'
        BY <1>0, <1>1, <2>1, <2>3 DEF RefreshSound, Numbers
    <2> QED BY <1>0, <1>1, <2>5, <2>6 DEF TakenSound
<1> QED BY <1>2, <1>3

\* The session is given what it has not seen: all of it, and nothing twice.
LEMMA PaperKeeps ==
    ASSUME IInv, NEW s \in Stocks, OnMinute(followed)
    PROVE  FileSound(s)' /\ RefreshSound(s)' /\ TakenSound(s)'
<1>0. FileSound(s) /\ RefreshSound(s) /\ TakenSound(s) /\ Numbers(s)
    BY BarTypes
<1>1. UNCHANGED <<clock, trades, asOf, file, fetched>> /\ asOf # None /\ Cached(s)' = Cached(s)
    BY DEF OnMinute, Cached
<1>2. FileSound(s)' /\ RefreshSound(s)'
    BY <1>0, <1>1 DEF FileSound, RefreshSound
<1>3. CASE s \notin followed
    <2>1. seen'[s] = seen[s] /\ \A m \in Minutes : taken'[s][m] = taken[s][m]
        BY <1>3 DEF OnMinute
    <2> QED BY <1>0, <1>1, <1>2, <2>1 DEF TakenSound
<1>4. CASE s \in followed
    <2>1. /\ seen'[s] = SeenAfter(s)
          /\ \A m \in Minutes : m \in Unseen(s) =>
                 taken'[s][m] = [times |-> taken[s][m].times + 1, trades |-> file[s][m].trades]
          /\ \A m \in Minutes : m \notin Unseen(s) => taken'[s][m] = taken[s][m]
        BY <1>4 DEF OnMinute
    <2>2. /\ Unseen(s) = {} => SeenAfter(s) = seen[s]
          /\ Unseen(s) # {} => SeenAfter(s) \in Unseen(s) /\ \A n \in Unseen(s) : n <= SeenAfter(s)
        BY SeenIsLast
    <2>3. \A m \in Unseen(s) : /\ m \in Cached(s) /\ m \in Minutes /\ m \in Nat /\ m < asOf /\ m # None
                               /\ file[s][m].complete /\ (seen[s] = None \/ m > seen[s])
        <3> SUFFICES ASSUME NEW m \in Unseen(s)
                     PROVE  m \in Nat /\ m < asOf /\ m # None
            BY <1>0 DEF Unseen, Numbers
        <3>1. m \in Minutes /\ m + 1 <= asOf /\ asOf \in Nat
            BY <1>0, <1>1 DEF Unseen, Numbers
        <3> QED BY <3>1, Constants
    <2>4. \A m \in Cached(s) : file[s][m].complete /\ m < asOf /\ (seen[s] = None \/ m > seen[s])
                               => m \in Unseen(s)
        BY <1>0, <1>1, Constants DEF Unseen, Numbers, Cached
    <2>5. seen'[s] # None => asOf' # None /\ seen'[s] < asOf'
        BY <1>0, <1>1, <2>1, <2>2, <2>3 DEF TakenSound
    <2>6. seen[s] # None => seen'[s] # None /\ seen[s] <= seen'[s]
        BY <1>0, <2>1, <2>2, <2>3 DEF Numbers
    <2>7. ASSUME NEW m \in Minutes, m \in Unseen(s)
          PROVE  /\ taken'[s][m].times = 1 /\ taken'[s][m].trades = trades[s][m]
                 /\ seen'[s] # None /\ m <= seen'[s]
        <3>1. taken[s][m].times = 0
            BY <1>0, <2>3, <2>7 DEF TakenSound, Numbers
        <3>2. file[s][m].trades = trades[s][m]
            BY <1>0, <2>3, <2>7 DEF FileSound
        <3>3. seen'[s] # None /\ m <= seen'[s]
            BY <2>1, <2>2, <2>3, <2>7
        <3>4. taken'[s][m] = [times |-> taken[s][m].times + 1, trades |-> file[s][m].trades]
            BY <2>1, <2>7
        <3> QED BY <3>1, <3>2, <3>3, <3>4
    <2>8. ASSUME NEW m \in Minutes, m \notin Unseen(s)
          PROVE  /\ taken'[s][m].times \in {0, 1}
                 /\ taken'[s][m].times = 1 =>
                        seen'[s] # None /\ m <= seen'[s] /\ taken'[s][m].trades = trades[s][m]
        <3>1. taken'[s][m] = taken[s][m]
            BY <2>1, <2>8
        <3>2. taken[s][m].times = 1 => m <= seen'[s]
            <4> SUFFICES ASSUME taken[s][m].times = 1 PROVE m <= seen'[s]
                OBVIOUS
            <4>1. seen[s] # None /\ m <= seen[s] /\ seen[s] <= seen'[s]
                BY <1>0, <2>6 DEF TakenSound
            <4>2. m \in Nat /\ seen[s] \in Nat /\ seen'[s] \in Nat
                BY <1>0, <2>1, <2>2, <2>3, <4>1 DEF Numbers
            <4> QED BY <4>1, <4>2
        <3> QED BY <1>0, <2>6, <3>1, <3>2 DEF TakenSound
    <2>9. ASSUME NEW m \in Minutes, seen'[s] # None, m <= seen'[s], trades[s][m] > 0
          PROVE  taken'[s][m].times = 1
        <3>1. CASE m \in Unseen(s)
            BY <2>7, <3>1
        <3>2. CASE m \notin Unseen(s) /\ seen[s] # None /\ m <= seen[s]
            BY <1>0, <2>1, <2>9, <3>2 DEF TakenSound
        <3>3. CASE m \notin Unseen(s) /\ ~(seen[s] # None /\ m <= seen[s])
            <4>1. Unseen(s) # {}
                BY <2>1, <2>2, <2>9, <3>3
            <4> DEFINE n == seen'[s]
            <4>2. n \in Unseen(s) /\ n \in Cached(s) /\ n < asOf /\ file[s][n].complete /\ n \in Nat
                BY <2>1, <2>2, <2>3, <4>1
            <4>3. m # n /\ m \in Nat
                BY <1>0, <3>3, <4>2 DEF Numbers
            <4>4. m < n
                BY <2>9, <4>2, <4>3
            <4>5. m \in Cached(s) /\ file[s][m].complete
                BY <1>0, <2>9, <4>2, <4>4 DEF FileSound
            <4>6. m < asOf /\ (seen[s] = None \/ m > seen[s])
                BY <1>0, <1>1, <3>3, <4>2, <4>3, <4>4 DEF Numbers
            <4> QED BY <2>4, <3>3, <4>5, <4>6
        <3> QED BY <3>1, <3>2, <3>3
    <2>10. TakenSound(s)'
        BY <1>1, <2>5, <2>7, <2>8, <2>9 DEF TakenSound
    <2> QED BY <1>2, <2>10
<1> QED BY <1>3, <1>4

\* Only the file outlives the worker.
LEMMA RestartKeeps ==
    ASSUME IInv, NEW s \in Stocks, Restart
    PROVE  FileSound(s)' /\ RefreshSound(s)' /\ TakenSound(s)'
<1>0. FileSound(s) /\ Numbers(s)
    BY BarTypes
<1>1. /\ UNCHANGED <<clock, trades, file>> /\ asOf' = None /\ Cached(s)' = Cached(s)
      /\ fetched'[s] = None /\ seen'[s] = None /\ \A m \in Minutes : taken'[s][m] = NotTaken
    BY DEF Restart, Cached
<1>2. FileSound(s)'
    BY <1>0, <1>1 DEF FileSound
<1> QED BY <1>1, <1>2 DEF RefreshSound, TakenSound, NotTaken

LEMMA StepBars == IInv /\ [Next]_vars => BarsSound'
<1> SUFFICES ASSUME IInv, [Next]_vars, NEW s \in Stocks
             PROVE  FileSound(s)' /\ RefreshSound(s)' /\ TakenSound(s)'
    BY DEF BarsSound
<1>1. CASE \E r \in Stocks : Trade(r)
    BY <1>1, TradeKeeps
<1>2. CASE MinutePasses \/ NextMinute
    BY <1>2, TimeKeeps
<1>3. CASE AttemptSucceeds
    BY <1>3, CallKeeps
<1>4. CASE OnMinute(followed)
    BY <1>4, PaperKeeps
<1>5. CASE Restart
    BY <1>5, RestartKeeps
<1>6. CASE UNCHANGED <<clock, trades, asOf, file, fetched, seen, taken>>
    <2>1. FileSound(s) /\ RefreshSound(s) /\ TakenSound(s)
        BY BarTypes
    <2>2. Cached(s)' = Cached(s)
        BY <1>6 DEF Cached
    <2> QED BY <1>6, <2>1, <2>2 DEF FileSound, RefreshSound, TakenSound
<1> QED
    BY <1>1, <1>2, <1>3, <1>4, <1>5, <1>6
       DEF Next, BeginMinute, FetchNews, RefreshBars, BeginFetch, Call, AttemptFails, CallRaises,
           BarsRefreshed, Paper, Exchange, Crash, vars, cvars

\* The invariant holds in every reachable state.
THEOREM Inductive == Spec => []IInv
<1>1. IInv /\ [Next]_vars => IInv'
    BY StepCacheType, StepStage, StepNewsType, StepClock, StepBars, TypeParts
       DEF IInv, TypeOK, StageOK
<1> QED BY InitIInv, <1>1, PTL DEF Spec

\* Whatever the calls answer, however late the minutes come and wherever the worker
\* is restarted: a bar marked complete is the exchange's and final, a stock that was
\* refreshed has every closed bar, and the session is given each of them once.
THEOREM BarsAreWhole == Spec => []BarsInv
<1>1. IInv => BarsInv
    <2> SUFFICES ASSUME IInv PROVE BarsInv
        OBVIOUS
    <2>1. \A s \in Stocks : FileSound(s) /\ RefreshSound(s) /\ TakenSound(s) /\ Numbers(s)
        BY BarTypes
    <2>2. CompleteIsFinal
        BY <2>1 DEF CompleteIsFinal, FileSound
    <2>3. NoHoles
        <3> SUFFICES ASSUME NEW s \in Stocks, asOf # None, fetched[s] = asOf
                     PROVE  Scored(s) = {m \in Minutes : m < asOf /\ trades[s][m] > 0}
            BY DEF NoHoles
        <3>1. \A m \in Scored(s) : m \in Cached(s) /\ file[s][m].complete
            BY DEF Scored
        <3>2. \A m \in Cached(s) : file[s][m].trades > 0
            <4>1. \A m \in Cached(s) : file[s][m] \in CachedBar
                BY DEF Cached, IInv, TypeOK, CacheTypeOK
            <4> QED BY <4>1, Constants DEF CachedBar
        <3>3. \A m \in Scored(s) : m \in Minutes /\ m < asOf /\ trades[s][m] > 0
            BY <2>1, <3>1, <3>2 DEF FileSound, Cached
        <3>4. \A m \in Minutes : m < asOf /\ trades[s][m] > 0 => m \in Scored(s)
            BY <2>1 DEF RefreshSound, Scored
        <3> QED BY <3>3, <3>4
    <2>4. BarsTaken
        BY <2>1 DEF BarsTaken, BarsTakenOnce, NonePassedOver, TakenSound
    <2> QED BY <2>2, <2>3, <2>4 DEF BarsInv, IInv
<1> QED BY Inductive, <1>1, PTL
------------------------------------------------------------------------------
(* The news.  Those attempted after a stock are those that had a turn while *)
(* it waited: each minute it is left out adds PerTick new ones to them.    *)

Since(s) ==
    {t \in known : attempted[t] # None /\ (attempted[s] = None \/ attempted[t] > attempted[s])}

NewsSound ==
    /\ \A s \in NewsStocks : waited[s] * PerTick <= Cardinality(Since(s))
    /\ stage = "news" => \A s \in NewsStocks : attempted[s] # None => attempted[s] < asOf
    /\ stage \in {"bars", "paper"} => News!UnavailableIsExplained(asOf)

NewsTypes ==
    /\ known \subseteq NewsStocks /\ IsFiniteSet(known)
    /\ \A s \in NewsStocks :
        /\ waited[s] \in Nat
        /\ attempted[s] # None => attempted[s] \in Nat
        /\ fetchedAt[s] # None => fetchedAt[s] \in Nat /\ attempted[s] # None
        /\ IsFiniteSet(Since(s)) /\ Cardinality(Since(s)) \in Nat
    /\ stage \in {"news", "bars", "paper"} => asOf \in Nat

\* FiniteSets is reached once through the news, once here.
LEMMA OneCardinality == \A S : News!Cardinality(S) = Cardinality(S)
BY DEF News!Cardinality, Cardinality

LEMMA NewsAreTyped == IInv => NewsTypes
<1> SUFFICES ASSUME IInv PROVE NewsTypes
    OBVIOUS
<1>1. News!NewsTypeOK /\ CacheTypeOK /\ StageOK
    BY TypeParts DEF IInv
<1>2. known \subseteq NewsStocks /\ IsFiniteSet(known)
    BY <1>1, Constants, FS_Subset DEF News!NewsTypeOK
<1>3. ASSUME NEW s \in NewsStocks
      PROVE  IsFiniteSet(Since(s)) /\ Cardinality(Since(s)) \in Nat
    <2>1. IsFiniteSet(Since(s))
        BY <1>2, FS_Subset DEF Since
    <2> QED BY <2>1, FS_CardinalityType
<1>4. stage \in {"news", "bars", "paper"} => asOf \in Nat
    BY <1>1, Constants DEF StageOK, CacheTypeOK
<1>5. \A s \in NewsStocks :
          /\ waited[s] \in Nat
          /\ attempted[s] # None => attempted[s] \in Nat
          /\ fetchedAt[s] # None => fetchedAt[s] \in Nat /\ attempted[s] # None
    BY <1>1 DEF News!NewsTypeOK
<1> QED BY <1>2, <1>3, <1>4, <1>5 DEF NewsTypes

LEMMA InitNews == Init => NewsSound
<1> SUFFICES ASSUME Init PROVE NewsSound
    OBVIOUS
<1>1. \A s \in NewsStocks : Since(s) = {} /\ waited[s] = 0
    BY DEF Init, News!NewsInit, Since
<1>2. \A s \in NewsStocks : waited[s] * PerTick <= Cardinality(Since(s))
    BY <1>1, Constants, FS_EmptySet
<1> QED BY <1>2 DEF NewsSound, Init

\* The news that a minute fetches.
LEMMA FetchKeepsTurns ==
    ASSUME IInv, IInv', NewsSound, NEW some \in SUBSET NewsStocks, NEW ok \in SUBSET some,
           FetchNews(some, ok), NEW s \in NewsStocks
    PROVE  waited'[s] * PerTick <= Cardinality(Since(s)')
<1>0. NewsTypes /\ NewsTypes'
    BY NewsAreTyped, PTL
<1>1. /\ some \subseteq News!Due(asOf) /\ known' = known /\ asOf \in Nat /\ stage = "news"
      /\ some = News!Due(asOf) \/ Cardinality(some) = PerTick
      /\ \A t \in some, r \in News!Due(asOf) \ some : News!NotAfter(t, r)
      /\ attempted' = [t \in NewsStocks |-> IF t \in some THEN asOf ELSE attempted[t]]
      /\ waited' = [t \in NewsStocks |->
                        IF t \in News!Due(asOf) \ some THEN waited[t] + 1 ELSE 0]
    <2>1. stage = "news" /\ News!Tick(asOf, some, ok)
        BY DEF FetchNews
    <2>2. asOf \in Nat
        BY <1>0, <2>1 DEF NewsTypes
    <2>3. /\ some \subseteq News!Due(asOf)
          /\ some = News!Due(asOf) \/ Cardinality(some) = PerTick
          /\ \A t \in some, r \in News!Due(asOf) \ some : News!NotAfter(t, r)
        BY <2>1, OneCardinality DEF News!Tick, News!Served
    <2> QED BY <2>1, <2>2, <2>3 DEF News!Tick, News!AttemptedAfter
<1>2. CASE s \notin News!Due(asOf) \ some
    <2>1. waited'[s] = 0
        BY <1>1, <1>2
    <2>2. Cardinality(Since(s)') \in Nat
        BY <1>0 DEF NewsTypes
    <2> QED BY <2>1, <2>2, Constants
<1>3. CASE s \in News!Due(asOf) \ some
    <2>1. waited'[s] = waited[s] + 1 /\ Cardinality(some) = PerTick /\ attempted'[s] = attempted[s]
        BY <1>1, <1>3
    <2>2. attempted[s] # None => attempted[s] \in Nat /\ attempted[s] < asOf
        BY <1>0, <1>1 DEF NewsSound, NewsTypes
    <2>3. some \cap Since(s) = {}
        <3> SUFFICES ASSUME NEW t \in some, t \in Since(s) PROVE FALSE
            OBVIOUS
        <3>1. attempted[t] # None => attempted[s] # None /\ attempted[t] <= attempted[s]
            BY <1>1, <1>3 DEF News!NotAfter
        <3>2. attempted[t] # None /\ (attempted[s] = None \/ attempted[t] > attempted[s])
            BY DEF Since
        <3>3. attempted[t] \in Nat /\ (attempted[s] # None => attempted[s] \in Nat)
            BY <1>0, <3>2 DEF NewsTypes
        <3> QED BY <3>1, <3>2, <3>3
    <2>4. Since(s) \cup some \subseteq Since(s)'
        <3>1. \A t \in some : t \in Since(s)'
            BY <1>1, <2>1, <2>2, Constants DEF Since, News!Due
        <3>2. \A t \in Since(s) \ some : t \in Since(s)'
            BY <1>0, <1>1, <2>1 DEF Since, NewsTypes
        <3> QED BY <3>1, <3>2
    <2>5. IsFiniteSet(some) /\ IsFiniteSet(Since(s)) /\ IsFiniteSet(Since(s)')
        BY <1>0, Constants, FS_Subset DEF NewsTypes
    <2>6. Cardinality(Since(s) \cup some) = Cardinality(Since(s)) + Cardinality(some)
        <3>1. Since(s) \cap some = {}
            BY <2>3
        <3>2. Cardinality(Since(s) \cap some) = 0
            BY <3>1, FS_EmptySet
        <3>3. Cardinality(Since(s) \cup some)
                  = Cardinality(Since(s)) + Cardinality(some) - Cardinality(Since(s) \cap some)
            BY <2>5, FS_Union
        <3>4. Cardinality(Since(s)) \in Nat /\ Cardinality(some) \in Nat
            BY <2>5, FS_CardinalityType
        <3> QED BY <3>2, <3>3, <3>4
    <2>7. Cardinality(Since(s) \cup some) <= Cardinality(Since(s)')
        BY <2>4, <2>5, FS_Subset
    <2>8. waited[s] * PerTick <= Cardinality(Since(s))
        BY DEF NewsSound
    <2>9. (waited[s] + 1) * PerTick = waited[s] * PerTick + PerTick /\ waited[s] * PerTick \in Nat
        BY <1>0, Constants DEF NewsTypes
    <2>10. Cardinality(Since(s)) \in Nat /\ Cardinality(Since(s)') \in Nat /\ PerTick \in Nat
        BY <1>0, Constants DEF NewsTypes
    <2> HIDE DEF NewsSound
    <2> QED BY <2>1, <2>6, <2>7, <2>8, <2>9, <2>10
<1> QED BY <1>2, <1>3

LEMMA FetchExplains ==
    ASSUME IInv, NEW some \in SUBSET NewsStocks, NEW ok \in SUBSET some, FetchNews(some, ok)
    PROVE  News!UnavailableIsExplained(asOf)'
<1>0. NewsTypes
    BY NewsAreTyped
<1>1. /\ some \subseteq News!Due(asOf) /\ known' = known /\ asOf' = asOf /\ asOf \in Nat
      /\ attempted' = [t \in NewsStocks |-> IF t \in some THEN asOf ELSE attempted[t]]
      /\ fetchedAt' = [t \in NewsStocks |-> IF t \in ok THEN asOf ELSE fetchedAt[t]]
      /\ waited' = [t \in NewsStocks |->
                        IF t \in News!Due(asOf) \ some THEN waited[t] + 1 ELSE 0]
    BY <1>0 DEF FetchNews, News!Tick, News!Served, News!AttemptedAfter, NewsTypes, cvars
<1> SUFFICES ASSUME NEW s \in known, fetchedAt'[s] = attempted'[s],
                    attempted'[s] # None, asOf - fetchedAt'[s] > MaxAge
             PROVE  waited'[s] > 0
    BY <1>1 DEF News!UnavailableIsExplained, News!Result
<1>2. s \in NewsStocks /\ MaxAge \in Nat /\ Refresh \in Nat /\ MaxAge >= Refresh
    BY <1>0, Constants DEF NewsTypes
<1>3. s \notin some
    BY <1>1, <1>2
<1>4. attempted[s] = attempted'[s] /\ attempted[s] \in Nat
    BY <1>0, <1>1, <1>2, <1>3 DEF NewsTypes
<1>5. s \in News!Due(asOf)
    BY <1>1, <1>2, <1>4 DEF News!Due
<1>6. waited'[s] = waited[s] + 1 /\ waited[s] \in Nat
    BY <1>0, <1>1, <1>2, <1>3, <1>5 DEF NewsTypes
<1> QED BY <1>6

LEMMA StepNews == IInv /\ IInv' /\ NewsSound /\ [Next]_vars => NewsSound'
<1> SUFFICES ASSUME IInv, IInv', NewsSound, [Next]_vars PROVE NewsSound'
    OBVIOUS
<1>0. NewsTypes /\ NewsTypes' /\ AttemptsPast /\ ClockAhead /\ CacheTypeOK
    BY NewsAreTyped, TypeParts, PTL DEF IInv
<1>1. CASE \E stocks \in SUBSET Stocks, named \in SUBSET NewsStocks : BeginMinute(stocks, named)
    <2>1. /\ UNCHANGED <<attempted, waited>> /\ known \subseteq known' /\ stage' = "news"
          /\ asOf' = clock /\ asOf # clock
        BY <1>1 DEF BeginMinute, NextMinute, News!AddSymbols
    <2>2. ASSUME NEW s \in NewsStocks
          PROVE  waited'[s] * PerTick <= Cardinality(Since(s)')
        <3>1. Since(s) \subseteq Since(s)'
            BY <2>1 DEF Since
        <3>2. Cardinality(Since(s)) <= Cardinality(Since(s)')
            BY <1>0, <3>1, FS_Subset DEF NewsTypes
        <3>3. waited[s] * PerTick <= Cardinality(Since(s)) /\ waited[s] * PerTick \in Nat
            BY <1>0, Constants DEF NewsSound, NewsTypes
        <3>4. Cardinality(Since(s)) \in Nat /\ Cardinality(Since(s)') \in Nat
            BY <1>0 DEF NewsTypes
        <3> QED BY <2>1, <3>2, <3>3, <3>4
    <2>3. ASSUME NEW s \in NewsStocks, attempted'[s] # None
          PROVE  attempted'[s] < asOf'
        <3>1. asOf # None /\ attempted[s] <= asOf /\ asOf <= clock
            BY <1>0, <2>1, <2>3 DEF AttemptsPast, ClockAhead
        <3>2. attempted[s] \in Nat /\ asOf \in Nat /\ clock \in Nat
            BY <1>0, <2>1, <2>3, <3>1, Constants DEF NewsTypes, CacheTypeOK
        <3> QED BY <2>1, <3>1, <3>2
    <2> QED BY <2>1, <2>2, <2>3 DEF NewsSound
<1>2. CASE \E some \in SUBSET NewsStocks : \E ok \in SUBSET some : FetchNews(some, ok)
    <2> PICK some \in SUBSET NewsStocks : \E ok \in SUBSET some : FetchNews(some, ok)
        BY <1>2
    <2> PICK ok \in SUBSET some : FetchNews(some, ok)
        OBVIOUS
    <2>1. \A s \in NewsStocks : waited'[s] * PerTick <= Cardinality(Since(s)')
        BY FetchKeepsTurns
    <2>2. News!UnavailableIsExplained(asOf)'
        BY FetchExplains
    <2>3. stage' = "bars"
        BY DEF FetchNews
    <2> QED BY <2>1, <2>2, <2>3 DEF NewsSound
<1>3. CASE Crash
    <2>1. \A s \in NewsStocks : waited'[s] = 0 /\ Cardinality(Since(s)') \in Nat
        BY <1>0, <1>3 DEF Crash, NewsTypes
    <2>2. \A s \in NewsStocks : waited'[s] * PerTick <= Cardinality(Since(s)')
        BY <2>1, Constants
    <2>3. stage' = "wait"
        BY <1>3 DEF Crash
    <2> QED BY <2>2, <2>3 DEF NewsSound
<1>4. CASE /\ UNCHANGED <<known, attempted, fetchedAt, waited, asOf>>
           /\ stage' = stage \/ stage' = "wait" \/ (stage = "bars" /\ stage' = "paper")
    <2>1. \A s \in NewsStocks : Since(s)' = Since(s)
        BY <1>4 DEF Since
    <2>2. \A s \in NewsStocks : waited'[s] * PerTick <= Cardinality(Since(s)')
        BY <1>4, <2>1 DEF NewsSound
    <2>3. News!UnavailableIsExplained(asOf) => News!UnavailableIsExplained(asOf)'
        BY <1>4 DEF News!UnavailableIsExplained, News!Result
    <2> QED BY <1>4, <2>2, <2>3 DEF NewsSound
<1> QED
    BY <1>1, <1>2, <1>3, <1>4
       DEF Next, RefreshBars, BeginFetch, Call, AttemptSucceeds, AttemptFails, CallRaises,
           BarsRefreshed, Paper, OnMinute, Exchange, MinutePasses, Trade, vars, cvars

\* However many stocks are followed and whichever fetches fail: a stock whose news
\* are due waits at most until each other one has had one turn, and where a minute
\* that has its news withholds some, the last fetch failed or the next is pending.
THEOREM NobodyStarves == Spec => []NewsInv
<1>1. IInv /\ NewsSound => NewsInv
    <2> SUFFICES ASSUME IInv, NewsSound PROVE NewsInv
        OBVIOUS
    <2>0. NewsTypes
        BY NewsAreTyped
    <2>1. ASSUME NEW s \in known
          PROVE  waited[s] * PerTick < Cardinality(known)
        <3>1. s \in NewsStocks /\ IsFiniteSet(known) /\ Since(s) \subseteq known
            BY <2>0 DEF NewsTypes, Since
        <3>2. s \notin Since(s)
            <4>1. attempted[s] # None => attempted[s] \in Nat
                BY <2>0, <3>1 DEF NewsTypes
            <4>2. attempted[s] # None => ~(attempted[s] > attempted[s])
                BY <4>1
            <4> QED BY <4>2 DEF Since
        <3>3. Cardinality(Since(s)) < Cardinality(known)
            <4>1. Cardinality(Since(s)) <= Cardinality(known)
                  /\ (Cardinality(known) = Cardinality(Since(s)) => known = Since(s))
                BY <3>1, FS_Subset
            <4>2. Cardinality(Since(s)) \in Nat /\ Cardinality(known) \in Nat
                BY <2>0, <3>1, FS_CardinalityType DEF NewsTypes
            <4> QED BY <3>2, <4>1, <4>2
        <3>4. waited[s] * PerTick <= Cardinality(Since(s)) /\ waited[s] * PerTick \in Nat
            BY <2>0, <3>1, Constants DEF NewsSound, NewsTypes
        <3>5. Cardinality(Since(s)) \in Nat /\ Cardinality(known) \in Nat
            BY <2>0, <3>1, FS_CardinalityType DEF NewsTypes
        <3> DEFINE w == waited[s] * PerTick
                   c == Cardinality(Since(s))
                   k == Cardinality(known)
        <3>6. w \in Nat /\ c \in Nat /\ k \in Nat /\ w <= c /\ c < k
            BY <3>3, <3>4, <3>5
        <3> HIDE DEF w, c, k
        <3>7. w < k
            BY <3>6
        <3> QED BY <3>7 DEF w, k
    <2>2. News!TurnsAreTaken
        BY <2>1, OneCardinality DEF News!TurnsAreTaken
    <2> QED BY <2>2 DEF NewsInv, NewsSound
<1>2. IInv /\ IInv' /\ NewsSound /\ [Next]_vars => NewsSound'
    BY StepNews
<1> QED BY InitNews, Inductive, <1>1, <1>2, PTL DEF Spec

------------------------------------------------------------------------------
(* The loop.                                                               *)

\* Where the loop is, in its minute and among its sessions.
Placed ==
    /\ minute <= now
    /\ place \in {"tick", "paper"} => minute > 0
    /\ place = "tick" => turn = 1
    /\ place = "paper" => state.as_of = minute

\* A session that is squared off holds nothing, and it is late in the day.
SquaredIsFlat ==
    \A s \in Session : squared[s] =>
        held[s] = 0 /\ (minute >= SquareOffAt \/ place \in {"stop", "ended"})

\* A session that has had its turn in a late minute is squared off, or its failure
\* is told.
HadTurn(s) == place = "wait" \/ (place = "paper" /\ s < turn)
SquaredOrTold ==
    minute >= SquareOffAt =>
        \A s \in Session : HadTurn(s) => squared[s] \/ <<minute, s>> \in errors

\* At the end of the day the sessions are closed in turn.
ClosedInTurn == place = "stop" => \A s \in Session : s < turn => squared[s]

LoopIInv ==
    /\ LoopTypeOK /\ Placed /\ SquaredIsFlat /\ SquaredOrTold /\ ClosedInTurn
    /\ BarsAccountedFor /\ EndsFlatOrTold /\ ErrorsAreShown

------------------------------------------------------------------------------
LEMMA LoopConstants ==
    /\ DayEnd \in Nat /\ Sessions \in Nat /\ MaxHeld \in Nat
    /\ SquareOffAt \in Nat \ {0} /\ MaxLives \in Nat \ {0}
BY LoopAssumption

LEMMA InitLoopIInv == LoopInit => LoopIInv
<1> SUFFICES ASSUME LoopInit PROVE LoopIInv
    OBVIOUS
<1> USE LoopConstants DEF LoopInit, Session, Stop
<1>1. LoopTypeOK
    BY DEF LoopTypeOK
<1>2. Placed /\ SquaredIsFlat /\ SquaredOrTold /\ ClosedInTurn
    BY DEF Placed, SquaredIsFlat, SquaredOrTold, ClosedInTurn
<1>3. BarsAccountedFor /\ EndsFlatOrTold /\ ErrorsAreShown
    BY DEF BarsAccountedFor, EndsFlatOrTold, ErrorsAreShown
<1> QED BY <1>1, <1>2, <1>3 DEF LoopIInv

\* The minute's step of a session, whatever comes of it.
StepOf(s) ==
    \/ LoadRaises(s)
    \/ \E raised \in BOOLEAN : StepTrades(s, raised) \/ StepCloses(s, raised)
    \/ SquareOffRaises(s)

\* Such a step moves on to the next session; what it reads is not after the minute.
LEMMA StepMoves ==
    ASSUME LoopIInv, NEW s \in Session, StepOf(s)
    PROVE  /\ place = "paper" /\ turn = s /\ NextSession
           /\ UNCHANGED <<now, minute, bars, state, lives>>
           /\ Until \in 0 .. DayEnd /\ Until <= minute /\ minute \in 1 .. DayEnd
           /\ errors' \in {errors, errors \cup {<<minute, s>>}}
           /\ read' \in {read, [read EXCEPT ![s] = IF @ < Until THEN Until ELSE @]}
<1>1. PICK raised \in BOOLEAN : MinuteOf(s, raised)
    BY DEF StepOf, LoadRaises, StepTrades, StepCloses, SquareOffRaises
<1>2. Until \in 0 .. DayEnd /\ Until <= minute /\ minute \in 1 .. DayEnd
    BY <1>1, LoopConstants DEF MinuteOf, Until, Earlier, LoopIInv, LoopTypeOK, Placed
<1>3. read' \in {read, [read EXCEPT ![s] = IF @ < Until THEN Until ELSE @]}
    BY DEF StepOf, LoadRaises, StepTrades, StepCloses, SquareOffRaises, ReadBars
<1> QED BY <1>1, <1>2, <1>3 DEF MinuteOf, Report

LEMMA StepOfType == ASSUME LoopIInv, NEW s \in Session, StepOf(s) PROVE LoopTypeOK'
<1> USE LoopConstants
<1>0. LoopTypeOK
    BY DEF LoopIInv
<1>1. /\ place = "paper" /\ turn = s /\ NextSession
      /\ UNCHANGED <<now, minute, bars, state, lives>>
      /\ Until \in 0 .. DayEnd /\ Until <= minute /\ minute \in 1 .. DayEnd
      /\ errors' \in {errors, errors \cup {<<minute, s>>}}
      /\ read' \in {read, [read EXCEPT ![s] = IF @ < Until THEN Until ELSE @]}
    BY StepMoves
<1>2. now' \in 1 .. Stop /\ minute' \in 0 .. DayEnd /\ bars' \in 0 .. DayEnd
      /\ lives' \in 1 .. MaxLives /\ state'.as_of \in 0 .. DayEnd
      /\ state'.errors \subseteq (1 .. Stop) \X Session
    BY <1>0, <1>1 DEF LoopTypeOK
<1>3. place' \in {"wait", "paper"}
    BY <1>1 DEF NextSession
<1>4. turn' \in 1 .. Sessions + 1
    <2>1. s \in Nat /\ 1 <= s /\ s <= Sessions
        BY DEF Session
    <2>2. turn' = 1 \/ turn' = s + 1
        BY <1>1 DEF NextSession
    <2> QED BY <2>1, <2>2
<1>5. errors' \subseteq (1 .. Stop) \X Session
    <2>1. <<minute, s>> \in (1 .. Stop) \X Session
        BY <1>1 DEF Stop
    <2>2. errors \subseteq (1 .. Stop) \X Session
        BY <1>0 DEF LoopTypeOK
    <2> QED BY <1>1, <2>1, <2>2
<1>6. read' \in [Session -> 0 .. DayEnd]
    <2>1. read \in [Session -> 0 .. DayEnd]
        BY <1>0 DEF LoopTypeOK
    <2> QED BY <1>1, <2>1
<1>7. history' \in [Session -> SUBSET (1 .. DayEnd)]
    <2>1. history \in [Session -> SUBSET (1 .. DayEnd)] /\ read \in [Session -> 0 .. DayEnd]
        BY <1>0 DEF LoopTypeOK
    <2>2. read[s] + 1 .. Until \subseteq 1 .. DayEnd
        BY <1>1, <2>1
    <2>3. history[s] \cup (read[s] + 1 .. Until) \in SUBSET (1 .. DayEnd)
        BY <2>1, <2>2
    <2>4. history' \in {history, [history EXCEPT ![s] = @ \cup (read[s] + 1 .. Until)]}
        BY DEF StepOf, LoadRaises, StepTrades, StepCloses, SquareOffRaises, ReadBars
    <2> QED BY <2>1, <2>3, <2>4
<1>8. held' \in [Session -> 0 .. MaxHeld] /\ squared' \in [Session -> BOOLEAN]
    <2>1. held \in [Session -> 0 .. MaxHeld] /\ squared \in [Session -> BOOLEAN]
        BY <1>0 DEF LoopTypeOK
    <2>2. \/ UNCHANGED held
          \/ \E n \in 0 .. MaxHeld : held' = [held EXCEPT ![s] = n]
          \/ held' = [held EXCEPT ![s] = IF squared[s] THEN @ ELSE 0]
          \/ \E n \in 0 .. held[s] : held' = [held EXCEPT ![s] = n]
        BY DEF StepOf, LoadRaises, StepTrades, StepCloses, SquareOffRaises
    <2>3. \A n \in 0 .. held[s] : n \in 0 .. MaxHeld
        BY <2>1
    <2>4. squared' \in {squared, [squared EXCEPT ![s] = TRUE]}
        BY DEF StepOf, LoadRaises, StepTrades, StepCloses, SquareOffRaises
    <2>5. held' \in [Session -> 0 .. MaxHeld]
        BY <2>1, <2>2, <2>3
    <2> QED BY <2>1, <2>4, <2>5
<1> QED BY <1>2, <1>3, <1>4, <1>5, <1>6, <1>7, <1>8 DEF LoopTypeOK

LEMMA StepLoopType == LoopIInv /\ [LoopNext]_loopVars => LoopTypeOK'
<1> SUFFICES ASSUME LoopIInv, [LoopNext]_loopVars PROVE LoopTypeOK'
    OBVIOUS
<1> USE LoopConstants
<1>0. LoopTypeOK
    BY DEF LoopIInv
<1>1. CASE Elapse
    BY <1>0, <1>1 DEF LoopTypeOK, Elapse, Stop
<1>2. CASE ClockYields
    <2>1. now # Stop => now \in 1 .. DayEnd
        BY <1>0 DEF LoopTypeOK, Stop
    <2>2. minute' \in 0 .. DayEnd /\ place' \in {"stop", "tick"} /\ turn' \in 1 .. Sessions + 1
        BY <1>0, <1>2, <2>1 DEF LoopTypeOK, ClockYields
    <2> QED BY <1>0, <1>2, <2>2 DEF LoopTypeOK, ClockYields
<1>3. CASE TickRaises
    BY <1>0, <1>3 DEF LoopTypeOK, TickRaises
<1>4. CASE \E refreshed \in BOOLEAN : RunTick(refreshed)
    <2>1. bars' \in 0 .. DayEnd
        BY <1>0, <1>4 DEF LoopTypeOK, RunTick
    <2>2. state'.as_of \in 0 .. DayEnd /\ state'.errors \subseteq (1 .. Stop) \X Session
        BY <1>0, <1>4 DEF LoopTypeOK, RunTick
    <2> QED BY <1>0, <1>4, <2>1, <2>2 DEF LoopTypeOK, RunTick
<1>5. CASE \E s \in Session : StepOf(s)
    BY <1>5, StepOfType
<1>6. CASE \E s \in Session : TickFills(s)
    <2> PICK s \in Session, n \in 0 .. MaxHeld : TickFills(s) /\ held' = [held EXCEPT ![s] = n]
        BY <1>6 DEF TickFills
    <2>1. held' \in [Session -> 0 .. MaxHeld]
        BY <1>0 DEF LoopTypeOK
    <2> QED BY <1>0, <2>1 DEF LoopTypeOK, TickFills
<1>7. CASE \E s \in Session : EndDay(s)
    <2> PICK s \in Session : EndDay(s)
        BY <1>7
    <2>1. held' \in [Session -> 0 .. MaxHeld] /\ squared' \in [Session -> BOOLEAN]
        BY <1>0 DEF LoopTypeOK, EndDay
    <2>2. turn' \in 1 .. Sessions + 1 /\ place' \in {"stop", "ended"}
        BY DEF EndDay, Session
    <2> QED BY <1>0, <2>1, <2>2 DEF LoopTypeOK, EndDay
<1>8. CASE \E s \in Session : EndDayRaises(s)
    <2> PICK s \in Session : EndDayRaises(s)
        BY <1>8
    <2> PICK n \in 0 .. held[s] : held' = [held EXCEPT ![s] = n]
        BY DEF EndDayRaises
    <2>1. n \in 0 .. MaxHeld
        BY <1>0 DEF LoopTypeOK
    <2>2. held' \in [Session -> 0 .. MaxHeld]
        BY <1>0, <2>1 DEF LoopTypeOK
    <2>3. <<Stop, s>> \in (1 .. Stop) \X Session
        BY DEF Stop
    <2>4. errors' \subseteq (1 .. Stop) \X Session
        BY <1>0, <2>3 DEF LoopTypeOK, EndDayRaises, Report
    <2>5. turn' \in 1 .. Sessions + 1 /\ place' = "ended"
        BY DEF EndDayRaises
    <2> QED BY <1>0, <2>2, <2>4, <2>5 DEF LoopTypeOK, EndDayRaises
<1>9. CASE StartAgain
    BY <1>0, <1>9 DEF LoopTypeOK, StartAgain
<1>10. CASE UNCHANGED loopVars
    BY <1>0, <1>10 DEF LoopTypeOK, loopVars
<1> QED BY <1>1, <1>2, <1>3, <1>4, <1>5, <1>6, <1>7, <1>8, <1>9, <1>10 DEF LoopNext, StepOf

LEMMA StepPlaced == LoopIInv /\ [LoopNext]_loopVars => Placed'
<1> SUFFICES ASSUME LoopIInv, [LoopNext]_loopVars PROVE Placed'
    OBVIOUS
<1> USE LoopConstants DEF LoopIInv, LoopTypeOK, Placed, Session, Stop
<1>1. CASE Elapse \/ ClockYields \/ TickRaises
    BY <1>1 DEF Elapse, ClockYields, TickRaises
<1>2. CASE \E refreshed \in BOOLEAN : RunTick(refreshed)
    BY <1>2 DEF RunTick
<1>3. CASE \E s \in Session : StepOf(s)
    BY <1>3, StepMoves DEF NextSession
<1>4. CASE \E s \in Session : TickFills(s) \/ EndDay(s) \/ EndDayRaises(s)
    BY <1>4 DEF TickFills, EndDay, EndDayRaises
<1>5. CASE StartAgain \/ UNCHANGED loopVars
    BY <1>5 DEF StartAgain, loopVars
<1> QED BY <1>1, <1>2, <1>3, <1>4, <1>5 DEF LoopNext, StepOf

\* After the step of session s, those that have had their turn are s and those before.
LEMMA TurnPasses ==
    ASSUME LoopIInv, NEW s \in Session, StepOf(s), NEW r \in Session, HadTurn(r)'
    PROVE  r = s \/ HadTurn(r)
<1>1. place = "paper" /\ turn = s /\ NextSession
    BY StepMoves
<1>2. r <= Sessions /\ s <= Sessions /\ r \in Nat /\ s \in Nat /\ Sessions \in Nat
    BY LoopConstants DEF Session
<1>3. r <= s
    BY <1>1, <1>2 DEF NextSession, HadTurn
<1> QED BY <1>1, <1>2, <1>3 DEF HadTurn

LEMMA StepSquared ==
    LoopIInv /\ [LoopNext]_loopVars => (SquaredIsFlat /\ SquaredOrTold /\ ClosedInTurn)'
<1> SUFFICES ASSUME LoopIInv, [LoopNext]_loopVars
             PROVE  (SquaredIsFlat /\ SquaredOrTold /\ ClosedInTurn)'
    OBVIOUS
<1> USE LoopConstants
<1>0. LoopTypeOK /\ Placed /\ SquaredIsFlat /\ SquaredOrTold /\ ClosedInTurn
    BY DEF LoopIInv
<1>a. CASE Elapse \/ UNCHANGED loopVars
    BY <1>0, <1>a DEF SquaredIsFlat, SquaredOrTold, ClosedInTurn, HadTurn, Elapse, loopVars
<1>b. CASE ClockYields
    <2>1. /\ place = "wait" /\ turn' = 1 /\ UNCHANGED <<held, squared>> /\ minute' \in {minute, now}
          /\ place' \in {"stop", "tick"}
        BY <1>b DEF ClockYields
    <2>2. minute <= minute' /\ minute \in Nat /\ minute' \in Nat
        BY <1>0, <2>1 DEF Placed, LoopTypeOK, Stop
    <2>3. SquaredIsFlat'
        BY <1>0, <2>1, <2>2 DEF SquaredIsFlat
    <2>4. SquaredOrTold'
        BY <2>1 DEF SquaredOrTold, HadTurn
    <2>5. ClosedInTurn'
        BY <2>1 DEF ClosedInTurn, Session
    <2> QED BY <2>3, <2>4, <2>5
<1>c. CASE TickRaises
    <2>1. SquaredIsFlat' /\ SquaredOrTold'
        BY <1>0, <1>c DEF SquaredIsFlat, SquaredOrTold, HadTurn, TickRaises
    <2>2. ClosedInTurn'
        BY <1>0, <1>c DEF Placed, ClosedInTurn, Session, TickRaises
    <2> QED BY <2>1, <2>2
<1>d. CASE \E refreshed \in BOOLEAN : RunTick(refreshed)
    <2>1. /\ place = "tick" /\ place' = "paper" /\ turn = 1
          /\ UNCHANGED <<minute, turn, held, squared, errors>>
        BY <1>0, <1>d DEF RunTick, Placed
    <2>2. \A r \in Session : ~(r < turn)
        BY <2>1 DEF Session
    <2> QED BY <1>0, <2>1, <2>2 DEF SquaredIsFlat, SquaredOrTold, ClosedInTurn, HadTurn
<1>e. CASE \E s \in Session : StepOf(s)
    <2> PICK s \in Session : StepOf(s)
        BY <1>e
    <2>0. /\ place = "paper" /\ turn = s /\ minute' = minute /\ errors \subseteq errors'
          /\ place' \in {"wait", "paper"}
        BY StepMoves DEF NextSession
    <2>1. held \in [Session -> 0 .. MaxHeld] /\ squared \in [Session -> BOOLEAN]
        BY <1>0 DEF LoopTypeOK
    <2>2. \A r \in Session : squared[r] => squared'[r]
        BY <2>1 DEF StepOf, LoadRaises, StepTrades, StepCloses, SquareOffRaises
    <2>3. minute >= SquareOffAt => squared'[s] \/ <<minute, s>> \in errors'
        <3>1. CASE LoadRaises(s) \/ SquareOffRaises(s)
            BY <3>1 DEF LoadRaises, SquareOffRaises, MinuteOf, Report
        <3>2. CASE \E raised \in BOOLEAN : StepTrades(s, raised)
            BY <1>0, <3>2 DEF StepTrades, LoopTypeOK
        <3>3. CASE \E raised \in BOOLEAN : StepCloses(s, raised)
            BY <2>1, <3>3 DEF StepCloses
        <3> QED BY <3>1, <3>2, <3>3 DEF StepOf
    <2>4. SquaredOrTold'
        <3> SUFFICES ASSUME minute >= SquareOffAt, NEW r \in Session, HadTurn(r)'
                     PROVE  squared'[r] \/ <<minute, r>> \in errors'
            BY <2>0 DEF SquaredOrTold, HadTurn
        <3>1. r = s \/ HadTurn(r)
            BY TurnPasses
        <3> QED BY <1>0, <2>0, <2>2, <2>3, <3>1 DEF SquaredOrTold
    <2>5. SquaredIsFlat'
        <3> SUFFICES ASSUME NEW r \in Session, squared'[r]
                     PROVE  held'[r] = 0 /\ minute >= SquareOffAt
            BY <2>0 DEF SquaredIsFlat
        <3>1. CASE \E raised \in BOOLEAN : StepTrades(s, raised)
            <4>1. squared[r] /\ ~(minute >= SquareOffAt)
                BY <1>0, <3>1 DEF StepTrades, LoopTypeOK
            <4> QED BY <1>0, <2>0, <4>1 DEF SquaredIsFlat
        <3>2. CASE \E raised \in BOOLEAN : StepCloses(s, raised)
            <4>1. minute >= SquareOffAt /\ held' = [held EXCEPT ![s] = IF squared[s] THEN @ ELSE 0]
                  /\ squared' = [squared EXCEPT ![s] = TRUE]
                BY <3>2 DEF StepCloses
            <4>2. squared[r] => held[r] = 0
                BY <1>0 DEF SquaredIsFlat
            <4> QED BY <2>1, <4>1, <4>2
        <3>3. CASE SquareOffRaises(s)
            <4>1. squared[r] /\ r # s /\ \E n \in 0 .. held[s] : held' = [held EXCEPT ![s] = n]
                BY <3>3 DEF SquareOffRaises
            <4>2. held'[r] = held[r]
                BY <2>1, <4>1
            <4> QED BY <1>0, <2>0, <4>1, <4>2 DEF SquaredIsFlat
        <3>4. CASE LoadRaises(s)
            <4>1. squared[r] /\ held' = held
                BY <3>4 DEF LoadRaises
            <4> QED BY <1>0, <2>0, <4>1 DEF SquaredIsFlat
        <3> QED BY <3>1, <3>2, <3>3, <3>4 DEF StepOf
    <2> QED BY <2>0, <2>4, <2>5 DEF ClosedInTurn
<1>f. CASE \E s \in Session : TickFills(s)
    BY <1>0, <1>f DEF LoopTypeOK, SquaredIsFlat, SquaredOrTold, ClosedInTurn, HadTurn, TickFills
<1>g. CASE \E s \in Session : EndDay(s)
    <2> PICK s \in Session : EndDay(s)
        BY <1>g
    <2>1. /\ place = "stop" /\ turn = s /\ place' \in {"stop", "ended"} /\ minute' = minute
          /\ held' = [held EXCEPT ![s] = 0] /\ squared' = [squared EXCEPT ![s] = TRUE]
          /\ place' = "stop" => turn' = s + 1
        BY DEF EndDay
    <2>2. held \in [Session -> 0 .. MaxHeld] /\ squared \in [Session -> BOOLEAN]
        BY <1>0 DEF LoopTypeOK
    <2>3. SquaredIsFlat'
        BY <1>0, <2>1, <2>2 DEF SquaredIsFlat
    <2>4. SquaredOrTold'
        BY <2>1 DEF SquaredOrTold, HadTurn
    <2>5. ClosedInTurn'
        BY <1>0, <2>1, <2>2 DEF ClosedInTurn, Session
    <2> QED BY <2>3, <2>4, <2>5
<1>h. CASE \E s \in Session : EndDayRaises(s)
    <2> PICK s \in Session : EndDayRaises(s)
        BY <1>h
    <2> PICK n \in 0 .. held[s] : held' = [held EXCEPT ![s] = n]
        BY DEF EndDayRaises
    <2>1. place = "stop" /\ place' = "ended" /\ UNCHANGED <<minute, squared>>
        BY DEF EndDayRaises
    <2>2. \A r \in Session : held[r] = 0 => held'[r] = 0
        BY <1>0 DEF LoopTypeOK
    <2>3. SquaredIsFlat'
        BY <1>0, <2>1, <2>2 DEF SquaredIsFlat
    <2> QED BY <2>1, <2>3 DEF SquaredOrTold, HadTurn, ClosedInTurn
<1>i. CASE StartAgain
    <2>1. minute' = 0 /\ place' = "wait" /\ squared' = [s \in Session |-> FALSE]
        BY <1>i DEF StartAgain
    <2> QED BY <2>1 DEF SquaredIsFlat, SquaredOrTold, ClosedInTurn
<1> QED BY <1>a, <1>b, <1>c, <1>d, <1>e, <1>f, <1>g, <1>h, <1>i DEF LoopNext, StepOf

LEMMA StepAccounted == LoopIInv /\ [LoopNext]_loopVars => BarsAccountedFor'
<1> SUFFICES ASSUME LoopIInv, [LoopNext]_loopVars PROVE BarsAccountedFor'
    OBVIOUS
<1> USE LoopConstants DEF LoopIInv, LoopTypeOK, BarsAccountedFor, Session
<1>1. CASE \E s \in Session : LoadRaises(s)
    <2> PICK s \in Session : LoadRaises(s)
        BY <1>1
    <2>1. <<minute, s>> \in errors' /\ errors \subseteq errors' /\ history' = history
        BY DEF LoadRaises, MinuteOf, Report
    <2>2. \A b \in 1 .. read'[s] : b \in 1 .. read[s] \/ minute \in b .. DayEnd
        <3>1. /\ Until \in 0 .. DayEnd /\ Until <= minute /\ minute \in 1 .. DayEnd
              /\ read' \in {read, [read EXCEPT ![s] = IF @ < Until THEN Until ELSE @]}
            BY StepMoves DEF StepOf
        <3>2. read'[s] = read[s] \/ read'[s] = Until
            BY <3>1
        <3> QED BY <3>1, <3>2
    <2>3. \A r \in Session \ {s} : read'[r] = read[r]
        BY DEF LoadRaises
    <2> QED BY <2>1, <2>2, <2>3
<1>2. CASE \E s \in Session :
              (\E raised \in BOOLEAN : StepTrades(s, raised) \/ StepCloses(s, raised)) \/ SquareOffRaises(s)
    <2> PICK s \in Session :
            (\E raised \in BOOLEAN : StepTrades(s, raised) \/ StepCloses(s, raised)) \/ SquareOffRaises(s)
        BY <1>2
    <2>1. ReadBars(s) /\ errors \subseteq errors' /\ Until \in 0 .. DayEnd
        BY StepMoves DEF StepOf, StepTrades, StepCloses, SquareOffRaises
    <2>2. \A b \in 1 .. read'[s] : b \in 1 .. read[s] \/ b \in history'[s]
        BY <2>1 DEF ReadBars
    <2>3. \A r \in Session : history[r] \subseteq history'[r] /\ (r # s => read'[r] = read[r])
        BY <2>1 DEF ReadBars
    <2> QED BY <2>1, <2>2, <2>3
<1>3. CASE StartAgain
    BY <1>3 DEF StartAgain
<1>4. CASE UNCHANGED <<read, history>> /\ errors \subseteq errors'
    BY <1>4
<1> QED
    BY <1>1, <1>2, <1>3, <1>4
       DEF LoopNext, loopVars, Elapse, ClockYields, RunTick, TickRaises, TickFills, EndDay,
           EndDayRaises, Report

LEMMA StepEnds == LoopIInv /\ [LoopNext]_loopVars => EndsFlatOrTold'
<1> SUFFICES ASSUME LoopIInv, [LoopNext]_loopVars, place' = "ended",
                    NEW s \in Session
             PROVE  held'[s] = 0 \/ \E t \in 1 .. s : <<Stop, t>> \in errors'
    BY DEF EndsFlatOrTold
<1> USE LoopConstants DEF LoopIInv, LoopTypeOK, EndsFlatOrTold, ClosedInTurn, SquaredIsFlat, Session
<1>1. CASE \E r \in Session : EndDay(r)
    BY <1>1 DEF EndDay
<1>2. CASE \E r \in Session : EndDayRaises(r)
    <2> PICK r \in Session : EndDayRaises(r)
        BY <1>2
    <2>1. <<Stop, r>> \in errors' /\ turn = r /\ place = "stop"
        BY DEF EndDayRaises, Report
    <2>2. s < r => held'[s] = held[s] /\ squared[s]
        BY <2>1 DEF EndDayRaises
    <2>3. r \in Nat /\ s \in Nat /\ 1 <= r
        BY DEF Session
    <2>4. ~(s < r) => r \in 1 .. s
        BY <2>3
    <2>5. s < r => held'[s] = 0
        BY <2>2
    <2> QED BY <2>1, <2>4, <2>5
<1>3. CASE place = "ended" /\ held' = held /\ errors \subseteq errors'
    BY <1>3
<1> QED
    BY <1>1, <1>2, <1>3
       DEF LoopNext, loopVars, Elapse, ClockYields, RunTick, TickRaises, TickFills, StartAgain,
           LoadRaises, StepTrades, StepCloses, SquareOffRaises, MinuteOf, NextSession

LEMMA StepShown == LoopIInv /\ [LoopNext]_loopVars => ErrorsAreShown'
<1> SUFFICES ASSUME LoopIInv, [LoopNext]_loopVars PROVE ErrorsAreShown'
    OBVIOUS
<1> USE LoopConstants DEF LoopIInv, LoopTypeOK, ErrorsAreShown, Placed
<1>1. CASE \E refreshed \in BOOLEAN : RunTick(refreshed)
    BY <1>1 DEF RunTick
<1>2. CASE \E s \in Session : StepOf(s)
    <2> PICK s \in Session : StepOf(s)
        BY <1>2
    <2>1. /\ place = "paper" /\ state' = state /\ state.as_of = minute
          /\ errors' \in {errors, errors \cup {<<minute, s>>}}
        BY StepMoves
    <2>2. \A e \in errors' : e[1] < state.as_of => e \in errors
        BY <2>1
    <2> QED BY <2>1, <2>2
<1>3. CASE place' # "paper"
    BY <1>3
<1>4. CASE UNCHANGED <<place, errors, state>>
    BY <1>4
<1> QED
    BY <1>1, <1>2, <1>3, <1>4
       DEF LoopNext, StepOf, loopVars, Elapse, ClockYields, TickRaises, TickFills, EndDay,
           EndDayRaises, StartAgain

\* The invariant holds in every reachable state.
THEOREM LoopInductive == LoopSpec => []LoopIInv
<1>1. LoopIInv /\ [LoopNext]_loopVars => LoopIInv'
    BY StepLoopType, StepPlaced, StepSquared, StepAccounted, StepEnds, StepShown DEF LoopIInv
<1> QED BY InitLoopIInv, <1>1, PTL DEF LoopSpec

\* Whatever raises, and in whichever session: a bar that counts as read is in the
\* strategy's history or told as failed, a session whose square-off minute is over
\* is flat or told, so is one at the end of the day, and what failed is shown.
THEOREM FailuresAreTold == LoopSpec => []LoopInv
<1>1. LoopIInv => FlatOrTold
    BY DEF LoopIInv, FlatOrTold, SquaredOrTold, HadTurn, SquaredIsFlat
<1>2. LoopIInv => LoopInv
    BY <1>1 DEF LoopIInv, LoopInv
<1> QED BY LoopInductive, <1>2, PTL
==============================================================================
