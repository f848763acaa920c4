------------------------------- MODULE DayProofs -------------------------------
(***************************************************************************)
(* Theorems about a day of the worker that hold for every length of it and *)
(* every setting.  The watchdog (FeedWatchdog): a feed that runs between   *)
(* two minutes streams the universe of the moment, and restarts keep their *)
(* distance.  A strategy (TradingDay): its limits hold, however often the  *)
(* worker restarts.  The two share no state.                               *)
(*                                                                         *)
(* None is inductive.  The first needs every point of a minute at which no *)
(* call is under way; the second needs to relate the attempt the code      *)
(* remembers, stamped with the minute's time, to the restart itself, which *)
(* comes later by at most the time a minute takes; the third needs that    *)
(* what the rules say can be ordered, and that the opening range is over   *)
(* for a stock once it was tried.                                          *)
(***************************************************************************)
EXTENDS FeedWatchdog, TradingDay, FiniteSetTheorems, TLAPS

\* Outside a call the connection streams the list.
StreamsOutsideCalls == life = "up" /\ step # "call" /\ Running => streamed = listed

\* Before its check a minute is not older than it may be busy; the attempt that
\* the watchdog remembers was stamped at most as long before the restart.
AttemptNearRestart ==
    /\ step # "idle" => sinceNow <= MaxBusy
    /\ attemptAge <= restartAge + MaxBusy

IInv == TypeOK /\ StreamsOutsideCalls /\ AttemptNearRestart

------------------------------------------------------------------------------
LEMMA Constants ==
    /\ StaleAfter \in Nat /\ DownAfter \in Nat /\ MinRestart \in Nat /\ SlowRestart \in Nat
    /\ MaxFast \in Nat /\ MaxGap \in Nat /\ MaxBusy \in Nat /\ MaxBusy <= MaxGap
    /\ None \notin Nat /\ None \notin SUBSET Symbols
BY WatchdogAssumption

LEMMA CapType == Cap \in Nat /\ 0 \in Ages /\ Cap \in Ages
BY Constants DEF Cap, Most, Ages

\* A time stamp stays one as it ages, and never becomes "never".
LEMMA OlderType ==
    ASSUME NEW age \in Ages
    PROVE  Older(age) \in Ages /\ Older(age) # None /\ Older(age) \in {age, age + 1}
           /\ (age # Cap => Older(age) = age + 1)
BY Constants, CapType DEF Older, Ages

LEMMA NeverStaysNever == Older(None) = None
BY DEF Older

LEMMA BusyIsAnAge == ASSUME NEW n \in 0 .. MaxBusy PROVE n \in Ages
BY Constants, CapType DEF Ages, Cap, Most

\* What a check or a call leaves is a connection again.
LEMMA ConnectionType ==
    ASSUME TypeOK,
           \/ UNCHANGED fvars
           \/ \E new \in SUBSET Symbols : Relist(new)
           \/ Disconnect \/ Connect \/ ConnectFails
    PROVE  /\ listed' \subseteq Symbols /\ leftover' \subseteq Symbols
           /\ streamed' \in (SUBSET Symbols) \cup {None}
<1>1. listed \subseteq Symbols /\ leftover \subseteq Symbols /\ streamed \in (SUBSET Symbols) \cup {None}
    BY DEF TypeOK
<1> QED BY <1>1 DEF fvars, Relist, Disconnect, Connect, ConnectFails, Running

LEMMA InitIInv == Init => IInv
<1> SUFFICES ASSUME Init PROVE IInv
    OBVIOUS
<1> USE Constants, CapType DEF Init, FInit
<1>1. TypeOK
    BY DEF TypeOK, Stamps
<1>2. StreamsOutsideCalls /\ AttemptNearRestart
    <2>1. 0 <= Cap + MaxBusy
        OBVIOUS
    <2> QED BY <2>1 DEF StreamsOutsideCalls, AttemptNearRestart
<1> QED BY <1>1, <1>2 DEF IInv

\* The conjuncts of TypeOK about the watchdog and its minute, and about the ages.
MinuteTypeOK ==
    /\ life \in {"up", "ended", "failed"} /\ step \in {"idle", "refresh", "call", "check"}
    /\ caller \in {"start", "universe", "watchdog"} /\ phase \in {"before", "open", "after"}
    /\ status \in {"LIVE", "STALE", "DOWN", "OFF"} /\ failures \in 0 .. MaxFast
    /\ status = "LIVE" => anyAge # None /\ failures = 0
AgesTypeOK ==
    /\ sinceNow \in 0 .. MaxGap /\ anyAge \in Stamps /\ tickAge \in [Symbols -> Stamps]
    /\ attemptAge \in Ages /\ coverAge \in Ages /\ restartAge \in Ages

LEMMA TypeParts ==
    TypeOK <=> /\ listed \subseteq Symbols /\ leftover \subseteq Symbols
               /\ streamed \in (SUBSET Symbols) \cup {None}
               /\ MinuteTypeOK /\ AgesTypeOK
BY DEF TypeOK, MinuteTypeOK, AgesTypeOK

LEMMA StepMinuteType == IInv /\ [Next]_wvars => MinuteTypeOK'
<1> SUFFICES ASSUME IInv, [Next]_wvars PROVE MinuteTypeOK'
    OBVIOUS
<1>0. MinuteTypeOK /\ AgesTypeOK
    BY TypeParts DEF IInv
<1> USE Constants
<1>1. CASE (\E s \in Symbols : Tick(s)) \/ IndexTick
    BY <1>0, <1>1 DEF MinuteTypeOK, Tick, IndexTick, progress, watchdog
<1>2. CASE Elapse
    <2>1. anyAge # None => anyAge' # None
        BY <1>0, <1>2, OlderType DEF AgesTypeOK, Stamps, Elapse
    <2> QED BY <1>0, <1>2, <2>1 DEF MinuteTypeOK, Elapse, progress, watchdog
<1>3. CASE NextPhase \/ MinuteBegins \/ SameUniverse
    BY <1>0, <1>3 DEF MinuteTypeOK, NextPhase, MinuteBegins, SameUniverse, progress, watchdog, times
<1>4. CASE \E new \in SUBSET Symbols : NewUniverse(new)
    BY <1>0, <1>4 DEF MinuteTypeOK, NewUniverse, watchdog, times
<1>5. CASE CallDisconnects \/ CallConnects \/ CallFails
    BY <1>0, <1>5 DEF MinuteTypeOK, CallDisconnects, CallConnects, CallFails, AfterCall, progress,
                      watchdog, times
<1>6. CASE CheckIsOff \/ CheckIsStale \/ CheckIsDown
    BY <1>0, <1>6 DEF MinuteTypeOK, CheckIsOff, CheckIsStale, CheckIsDown, Judged, times
<1>7. CASE CheckIsLive
    BY <1>0, <1>7 DEF MinuteTypeOK, CheckIsLive, Judged
<1>8. CASE CheckRestarts
    BY <1>0, <1>8 DEF MinuteTypeOK, CheckRestarts, Least
<1>9. CASE WorkerEnds \/ UNCHANGED wvars
    BY <1>0, <1>9 DEF MinuteTypeOK, WorkerEnds, watchdog, times, wvars, progress
<1> QED BY <1>1, <1>2, <1>3, <1>4, <1>5, <1>6, <1>7, <1>8, <1>9 DEF Next

LEMMA StepAgesType == IInv /\ [Next]_wvars => AgesTypeOK'
<1> SUFFICES ASSUME IInv, [Next]_wvars PROVE AgesTypeOK'
    OBVIOUS
<1>0. MinuteTypeOK /\ AgesTypeOK /\ AttemptNearRestart
    BY TypeParts DEF IInv
<1> USE Constants, CapType
<1>1. CASE (\E s \in Symbols : Tick(s)) \/ IndexTick
    BY <1>0, <1>1 DEF AgesTypeOK, Stamps, Tick, IndexTick
<1>2. CASE Elapse
    <2>1. \A age \in Stamps : Older(age) \in Stamps
        BY OlderType, NeverStaysNever DEF Stamps
    <2>2. sinceNow' \in 0 .. MaxGap
        BY <1>0, <1>2 DEF AgesTypeOK, Elapse
    <2>3. anyAge' \in Stamps /\ tickAge' \in [Symbols -> Stamps]
        BY <1>0, <1>2, <2>1 DEF AgesTypeOK, Elapse
    <2>4. attemptAge' \in Ages /\ coverAge' \in Ages /\ restartAge' \in Ages
        BY <1>0, <1>2, OlderType DEF AgesTypeOK, Elapse
    <2> QED BY <2>2, <2>3, <2>4 DEF AgesTypeOK
<1>3. CASE MinuteBegins
    BY <1>0, <1>3 DEF AgesTypeOK, MinuteBegins
<1>4. CASE CheckIsLive \/ CheckIsStale \/ CheckIsDown
    <2>1. sinceNow \in Ages
        BY <1>0, <1>4, BusyIsAnAge
           DEF AgesTypeOK, AttemptNearRestart, CheckIsLive, CheckIsStale, CheckIsDown, Judged
    <2> QED BY <1>0, <1>4, <2>1 DEF AgesTypeOK, CheckIsLive, CheckIsStale, CheckIsDown, Judged
<1>5. CASE CheckRestarts
    <2>1. sinceNow \in Ages
        BY <1>0, <1>5, BusyIsAnAge DEF AgesTypeOK, AttemptNearRestart, CheckRestarts
    <2> QED BY <1>0, <1>5, <2>1 DEF AgesTypeOK, CheckRestarts
<1>6. CASE UNCHANGED times
    BY <1>0, <1>6 DEF AgesTypeOK, times
<1> QED
    BY <1>1, <1>2, <1>3, <1>4, <1>5, <1>6
       DEF Next, NextPhase, SameUniverse, NewUniverse, CallDisconnects, CallConnects, CallFails,
           CheckIsOff, WorkerEnds, wvars

LEMMA StepTypeOK == IInv /\ [Next]_wvars => TypeOK'
<1> SUFFICES ASSUME IInv, [Next]_wvars PROVE TypeOK'
    OBVIOUS
<1>1. \/ UNCHANGED fvars
      \/ \E new \in SUBSET Symbols : Relist(new)
      \/ Disconnect \/ Connect \/ ConnectFails
    BY DEF Next, Tick, IndexTick, Elapse, NextPhase, MinuteBegins, SameUniverse, NewUniverse,
           CallDisconnects, CallConnects, CallFails, CheckIsOff, CheckIsLive, CheckIsStale,
           CheckIsDown, CheckRestarts, Judged, WorkerEnds, wvars
<1>2. /\ listed' \subseteq Symbols /\ leftover' \subseteq Symbols
      /\ streamed' \in (SUBSET Symbols) \cup {None}
    BY <1>1, ConnectionType DEF IInv
<1>3. MinuteTypeOK' /\ AgesTypeOK'
    BY StepMinuteType, StepAgesType
<1> QED BY <1>2, <1>3 DEF TypeOK, MinuteTypeOK, AgesTypeOK

LEMMA StepStreams == IInv /\ [Next]_wvars => StreamsOutsideCalls'
<1> SUFFICES ASSUME IInv, [Next]_wvars PROVE StreamsOutsideCalls'
    OBVIOUS
<1>0. StreamsOutsideCalls
    BY DEF IInv
<1>1. CASE \E new \in SUBSET Symbols : NewUniverse(new)
    BY <1>1 DEF StreamsOutsideCalls, NewUniverse, Relist, Running
<1>2. CASE CallDisconnects \/ CallConnects \/ CallFails
    BY <1>2 DEF StreamsOutsideCalls, CallDisconnects, CallConnects, CallFails, Disconnect, Connect,
                ConnectFails, Running, progress
<1>3. CASE CheckRestarts \/ WorkerEnds
    BY <1>3 DEF StreamsOutsideCalls, CheckRestarts, WorkerEnds
<1>4. CASE UNCHANGED <<fvars, life>> /\ (step' # "call" => step # "call")
    BY <1>0, <1>4 DEF StreamsOutsideCalls, Running, fvars
<1> QED
    BY <1>1, <1>2, <1>3, <1>4
       DEF Next, Tick, IndexTick, Elapse, NextPhase, MinuteBegins, SameUniverse, CheckIsOff,
           CheckIsLive, CheckIsStale, CheckIsDown, Judged, wvars, progress

LEMMA StepAttempt == IInv /\ [Next]_wvars => AttemptNearRestart'
<1> SUFFICES ASSUME IInv, [Next]_wvars PROVE AttemptNearRestart'
    OBVIOUS
<1>0. AgesTypeOK /\ AttemptNearRestart
    BY TypeParts DEF IInv
<1> USE Constants, CapType
<1>1. CASE Elapse
    <2>1. step # "idle" => sinceNow' <= MaxBusy
        BY <1>0, <1>1 DEF AgesTypeOK, Elapse
    <2>2. Older(attemptAge) <= Older(restartAge) + MaxBusy
        <3>1. attemptAge \in Ages /\ restartAge \in Ages /\ attemptAge <= restartAge + MaxBusy
            BY <1>0 DEF AgesTypeOK, AttemptNearRestart
        <3>2. Older(attemptAge) \in Ages /\ Older(attemptAge) \in {attemptAge, attemptAge + 1}
            BY <3>1, OlderType
        <3>3. Older(restartAge) \in {restartAge, restartAge + 1}
              /\ (restartAge # Cap => Older(restartAge) = restartAge + 1)
            BY <3>1, OlderType
        <3> QED BY <3>1, <3>2, <3>3 DEF Ages
    <2> QED BY <1>1, <2>1, <2>2 DEF AttemptNearRestart, Elapse, progress
<1>2. CASE MinuteBegins
    BY <1>0, <1>2 DEF AttemptNearRestart, MinuteBegins
<1>3. CASE CheckRestarts
    <2>1. sinceNow <= MaxBusy /\ sinceNow \in Nat
        BY <1>0, <1>3 DEF AgesTypeOK, AttemptNearRestart, CheckRestarts
    <2> QED BY <1>3, <2>1 DEF AttemptNearRestart, CheckRestarts
<1>4. CASE UNCHANGED <<sinceNow, attemptAge, restartAge>> /\ (step' # "idle" => step # "idle")
    BY <1>0, <1>4 DEF AttemptNearRestart
<1> QED
    BY <1>1, <1>2, <1>3, <1>4
       DEF Next, Tick, IndexTick, NextPhase, SameUniverse, NewUniverse, CallDisconnects,
           CallConnects, CallFails, CheckIsOff, CheckIsLive, CheckIsStale, CheckIsDown, Judged,
           WorkerEnds, wvars, progress, times

\* The invariant holds in every reachable state.
THEOREM Inductive == Spec => []IInv
<1>1. IInv /\ [Next]_wvars => IInv'
    BY StepTypeOK, StepStreams, StepAttempt DEF IInv
<1> QED BY InitIInv, <1>1, PTL DEF Spec

\* Between two minutes a feed that runs streams the universe of the moment, however
\* the calls of the start, the universe and the watchdog went; with its types.
THEOREM Watches == Spec => []WatchdogInv
<1>1. IInv => WatchdogInv
    BY DEF IInv, WatchdogInv, StreamsOutsideCalls, StreamsTheUniverse
<1> QED BY Inductive, <1>1, PTL

\* The watchdog's restarts keep the interval of the moment between them, fast or
\* slow, but for the time a minute takes before its check.
THEOREM KeepsDistance == Spec => RestartsSpaced
<1>1. IInv /\ CheckRestarts => restartAge + MaxBusy >= Wait
    <2> SUFFICES ASSUME IInv, CheckRestarts PROVE restartAge + MaxBusy >= Wait
        OBVIOUS
    <2>1. AgesTypeOK /\ attemptAge <= restartAge + MaxBusy
        BY TypeParts DEF IInv, AttemptNearRestart
    <2>2. Wait \in Nat /\ attemptAge - sinceNow >= Wait
        BY Constants DEF CheckRestarts, At, Wait
    <2> QED BY Constants, CapType, <2>1, <2>2 DEF AgesTypeOK, Ages
<1>2. IInv /\ [Next]_wvars => [CheckRestarts => restartAge + MaxBusy >= Wait]_wvars
    BY <1>1
<1> QED BY Inductive, <1>2, PTL DEF Spec, RestartsSpaced

------------------------------------------------------------------------------
(* A day of a strategy: its limits.                                        *)

LEMMA TradeConstants ==
    /\ IsFiniteSet(Names) /\ Names \subseteq Nat
    /\ \A name \in {"SCALP", "TREND"} :
           Entry[name].max_per_symbol \in Nat /\ Entry[name].max_per_day \in Nat
    /\ \A d \in TradeDays, s \in Names :
           /\ d.k[s] \in Nat \ {0} /\ d.bars[s] \in Seq([at : Nat, volume : Nat, open : Nat,
                                                         high : Nat, low : Nat, close : Nat])
BY TradeAssumption

AnyOf(S) == CHOOSE x \in S : TRUE
Counting == INSTANCE FoldFacts WITH Op <- +, Base <- 0, Pick <- AnyOf

\* The day's total is a fold, and the facts about sums hold of it.
LEMMA TotalIs ==
    /\ \A f : DOMAIN f = Names => Total(f) = Counting!Fold(f, Names)
    /\ Counting!Adds /\ \A S : IsFiniteSet(S) => Counting!IsFiniteSet(S) /\ Counting!Picks(S)
<1>1. ASSUME NEW f, DOMAIN f = Names
      PROVE  Total(f) = Counting!Fold(f, Names)
    BY <1>1 DEF Total, SumFunction, SumFunctionOnSet, FoldFunctionOnSet, MapThenFoldSet,
                Counting!Fold, Counting!MapThenFoldSet, AnyOf
<1>2. \A S : IsFiniteSet(S) => Counting!IsFiniteSet(S)
    BY DEF IsFiniteSet, Counting!IsFiniteSet
<1>3. Counting!Adds /\ \A S : Counting!Picks(S)
    BY DEF Counting!Picks, AnyOf, Counting!Adds
<1> QED BY <1>1, <1>2, <1>3

\* The values of some stocks rise by one, and so does the total for each.
LEMMA TotalRises ==
    ASSUME NEW f \in [Names -> Nat], NEW T \in SUBSET Names, NEW h \in [Names -> Nat],
           \A s \in Names : h[s] = IF s \in T THEN f[s] + 1 ELSE f[s]
    PROVE  Total(h) = Total(f) + Cardinality(T) /\ Total(f) \in Nat
<1> DEFINE Sum(g, V) == Counting!Fold(g, V)
           Bad == {V \in SUBSET Names : Sum(h, V) # Sum(f, V) + Cardinality(V \cap T)}
           r(V) == AnyOf(V)
           U(V) == Counting!Rest(V)
<1>1. IsFiniteSet(Names) /\ Counting!IsFiniteSet(Names) /\ Counting!Picks(Names) /\ Counting!Adds
    BY TotalIs, TradeConstants
<1>2. f \in [Names -> Int] /\ h \in [Names -> Int]
    OBVIOUS
<1>3. \A V \in SUBSET Names :
          /\ Sum(f, V) \in Int
          /\ V = {} => Sum(f, V) = 0 /\ Sum(h, V) = 0
          /\ V # {} => /\ r(V) \in V /\ U(V) = V \ {r(V)}
                       /\ Sum(f, V) = f[r(V)] + Sum(f, U(V)) /\ Sum(f, U(V)) \in Int
                       /\ Sum(h, V) = h[r(V)] + Sum(h, U(V))
    BY <1>1, <1>2, Counting!SumStep
<1> HIDE DEF Sum, r, U
<1>4. Bad = {}
    <2>1. SUFFICES ASSUME Bad # {} PROVE FALSE
        BY <2>1
    <2>2. Bad \in SUBSET (SUBSET Names)
        OBVIOUS
    <2> HIDE DEF Bad
    <2>3. PICK V \in Bad : \A W \in SUBSET V : W # V => W \notin Bad
        BY <1>1, <2>1, <2>2, Counting!Smallest
    <2> USE DEF Bad
    <2>4. V \in SUBSET Names /\ Sum(h, V) # Sum(f, V) + Cardinality(V \cap T)
        OBVIOUS
    <2>5. \A W \in SUBSET V : W # V => Sum(h, W) = Sum(f, W) + Cardinality(W \cap T)
        BY <2>3, <2>4
    <2> HIDE DEF Bad
    <2>6. CASE V = {}
        <3>1. V \cap T = {}
            BY <2>6
        <3> QED BY <1>3, <2>4, <2>6, <3>1, FS_EmptySet
    <2>7. CASE V # {}
        <3> DEFINE p == r(V)
                   W == U(V)
        <3>1. p \in V /\ W = V \ {p} /\ W # V /\ W \in SUBSET V
            BY <1>3, <2>4, <2>7
        <3>2. Sum(h, W) = Sum(f, W) + Cardinality(W \cap T)
            BY <2>5, <3>1
        <3>3. Sum(f, V) = f[p] + Sum(f, W) /\ Sum(h, V) = h[p] + Sum(h, W) /\ Sum(f, W) \in Int
            BY <1>3, <2>4, <2>7
        <3>4. f[p] \in Int /\ h[p] = IF p \in T THEN f[p] + 1 ELSE f[p]
            BY <2>4, <3>1
        <3>5. IsFiniteSet(V \cap T)
            <4>1. V \cap T \subseteq Names
                BY <2>4
            <4> QED BY <1>1, <4>1, FS_Subset
        <3>6. Cardinality(V \cap T) \in Nat /\ Cardinality(W \cap T) \in Nat
            <4>1. W \cap T \subseteq V \cap T
                BY <3>1
            <4>2. IsFiniteSet(W \cap T)
                BY <3>5, <4>1, FS_Subset
            <4> QED BY <3>5, <4>2, FS_CardinalityType
        <3> HIDE DEF p, W
        <3>7. CASE p \in T
            <4>1. p \in V \cap T /\ W \cap T = (V \cap T) \ {p}
                BY <3>1, <3>7
            <4>2. Cardinality((V \cap T) \ {p}) = Cardinality(V \cap T) - 1
                BY <3>5, <4>1, FS_RemoveElement
            <4>3. Cardinality(W \cap T) = Cardinality(V \cap T) - 1
                BY <4>1, <4>2
            <4> QED BY <2>4, <3>2, <3>3, <3>4, <3>6, <3>7, <4>3
        <3>8. CASE p \notin T
            <4>1. W \cap T = V \cap T
                BY <3>1, <3>8
            <4> QED BY <2>4, <3>2, <3>3, <3>4, <3>6, <3>8, <4>1
        <3> QED BY <3>7, <3>8
    <2> QED BY <2>6, <2>7
<1>5. Names \in SUBSET Names /\ Names \cap T = T
    OBVIOUS
<1>6. Sum(h, Names) = Sum(f, Names) + Cardinality(T)
    BY <1>4, <1>5
<1>7. Total(h) = Sum(h, Names) /\ Total(f) = Sum(f, Names)
    BY TotalIs DEF Sum
<1>8. Sum(f, Names) \in Nat
    BY <1>1, Counting!SumType DEF Sum
<1> QED BY <1>6, <1>7, <1>8

\* The total is a number, and zero when all are.
LEMMA TotalIsNat ==
    ASSUME NEW f \in [Names -> Nat]
    PROVE  Total(f) \in Nat /\ ((\A s \in Names : f[s] = 0) => Total(f) = 0)
<1>1. Total(f) = Counting!Fold(f, Names) /\ Counting!Adds
      /\ Counting!IsFiniteSet(Names) /\ Counting!Picks(Names)
    BY TotalIs, TradeConstants
<1>2. (\A s \in Names : f[s] = 0) => f \in [Names -> {0}]
    OBVIOUS
<1> QED BY <1>1, <1>2, Counting!SumType

\* Less in each stock is not more in all.
LEMMA TotalFalls ==
    ASSUME NEW f \in [Names -> Nat], NEW h \in [Names -> Nat], \A s \in Names : h[s] <= f[s]
    PROVE  Total(h) <= Total(f)
<1>1. f \in [Names -> Int] /\ h \in [Names -> Int]
    OBVIOUS
<1>2. Counting!Fold(h, Names) <= Counting!Fold(f, Names)
    BY <1>1, TotalIs, TradeConstants, Counting!SumMonotonic
<1> QED BY <1>2, TotalIs

\* Of a finite set some element comes last, in an order that is total on it.
LEMMA LastOfAll ==
    ASSUME NEW A, IsFiniteSet(A), A # {}, NEW R,
           \A a, b \in A : a # b => <<a, b>> \in R \/ <<b, a>> \in R,
           \A a, b, c \in A : <<a, b>> \in R /\ <<b, c>> \in R => <<a, c>> \in R
    PROVE  \E c \in A : \A b \in A \ {c} : <<b, c>> \in R
<1> DEFINE Bad == {V \in SUBSET A : V # {} /\ ~\E c \in V : \A b \in V \ {c} : <<b, c>> \in R}
<1>1. SUFFICES ASSUME Bad # {} PROVE FALSE
    <2>1. A \in SUBSET A
        OBVIOUS
    <2> QED BY <1>1, <2>1
<1>2. Bad \in SUBSET (SUBSET A) /\ Counting!IsFiniteSet(A)
    BY TotalIs
<1> HIDE DEF Bad
<1>3. PICK V \in Bad : \A W \in SUBSET V : W # V => W \notin Bad
    BY <1>1, <1>2, Counting!Smallest
<1> USE DEF Bad
<1>4. V \in SUBSET A /\ V # {} /\ ~\E c \in V : \A b \in V \ {c} : <<b, c>> \in R
    OBVIOUS
<1>5. \A W \in SUBSET V : W # V /\ W # {} => \E c \in W : \A b \in W \ {c} : <<b, c>> \in R
    BY <1>3, <1>4
<1> HIDE DEF Bad
<1>6. PICK x \in V : TRUE
    BY <1>4
<1>7. V \ {x} # {}
    BY <1>4
<1>8. PICK c \in V \ {x} : \A b \in (V \ {x}) \ {c} : <<b, c>> \in R
    BY <1>5, <1>7
<1>9. x \in A /\ c \in A /\ x # c
    BY <1>4
<1>10. CASE <<x, c>> \in R
    BY <1>4, <1>8, <1>10
<1>11. CASE <<c, x>> \in R
    <2>1. \A b \in V \ {x} : <<b, x>> \in R
        <3> TAKE b \in V \ {x}
        <3>1. b = c \/ <<b, c>> \in R
            BY <1>8
        <3>2. b \in A
            BY <1>4
        <3> QED BY <1>9, <1>11, <3>1, <3>2
    <2> QED BY <1>4, <2>1
<1> QED BY <1>9, <1>10, <1>11

\* Of some candidates one is the weakest, when any two can be compared.
LEMMA WeakestOfAll ==
    ASSUME NEW A, IsFiniteSet(A), A # {},
           \A a, b \in A : a # b => Stronger(a, b) \/ Stronger(b, a),
           \A a, b, c \in A : Stronger(a, b) /\ Stronger(b, c) => Stronger(a, c)
    PROVE  \E c \in A : \A b \in A \ {c} : Stronger(b, c)
<1> DEFINE R == {p \in A \X A : Stronger(p[1], p[2])}
<1>1. \A a, b \in A : <<a, b>> \in R <=> Stronger(a, b)
    OBVIOUS
<1> HIDE DEF R
<1>2. \A a, b \in A : a # b => <<a, b>> \in R \/ <<b, a>> \in R
    BY <1>1
<1>3. \A a, b, c \in A : <<a, b>> \in R /\ <<b, c>> \in R => <<a, c>> \in R
    BY <1>1
<1>4. PICK c \in A : \A b \in A \ {c} : <<b, c>> \in R
    BY <1>2, <1>3, LastOfAll
<1>5. \A b \in A \ {c} : Stronger(b, c)
    BY <1>1, <1>4
<1> QED BY <1>5

\* Of some numbers one is the greatest.
LEMMA GreatestOfAll ==
    ASSUME NEW S \in SUBSET Nat, IsFiniteSet(S), S # {}
    PROVE  Max(S) \in S /\ \A y \in S : y <= Max(S)
<1> DEFINE R == {p \in S \X S : p[1] < p[2]}
<1>1. \A a, b \in S : <<a, b>> \in R <=> a < b
    OBVIOUS
<1> HIDE DEF R
<1>2. \A a, b \in S : a # b => <<a, b>> \in R \/ <<b, a>> \in R
    BY <1>1
<1>3. \A a, b, c \in S : <<a, b>> \in R /\ <<b, c>> \in R => <<a, c>> \in R
    <2>1. \A a, b, c \in S : a < b /\ b < c => a < c
        OBVIOUS
    <2> QED BY <1>1, <2>1
<1>4. PICK x \in S : \A y \in S \ {x} : <<y, x>> \in R
    BY <1>2, <1>3, LastOfAll
<1>5. \A y \in S : y <= x
    <2> TAKE y \in S
    <2>1. x \in Nat /\ y \in Nat /\ (y = x \/ y < x)
        BY <1>1, <1>4
    <2> QED BY <2>1
<1>6. \E y \in S : \A z \in S : y >= z
    BY <1>5
<1> QED BY <1>6 DEF Max

------------------------------------------------------------------------------
(* What the rules say is a number.                                         *)

Strong(entry) == entry.strength \in Int

\* The candles of a stock that has traded end with one, on either chart.
LEMMA LastOnChart ==
    ASSUME day \in TradeDays, NEW m \in Int, NEW s \in ClosedIn(m), NEW direction
    PROVE  Last(OnChart(s, m, direction)).close \in Int
<1> DEFINE bars == day.bars[s]
           before == {i \in DOMAIN bars : bars[i].at < m}
           n == Cardinality(before)
           Candles == [at : Nat, volume : Nat, open : Nat, high : Nat, low : Nat, close : Nat]
<1>1. s \in Names /\ \E b \in ToSet(bars) : b.at = m - 1
    BY DEF ClosedIn
<1>2. bars \in Seq(Candles) /\ day.k[s] \in Nat
    BY <1>1, TradeConstants
<1> HIDE DEF bars, Candles
<1>3. DOMAIN bars = 1 .. Len(bars) /\ Len(bars) \in Nat /\ \A i \in DOMAIN bars : bars[i] \in Candles
    BY <1>2
<1>4. PICK i \in DOMAIN bars : bars[i].at = m - 1
    BY <1>1 DEF ToSet, bars
<1>5. i \in before
    BY <1>4
<1>6. n \in 1 .. Len(bars)
    <2>1. IsFiniteSet(1 .. Len(bars)) /\ Cardinality(1 .. Len(bars)) = Len(bars)
        <3>1. 1 \in Int /\ Len(bars) \in Int
            BY <1>3
        <3>2. Cardinality(1 .. Len(bars)) = IF 1 > Len(bars) THEN 0 ELSE Len(bars) - 1 + 1
            BY <3>1, FS_Interval
        <3>3. IsFiniteSet(1 .. Len(bars))
            BY <3>1, FS_Interval
        <3> QED BY <1>3, <3>2, <3>3
    <2>2. before \subseteq 1 .. Len(bars)
        BY <1>3
    <2>3. IsFiniteSet(before) /\ n <= Len(bars)
        BY <2>1, <2>2, FS_Subset
    <2>4. n \in Nat /\ n # 0
        BY <1>5, <2>3, FS_CardinalityType, FS_EmptySet
    <2> QED BY <1>3, <2>3, <2>4
<1> DEFINE closed == CandlesAt(s, m)
<1>7. closed = [j \in 1 .. n |-> bars[j]]
    BY <1>3, <1>6 DEF CandlesAt, bars
<1> HIDE DEF n, closed
<1>8. Len(closed) = n /\ DOMAIN closed = 1 .. n /\ closed[n] = bars[n] /\ bars[n] \in Candles
    BY <1>3, <1>6, <1>7
<1>9. bars[n].close \in Nat
    BY <1>8 DEF Candles
<1>10. CASE direction = "LONG"
    BY <1>8, <1>9, <1>10 DEF OnChart, Oriented, Last, closed
<1>11. CASE direction # "LONG"
    <2> DEFINE other == [j \in 1 .. n |-> MirrorBar(closed[j], day.k[s])]
    <2>1. OnChart(s, m, direction) = other
        BY <1>8, <1>11 DEF OnChart, Oriented, closed
    <2>2. Len(other) = n /\ other[n] = MirrorBar(bars[n], day.k[s])
        BY <1>6, <1>8
    <2>3. MirrorBar(bars[n], day.k[s]).close \in Int
        <3> DEFINE b == bars[n]
                   k == day.k[s]
        <3>1. k \in Nat /\ b \in Candles /\ b.close \in Nat
            BY <1>2, <1>8, <1>9
        <3>2. MirrorBar(b, k) = [b EXCEPT !.open = 2*k - @, !.high = 2*k - b.low, !.low = 2*k - b.high,
                                          !.close = 2*k - @]
            BY DEF MirrorBar
        <3> HIDE DEF b, k
        <3>3. MirrorBar(b, k).close = 2*k - b.close
            BY <3>1, <3>2 DEF Candles
        <3> QED BY <3>1, <3>3 DEF b, k
    <2> QED BY <2>1, <2>2, <2>3 DEF Last
<1> QED BY <1>10, <1>11

\* An entry says how strong its stock is, as a number.
LEMMA EntryIsStrong ==
    ASSUME NEW name, NEW bars, NEW risk, NEW k \in Nat \ {0}, Last(bars).close \in Int
    PROVE  EntryOf(name, bars, risk, k) = None \/ Strong(EntryOf(name, bars, risk, k))
<1> DEFINE price == Last(bars).close
           wide == WidenedRisk(name, risk, bars)
           qty == SizeOf(Entry[name].risk_per_trade, Entry[name].max_position_value, wide, price)
           entry == [qty |-> qty, risk |-> wide, strength |-> Pct(price, k)]
<1>1. EntryOf(name, bars, risk, k) \in {None, entry}
    BY DEF EntryOf
<1> HIDE DEF wide, qty
<1>2. Pct(price, k) \in Int
    BY DEF Pct
<1>3. Strong(entry)
    BY <1>2 DEF Strong
<1> QED BY <1>1, <1>3

\* And so does what the rules say of a minute.
LEMMA ReadingIsStrong ==
    ASSUME day \in TradeDays, NEW m \in Int, NEW s \in ClosedIn(m), NEW direction
    PROVE  LET entry == Reading(s, m, direction).entry IN entry = None \/ Strong(entry)
<1> DEFINE bars == OnChart(s, m, direction)
           check == TrendCheck(bars, PrepOf(s, direction))
           signal == ScalpSignal(bars)
           EntryAt(risk) == EntryOf(trader, bars, risk, day.k[s])
           entry == Reading(s, m, direction).entry
<1>1. \A risk : EntryAt(risk) = None \/ Strong(EntryAt(risk))
    <2>1. Last(bars).close \in Int
        BY LastOnChart
    <2>2. day.k[s] \in Nat \ {0}
        BY TradeConstants DEF ClosedIn
    <2> HIDE DEF bars
    <2> QED BY <2>1, <2>2, EntryIsStrong
<1> DEFINE moves == Last(bars).close > day.k[s]
           states == IF trader = "SCALP" \/ check = None THEN None ELSE check.states
           setup == IF signal = None THEN None ELSE signal.setup
<1>2. Reading(s, m, direction) =
          [moves |-> moves, states |-> states, setup |-> setup,
           entry |-> IF trader = "SCALP" THEN IF signal = None THEN None ELSE EntryAt(signal.risk)
                     ELSE IF check = None THEN None
                     ELSE IF IndicatorsAgree(bars) THEN EntryAt(check.risk) ELSE None]
    BY DEF Reading
<1> HIDE DEF moves, states, setup, EntryAt, check, signal, bars
<1>3. entry = None \/ entry = EntryAt(check.risk) \/ entry = EntryAt(signal.risk)
    BY <1>2
<1> QED BY <1>1, <1>3

------------------------------------------------------------------------------
(* The entries of a minute fit into the day.                               *)

\* A finite set has no more images than elements.
LEMMA ImageIsFinite ==
    ASSUME NEW S, IsFiniteSet(S), NEW f
    PROVE  IsFiniteSet({f[x] : x \in S}) /\ Cardinality({f[x] : x \in S}) <= Cardinality(S)
<1> DEFINE T == {f[x] : x \in S}
           g == [x \in S |-> f[x]]
<1>1. g \in Surjection(S, T)
    BY DEF Surjection
<1> QED BY <1>1, FS_Surjection

\* The minute of a candle is in the day.
LEMMA MinuteInDay ==
    ASSUME day \in TradeDays, NEW m \in Nat, NEW s \in ClosedIn(m)
    PROVE  m \in 1 .. LastMinute
<1> DEFINE barsOf == [r \in Names |-> ToSet(day.bars[r])]
           All == UNION {barsOf[r] : r \in Names}
           after == [b \in All |-> b.at + 1]
           minutes == {after[b] : b \in All}
           Candles == [at : Nat, volume : Nat, open : Nat, high : Nat, low : Nat, close : Nat]
<1>1. \A r \in Names : IsFiniteSet(barsOf[r]) /\ \A b \in barsOf[r] : b.at \in Nat
    <2> TAKE r \in Names
    <2> DEFINE bars == day.bars[r]
    <2>1. bars \in Seq(Candles)
        BY TradeConstants
    <2>2. barsOf[r] = {bars[i] : i \in DOMAIN bars}
        BY DEF ToSet
    <2> HIDE DEF bars, barsOf, Candles
    <2>3. DOMAIN bars = 1 .. Len(bars) /\ Len(bars) \in Int /\ \A i \in DOMAIN bars : bars[i] \in Candles
        BY <2>1
    <2>4. IsFiniteSet(DOMAIN bars)
        <3>1. 1 \in Int /\ Len(bars) \in Int
            BY <2>3
        <3>2. IsFiniteSet(1 .. Len(bars))
            BY <3>1, FS_Interval
        <3> QED BY <2>3, <3>2
    <2>5. IsFiniteSet(barsOf[r])
        BY <2>2, <2>4, ImageIsFinite
    <2>6. \A b \in barsOf[r] : b \in Candles
        BY <2>2, <2>3
    <2> QED BY <2>5, <2>6 DEF Candles
<1>2. PICK b \in barsOf[s] : b.at = m - 1
    BY DEF ClosedIn
<1>3. s \in Names
    BY DEF ClosedIn
<1>4. LastMinute = Max(minutes)
    <2>1. All = UNION {ToSet(day.bars[r]) : r \in Names}
        OBVIOUS
    <2>2. minutes = {x.at + 1 : x \in All}
        OBVIOUS
    <2> HIDE DEF All, minutes
    <2> QED BY <2>1, <2>2 DEF LastMinute
<1> HIDE DEF barsOf
<1>5. IsFiniteSet(All)
    <2>1. IsFiniteSet({barsOf[r] : r \in Names}) /\ \A T \in {barsOf[r] : r \in Names} : IsFiniteSet(T)
        BY <1>1, TradeConstants, ImageIsFinite
    <2> QED BY <2>1, FS_UNION
<1>6. \A x \in All : x.at \in Nat
    BY <1>1
<1>7. b \in All
    BY <1>2, <1>3
<1> HIDE DEF All
<1>8. m \in minutes /\ minutes \in SUBSET Nat
    <2>1. \A x \in All : after[x] = x.at + 1 /\ after[x] \in Nat
        BY <1>6
    <2>2. after[b] = m
        BY <1>2, <1>6, <1>7
    <2> HIDE DEF after
    <2> QED BY <1>7, <2>1, <2>2
<1>9. IsFiniteSet(minutes)
    BY <1>5, ImageIsFinite
<1> HIDE DEF minutes
<1>10. m <= LastMinute /\ LastMinute \in Nat
    BY <1>4, <1>8, <1>9, GreatestOfAll
<1>11. m # 0
    BY <1>2, <1>6, <1>7
<1> QED BY <1>10, <1>11

\* What a minute may take, in turn, stays within the trades of the day.
LEMMA AcceptedFit ==
    ASSUME NEW C, IsFiniteSet(C), \A c \in C : c.symbol \in Nat /\ c.strength \in Int,
           \A b, c \in C : b.symbol = c.symbol => b = c, NEW refused,
           trader \in {"SCALP", "TREND"}, Total(count) \in Nat,
           Total(count) <= Entry[trader].max_per_day
    PROVE  LET accepted == {c.symbol : c \in PlacedInTurn(C, refused)} \ refused
           IN  Total(count) + Cardinality(accepted) <= Entry[trader].max_per_day
<1> DEFINE most == Entry[trader].max_per_day
           A == {c \in PlacedInTurn(C, refused) : c.symbol \notin refused}
           symbol == [c \in A |-> c.symbol]
           taken(c) == {b \in C : Stronger(b, c) /\ b.symbol \notin refused}
<1>1. most \in Nat
    BY TradeConstants
<1>2. A \subseteq C /\ \A c \in A : Total(count) + Cardinality(taken(c)) < most
    BY DEF PlacedInTurn
<1>3. IsFiniteSet(A) /\ Cardinality(A) \in Nat
    BY <1>2, FS_Subset, FS_CardinalityType
<1>4. {c.symbol : c \in PlacedInTurn(C, refused)} \ refused = {symbol[c] : c \in A}
    OBVIOUS
<1>5. IsFiniteSet({symbol[c] : c \in A}) /\ Cardinality({symbol[c] : c \in A}) <= Cardinality(A)
    BY <1>3, ImageIsFinite
<1>6. Cardinality({symbol[c] : c \in A}) \in Nat
    BY <1>5, FS_CardinalityType
<1>7. \A c \in A : taken(c) = {b \in C : Stronger(b, c) /\ b.symbol \notin refused}
    OBVIOUS
<1>8. \A c \in A : c.symbol \notin refused
    OBVIOUS
<1> HIDE DEF A, symbol, most, taken
<1>9. Total(count) + Cardinality(A) <= most
    <2>1. CASE A = {}
        <3>1. Cardinality(A) = 0
            BY <2>1, FS_EmptySet
        <3> QED BY <3>1, <1>1 DEF most
    <2>2. CASE A # {}
        <3>1. \A a, b \in A : a # b => Stronger(a, b) \/ Stronger(b, a)
            BY <1>2 DEF Stronger
        <3>2. \A a, b, c \in A : Stronger(a, b) /\ Stronger(b, c) => Stronger(a, c)
            <4>1. \A c \in A : c.symbol \in Nat /\ c.strength \in Int
                BY <1>2
            <4> QED BY <4>1 DEF Stronger
        <3>3. PICK c \in A : \A b \in A \ {c} : Stronger(b, c)
            BY <1>3, <2>2, <3>1, <3>2, WeakestOfAll
        <3>4. A \ {c} \subseteq taken(c)
            BY <1>2, <1>7, <1>8, <3>3
        <3>5. IsFiniteSet(taken(c)) /\ Cardinality(taken(c)) \in Nat
            <4>1. taken(c) \subseteq C
                BY <1>7
            <4> QED BY <4>1, FS_Subset, FS_CardinalityType
        <3>6. Cardinality(A \ {c}) <= Cardinality(taken(c))
            BY <3>4, <3>5, FS_Subset
        <3>7. Cardinality(A \ {c}) = Cardinality(A) - 1
            BY <1>3, FS_RemoveElement
        <3>8. Total(count) + Cardinality(taken(c)) < most
            BY <1>2
        <3> QED BY <1>1, <1>3, <3>5, <3>6, <3>7, <3>8
    <2> QED BY <2>1, <2>2
<1>10. Total(count) + Cardinality({symbol[c] : c \in A}) <= most
    BY <1>1, <1>3, <1>5, <1>6, <1>9
<1> QED BY <1>4, <1>10 DEF most

------------------------------------------------------------------------------
(* The limits.                                                             *)

SaysNumbers ==
    trader # "ORB" =>
        \A m \in 1 .. LastMinute : \A s \in ClosedIn(m), d \in Direction :
            says[s][m][d].entry = None \/ Strong(says[s][m][d].entry)

\* The limits, and what they rest on: with the opening range a stock that was tried is over.
TradeIInv ==
    /\ trader \in {"SCALP", "TREND", "ORB"} /\ day \in TradeDays /\ minute \in Nat
    /\ count \in [Names -> Nat] /\ waiting \in SUBSET Names /\ holding \in SUBSET Names
    /\ SaysNumbers
    /\ trader = "ORB" => \A s \in Names : count[s] > 0 => s \in finished
    /\ LimitsHold

PerStock == IF trader = "ORB" THEN 1 ELSE Entry[trader].max_per_symbol

\* A candidate is of its stock, and its strength is a number.
LEMMA CandidateIs ==
    ASSUME NEW s, NEW m, NEW direction, NEW nifty, Candidate(s, m, direction, nifty) # None,
           says[s][m][direction].entry = None \/ Strong(says[s][m][direction].entry)
    PROVE  /\ Candidate(s, m, direction, nifty).symbol = s
           /\ Candidate(s, m, direction, nifty).strength \in Int
<1> DEFINE entry == says[s][m][direction].entry
           fresh == FreshNow(s, direction, says[s][m][direction].states)
           named(setup) == [symbol |-> s, direction |-> direction, setup |-> setup, qty |-> entry.qty,
                            risk |-> entry.risk, strength |-> entry.strength]
           c == Candidate(s, m, direction, nifty)
<1>1. c = None \/ (entry # None /\ (c = named(says[s][m][direction].setup) \/ c = named(TrendSetups[Min(fresh)])))
    BY DEF Candidate
<1>2. \A setup : named(setup).symbol = s /\ named(setup).strength = entry.strength
    OBVIOUS
<1>3. entry # None => entry.strength \in Int
    BY DEF Strong
<1> HIDE DEF named, entry, fresh
<1> QED BY <1>1, <1>2, <1>3

\* Stocks that have nothing open and are below their limit may take one entry more.
LEMMA EntriesKeep ==
    ASSUME TradeIInv, NEW accepted \in SUBSET Names,
           \A s \in accepted : s \notin waiting \cup holding /\ count[s] < PerStock,
           count' = [s \in Names |-> IF s \in accepted THEN count[s] + 1 ELSE count[s]],
           waiting' = waiting \cup accepted, UNCHANGED <<trader, holding>>,
           trader # "ORB" => Total(count) + Cardinality(accepted) <= Entry[trader].max_per_day
    PROVE  count' \in [Names -> Nat] /\ waiting' \in SUBSET Names /\ LimitsHold'
<1>1. count \in [Names -> Nat] /\ waiting \in SUBSET Names /\ holding \in SUBSET Names /\ LimitsHold
    BY DEF TradeIInv
<1>2. count' \in [Names -> Nat] /\ \A s \in Names : count'[s] = IF s \in accepted THEN count[s] + 1 ELSE count[s]
    BY <1>1
<1>3. PerStock \in Nat
    BY TradeConstants DEF PerStock, TradeIInv
<1>4. waiting' \cap holding' = {}
    BY <1>1 DEF LimitsHold
<1>5. \A s \in waiting' \cup holding' : count'[s] > 0
    <2> TAKE s \in waiting' \cup holding'
    <2>1. s \in Names /\ count[s] \in Nat
        BY <1>1
    <2>2. s \in accepted \/ count[s] > 0
        BY <1>1 DEF LimitsHold
    <2> QED BY <1>2, <2>1, <2>2
<1>6. \A s \in Names : count'[s] <= PerStock
    <2> TAKE s \in Names
    <2>1. count[s] \in Nat /\ count[s] <= PerStock
        BY <1>1 DEF LimitsHold, PerStock
    <2> QED BY <1>2, <1>3, <2>1
<1>7. trader # "ORB" => Total(count') <= Entry[trader].max_per_day
    <2>1. Total(count') = Total(count) + Cardinality(accepted)
        BY <1>1, <1>2, TotalRises
    <2> QED BY <2>1
<1>8. \A s \in Names : count'[s] <= IF trader' = "ORB" THEN 1 ELSE Entry[trader'].max_per_symbol
    BY <1>6 DEF PerStock
<1>9. Total(count)' = Total(count')
    BY DEF Total
<1> QED BY <1>1, <1>2, <1>4, <1>5, <1>7, <1>8, <1>9 DEF LimitsHold

\* An order of the opening range is an attempt that is over.
LEMMA AttemptIs == \A s, m : OrbAttempt(s, m).order # None =>
                        OrbAttempt(s, m).over /\ OrbAttempt(s, m).order.symbol = s
<1> SUFFICES ASSUME NEW s, NEW m, OrbAttempt(s, m).order # None
             PROVE  OrbAttempt(s, m).over /\ OrbAttempt(s, m).order.symbol = s
    OBVIOUS
<1> DEFINE break == OrbBreak(Last(CandlesAt(s, m)), OrbLevels(CandlesAt(s, m)))
           qty == SizeOf(Orb.risk_per_trade, Orb.max_position_value, Fine(break.risk), Last(CandlesAt(s, m)).close)
           chance == [symbol |-> s, setup |-> "ORB", qty |-> qty,
                     direction |-> IF break.side = "BUY" THEN "LONG" ELSE "SHORT",
                     risk |-> Fine(break.risk), strength |-> 0]
<1>1. OrbAttempt(s, m) = IF OrbLevels(CandlesAt(s, m)) = None THEN [over |-> TRUE, order |-> None]
                         ELSE IF break = None THEN [over |-> FALSE, order |-> None]
                         ELSE [over |-> TRUE, order |-> IF qty < 1 THEN None ELSE chance]
    BY DEF OrbAttempt
<1>2. chance.symbol = s
    OBVIOUS
<1> HIDE DEF qty, break, chance
<1> QED BY <1>1, <1>2

\* Everything but the entries stands still.
LEMMA DayStands ==
    ASSUME TradeIInv, UNCHANGED <<trader, day, says>>, minute' \in Nat,
           count' \in [Names -> Nat], waiting' \in SUBSET Names, holding' \in SUBSET Names,
           trader = "ORB" => \A s \in Names : count'[s] > 0 => s \in finished', LimitsHold'
    PROVE  TradeIInv'
<1>1. SaysNumbers' = SaysNumbers
    BY DEF SaysNumbers, LastMinute, ClosedIn, Strong
<1> QED BY <1>1 DEF TradeIInv

\* A minute of a strategy with a direction.
LEMMA OnBarsKeeps ==
    ASSUME TradeIInv, trader # "ORB", minute' = minute + 1, UNCHANGED <<trader, day, says, holding, finished>>,
           NEW direction \in Direction, NEW nifty, NEW refused,
           OnBars(minute', direction, nifty, refused)
    PROVE  TradeIInv'
<1> DEFINE m == minute'
           considered == Considered(m, direction)
           named == [s \in considered |-> Candidate(s, m, direction, nifty)]
           candidates == {Candidate(s, m, direction, nifty) : s \in considered} \ {None}
           accepted == {c.symbol : c \in PlacedInTurn(candidates, refused)} \ refused
<1>1. /\ m \in Nat /\ day \in TradeDays /\ trader \in {"SCALP", "TREND"} /\ count \in [Names -> Nat]
      /\ waiting \in SUBSET Names /\ holding \in SUBSET Names /\ SaysNumbers /\ LimitsHold
    BY DEF TradeIInv
<1>2. /\ waiting' = waiting \cup accepted
      /\ count' = [s \in Names |-> IF s \in accepted THEN count[s] + 1 ELSE count[s]]
    BY DEF OnBars
<1>3. \A s \in considered : /\ s \in ClosedIn(m) /\ s \in Names /\ s \notin waiting \cup holding
                            /\ count[s] < Entry[trader].max_per_symbol
    BY DEF Considered, ClosedIn
<1> HIDE DEF m, considered
<1>4. \A s \in considered : Candidate(s, m, direction, nifty) # None =>
          /\ Candidate(s, m, direction, nifty).symbol = s
          /\ Candidate(s, m, direction, nifty).strength \in Int
    <2> TAKE s \in considered
    <2> HAVE Candidate(s, m, direction, nifty) # None
    <2>1. m \in 1 .. LastMinute
        BY <1>1, <1>3, MinuteInDay
    <2>2. says[s][m][direction].entry = None \/ Strong(says[s][m][direction].entry)
        BY <1>1, <1>3, <2>1 DEF SaysNumbers
    <2> QED BY <2>2, CandidateIs
<1>5. \A c \in candidates : c.symbol \in considered /\ c.strength \in Int
                            /\ c = Candidate(c.symbol, m, direction, nifty)
    BY <1>4
<1>6. IsFiniteSet(candidates)
    <2>1. IsFiniteSet(considered)
        BY <1>3, TradeConstants, FS_Subset
    <2>2. candidates \subseteq {named[s] : s \in considered}
        OBVIOUS
    <2> HIDE DEF named, candidates
    <2>3. IsFiniteSet({named[s] : s \in considered})
        BY <2>1, ImageIsFinite
    <2> QED BY <2>2, <2>3, FS_Subset
<1>7. accepted \in SUBSET considered
    <2>1. PlacedInTurn(candidates, refused) \subseteq candidates
        BY DEF PlacedInTurn
    <2> HIDE DEF candidates
    <2> QED BY <1>5, <2>1
<1> HIDE DEF candidates
<1>8. Total(count) + Cardinality(accepted) <= Entry[trader].max_per_day
    <2>1. \A c \in candidates : c.symbol \in Nat /\ c.strength \in Int
        BY <1>3, <1>5, TradeConstants
    <2>2. \A b, c \in candidates : b.symbol = c.symbol => b = c
        BY <1>5
    <2>3. Total(count) \in Nat
        BY <1>1, TotalIsNat
    <2>4. Total(count) <= Entry[trader].max_per_day
        BY <1>1 DEF LimitsHold
    <2> QED BY <1>1, <1>6, <2>1, <2>2, <2>3, <2>4, AcceptedFit
<1> HIDE DEF accepted
<1>9. \A s \in accepted : s \notin waiting \cup holding /\ count[s] < PerStock
    BY <1>3, <1>7 DEF PerStock
<1>10. accepted \in SUBSET Names
    BY <1>3, <1>7
<1>11. count' \in [Names -> Nat] /\ waiting' \in SUBSET Names /\ LimitsHold'
    BY <1>2, <1>8, <1>9, <1>10, EntriesKeep
<1> QED BY <1>1, <1>11, DayStands DEF m

\* A minute of the opening range: a stock that is tried is over, and had nothing open.
LEMMA OrbKeeps ==
    ASSUME TradeIInv, trader = "ORB", minute' = minute + 1, UNCHANGED <<trader, day, says, holding>>,
           NEW refused, OrbOnBars(minute', refused)
    PROVE  TradeIInv'
<1> DEFINE m == minute'
           attempts == [s \in OrbDue(m) |-> OrbAttempt(s, m)]
           orders == {attempts[s].order : s \in OrbDue(m)} \ {None}
           tried == {s \in Names : \E o \in orders : o.symbol = s}
           opened == {o.symbol : o \in orders} \ refused
<1>1. /\ count \in [Names -> Nat] /\ waiting \in SUBSET Names /\ holding \in SUBSET Names /\ minute \in Nat
      /\ \A s \in Names : count[s] > 0 => s \in finished
      /\ LimitsHold
    BY DEF TradeIInv
<1>2. /\ count' = [s \in Names |-> IF s \in tried THEN count[s] + 1 ELSE count[s]]
      /\ waiting' = waiting \cup opened
      /\ finished' = finished \cup {s \in OrbDue(m) : attempts[s].over}
    BY DEF OrbOnBars
<1>3. \A s \in OrbDue(m) : s \in Names /\ s \notin finished
    BY DEF OrbDue, ClosedIn
<1>4. \A o \in orders : o.symbol \in OrbDue(m) /\ attempts[o.symbol].over
    BY AttemptIs
<1>5. \A s \in tried : s \in Names /\ s \notin finished /\ s \in finished'
    <2> TAKE s \in tried
    <2>1. PICK o \in orders : o.symbol = s
        OBVIOUS
    <2>2. s \in OrbDue(m) /\ attempts[s].over
        BY <1>4, <2>1
    <2> QED BY <1>2, <1>3, <2>2
<1>6. opened \subseteq tried
    BY <1>3, <1>4
<1>7. finished \subseteq finished'
    BY <1>2
<1> HIDE DEF tried, opened, orders, attempts
<1>8. \A s \in tried : s \notin waiting \cup holding /\ count[s] = 0
    <2> TAKE s \in tried
    <2>1. s \in Names /\ count[s] \in Nat /\ ~(count[s] > 0)
        BY <1>1, <1>5
    <2> QED BY <1>1, <2>1 DEF LimitsHold
<1>9. count' \in [Names -> Nat] /\ \A s \in Names : count'[s] = IF s \in tried THEN 1 ELSE count[s]
    <2>1. \A s \in Names : s \in tried => count[s] + 1 = 1
        BY <1>8
    <2> QED BY <1>1, <1>2, <2>1
<1>10. waiting' \in SUBSET Names
    BY <1>1, <1>2, <1>5, <1>6
<1>11. \A s \in Names : count'[s] > 0 => s \in finished'
    BY <1>1, <1>5, <1>7, <1>9
<1>12. LimitsHold'
    <2>1. waiting' \cap holding' = {}
        BY <1>1, <1>2, <1>6, <1>8 DEF LimitsHold
    <2>2. \A s \in waiting' \cup holding' : count'[s] > 0
        <3> TAKE s \in waiting' \cup holding'
        <3>1. s \in Names /\ (s \in tried \/ count[s] > 0)
            BY <1>1, <1>2, <1>5, <1>6 DEF LimitsHold
        <3> QED BY <1>9, <3>1
    <2>3. \A s \in Names : count'[s] <= 1
        BY <1>1, <1>9 DEF LimitsHold
    <2> QED BY <2>1, <2>2, <2>3 DEF LimitsHold
<1>13. minute' \in Nat
    BY <1>1
<1> HIDE DEF m
<1> QED BY <1>1, <1>9, <1>10, <1>11, <1>12, <1>13, DayStands

\* A minute of any strategy.
LEMMA MinuteOfKeeps ==
    ASSUME TradeIInv, NEW bias, NEW nifty, NEW refused, MinuteOf(bias, nifty, refused)
    PROVE  TradeIInv'
<1>1. minute \in Nat /\ minute' = minute + 1 /\ minute' \in Nat /\ UNCHANGED <<trader, day, says, holding>>
    BY DEF MinuteOf, TradeIInv
<1>2. CASE trader = "ORB"
    <2>1. OrbOnBars(minute', refused)
        BY <1>2 DEF MinuteOf
    <2> QED BY <1>1, <1>2, <2>1, OrbKeeps
<1>3. CASE trader # "ORB" /\ (TradeDirection(bias) = None \/ ~InHours(minute'))
    <2>1. UNCHANGED <<waiting, count, finished>>
        BY <1>3 DEF MinuteOf, NoEntries
    <2>2. LimitsHold'
        BY <1>1, <2>1 DEF TradeIInv, LimitsHold, Total
    <2> QED BY <1>1, <1>3, <2>1, <2>2, DayStands DEF TradeIInv
<1>4. CASE trader # "ORB" /\ TradeDirection(bias) # None /\ InHours(minute')
    <2>1. OnBars(minute', TradeDirection(bias), nifty, refused) /\ UNCHANGED finished
        BY <1>4 DEF MinuteOf
    <2>2. TradeDirection(bias) \in Direction
        BY <1>4 DEF TradeDirection, Direction
    <2> QED BY <1>1, <1>4, <2>1, <2>2, OnBarsKeeps
<1> QED BY <1>2, <1>3, <1>4

\* An execution or the end of a position opens nothing.
LEMMA EndsKeep ==
    ASSUME TradeIInv, NEW s \in Names, Executed(s) \/ Ended(s)
    PROVE  TradeIInv'
<1>1. UNCHANGED <<trader, day, says, minute, count, finished>>
    BY DEF Executed, Ended
<1>2. waiting \in SUBSET Names /\ holding \in SUBSET Names /\ LimitsHold
    BY DEF TradeIInv
<1>3. waiting' \in SUBSET Names /\ holding' \in SUBSET Names /\ waiting' \cap holding' = {}
      /\ waiting' \cup holding' \subseteq waiting \cup holding
    BY <1>2 DEF Executed, Ended, LimitsHold
<1>4. LimitsHold'
    BY <1>1, <1>2, <1>3 DEF LimitsHold, Total
<1> QED BY <1>1, <1>3, <1>4, DayStands DEF TradeIInv

\* A restart forgets the entries that were not executed, which all were counted.
LEMMA TradeRestartKeeps ==
    ASSUME TradeIInv, Restarted
    PROVE  TradeIInv'
<1>1. UNCHANGED <<trader, day, says, minute, holding>> /\ waiting' = {}
    BY DEF Restarted
<1>2. /\ count \in [Names -> Nat] /\ waiting \in SUBSET Names /\ holding \in SUBSET Names
      /\ LimitsHold /\ trader \in {"SCALP", "TREND", "ORB"}
    BY DEF TradeIInv
<1>3. count' \in [Names -> Nat] /\ \A s \in Names : /\ count'[s] <= count[s]
                                                    /\ s \notin waiting => count'[s] = count[s]
    <2>1. CASE trader = "ORB"
        BY <1>2, <2>1 DEF Restarted
    <2>2. CASE trader # "ORB"
        <3>1. count' = [s \in Names |-> IF s \in waiting THEN count[s] - 1 ELSE count[s]]
            BY <2>2 DEF Restarted
        <3>2. \A s \in Names : count[s] \in Nat /\ (s \in waiting => count[s] > 0)
            BY <1>2 DEF LimitsHold
        <3>3. \A s \in Names : count'[s] \in Nat /\ count'[s] <= count[s]
                               /\ (s \notin waiting => count'[s] = count[s])
            BY <3>1, <3>2
        <3> QED BY <3>1, <3>3
    <2> QED BY <2>1, <2>2
<1>4. LimitsHold'
    <2>1. waiting' \cap holding' = {} /\ \A s \in waiting' \cup holding' : count'[s] > 0
        BY <1>1, <1>2, <1>3 DEF LimitsHold
    <2>2. \A s \in Names : count'[s] <= PerStock
        <3> TAKE s \in Names
        <3>1. count[s] \in Nat /\ count[s] <= PerStock /\ count'[s] \in Nat /\ count'[s] <= count[s]
            BY <1>2, <1>3 DEF LimitsHold, PerStock
        <3>2. PerStock \in Nat
            BY <1>2, TradeConstants DEF PerStock
        <3> QED BY <3>1, <3>2
    <2>3. trader # "ORB" => Total(count') <= Entry[trader].max_per_day
        <3> SUFFICES ASSUME trader # "ORB" PROVE Total(count') <= Entry[trader].max_per_day
            OBVIOUS
        <3>1. Total(count') <= Total(count) /\ Total(count) \in Nat /\ Total(count') \in Nat
            BY <1>2, <1>3, TotalFalls, TotalIsNat
        <3>2. Total(count) <= Entry[trader].max_per_day /\ Entry[trader].max_per_day \in Nat
            BY <1>2, TradeConstants DEF LimitsHold
        <3> QED BY <3>1, <3>2
    <2>4. Total(count)' = Total(count')
        BY DEF Total
    <2> QED BY <1>1, <2>1, <2>2, <2>3, <2>4 DEF LimitsHold, PerStock
<1>5. trader = "ORB" => \A s \in Names : count'[s] > 0 => s \in finished'
    BY DEF Restarted, FinishedAfter
<1> QED BY <1>1, <1>2, <1>3, <1>4, <1>5, DayStands DEF TradeIInv

\* The day begins with nothing counted.
LEMMA TradeInitIInv == TradeInit => TradeIInv
<1> SUFFICES ASSUME TradeInit PROVE TradeIInv
    OBVIOUS
<1>1. /\ trader \in {"SCALP", "TREND", "ORB"} /\ day \in TradeDays /\ minute = 0
      /\ waiting = {} /\ holding = {} /\ count = [s \in Names |-> 0] /\ finished = {}
    BY DEF TradeInit
<1>2. SaysNumbers
    <2> SUFFICES ASSUME trader # "ORB", NEW m \in 1 .. LastMinute, NEW s \in ClosedIn(m), NEW d \in Direction
                 PROVE  says[s][m][d].entry = None \/ Strong(says[s][m][d].entry)
        BY DEF SaysNumbers
    <2>1. s \in Names /\ m \in Int
        BY DEF ClosedIn
    <2>2. says = [r \in Names |-> [n \in 1 .. LastMinute |->
                     IF trader = "ORB" \/ r \notin ClosedIn(n) THEN None
                     ELSE [e \in Direction |-> Reading(r, n, e)]]]
        BY DEF TradeInit
    <2>3. says[s][m][d] = Reading(s, m, d)
        BY <2>1, <2>2
    <2> QED BY <1>1, <2>1, <2>3, ReadingIsStrong
<1>3. \A s \in Names : count[s] = 0
    BY <1>1
<1>4. trader # "ORB" => Total(count) <= Entry[trader].max_per_day
    <2>1. Total(count) = 0
        BY <1>1, TotalIsNat
    <2> QED BY <1>1, <2>1, TradeConstants
<1>5. LimitsHold
    <2>1. trader # "ORB" => Entry[trader].max_per_symbol \in Nat
        BY <1>1, TradeConstants
    <2> QED BY <1>1, <1>3, <1>4, <2>1 DEF LimitsHold
<1> QED BY <1>1, <1>2, <1>3, <1>5 DEF TradeIInv

\* Every step keeps the invariant.
LEMMA TradeInductive == TradeIInv /\ [TradeNext]_tradeVars => TradeIInv'
<1> SUFFICES ASSUME TradeIInv, [TradeNext]_tradeVars PROVE TradeIInv'
    OBVIOUS
<1>1. ASSUME NEW bias, NEW nifty, NEW refused, MinuteOf(bias, nifty, refused) PROVE TradeIInv'
    BY <1>1, MinuteOfKeeps
<1>2. ASSUME NEW s \in Names, Executed(s) \/ Ended(s) PROVE TradeIInv'
    BY <1>2, EndsKeep
<1>3. CASE Restarted
    BY <1>3, TradeRestartKeeps
<1>4. CASE UNCHANGED tradeVars
    <2>1. UNCHANGED <<trader, day, says, minute, waiting, holding, count, finished>>
        BY <1>4 DEF tradeVars
    <2>2. LimitsHold'
        BY <2>1 DEF TradeIInv, LimitsHold, Total
    <2> QED BY <2>1, <2>2, DayStands DEF TradeIInv
<1> QED BY <1>1, <1>2, <1>3, <1>4 DEF TradeNext

\* The limits of the day hold for every strategy, however often the worker restarts
\* and whatever is refused, executed or ended when (common.py on_bars and on_resume, orb.py).
THEOREM LimitsAlwaysHold == TradeSpec => []LimitsHold
<1>1. TradeIInv => LimitsHold
    BY DEF TradeIInv
<1> QED BY <1>1, TradeInitIInv, TradeInductive, PTL DEF TradeSpec

==============================================================================
