----------------------------- MODULE AdapterProofs -----------------------------
(***************************************************************************)
(* Theorems about the two uses of the provider's interface.                *)
(*                                                                         *)
(* The live feed, for every set of symbols and any number of connections   *)
(* and messages: a feed that runs serves its list, and it does to its      *)
(* connections what FeedConnection allows.                                 *)
(*                                                                         *)
(* The calls of a pool of threads, for every number of threads, jobs and   *)
(* retries and every length of gap, delay and timeout: the limiter keeps   *)
(* its rate, and a cycle ends in time.                                     *)
(***************************************************************************)
EXTENDS AdapterChecks, FiniteSets, Functions, FiniteSetTheorems, TLAPS

------------------------------------------------------------------------------
(* The sum of the community modules is a fold of integers.                 *)

PickAny(S) == CHOOSE x \in S : TRUE
Sums == INSTANCE FoldFacts WITH Op <- +, Base <- 0, Pick <- PickAny

LEMMA SumIsFold ==
    ASSUME NEW S, IsFiniteSet(S)
    PROVE  /\ \A f : DOMAIN f = S => SumFunction(f) = Sums!Fold(f, S)
           /\ Sums!Adds /\ \A T \in SUBSET S : Sums!IsFiniteSet(T) /\ Sums!Picks(T)
           /\ Sums!IsFiniteSet(S) /\ Sums!Picks(S)
           /\ Sums!Cardinality(S) = Cardinality(S)
<1>1. ASSUME NEW f, DOMAIN f = S
      PROVE  SumFunction(f) = Sums!Fold(f, S)
    BY <1>1 DEF SumFunction, SumFunctionOnSet, FoldFunctionOnSet, MapThenFoldSet, Sums!Fold,
                Sums!MapThenFoldSet, PickAny
<1>2. \A T \in SUBSET S : IsFiniteSet(T)
    BY FS_Subset
<1>3. \A T : IsFiniteSet(T) => Sums!IsFiniteSet(T)
    BY DEF IsFiniteSet, Sums!IsFiniteSet
<1>4. Sums!Adds /\ \A T : Sums!Picks(T)
    BY DEF Sums!Picks, PickAny, Sums!Adds
<1>5. Sums!Cardinality(S) = Cardinality(S)
    BY DEF Cardinality, Sums!Cardinality
<1> QED BY <1>1, <1>2, <1>3, <1>4, <1>5

------------------------------------------------------------------------------
(* The live feed.                                                          *)

\* What each point of a call has reached: the old connection is given up before
\* a new one is made, and the new one streams nothing, then the list.
CallStages ==
    /\ pc = "unsubscribe" => feed # 0 /\ poller = 0
    /\ pc \in {"connect", "prices", "rest"} => feed = 0
    /\ pc \in {"prices", "rest"} => made # 0
    /\ pc = "prices" => subs[made] = {}
    /\ pc = "rest" => subs[made] = listed

\* A connection that is not made yet streams nothing.
Unmade == \A c \in Conns : c > made => subs[c] = {}

IInv == TypeOK /\ CallStages /\ Unmade /\ RunningServes

------------------------------------------------------------------------------
LEMMA Constants ==
    /\ IsFiniteSet(Symbols) /\ MaxConns \in Nat /\ MaxMessages \in Nat
    /\ None \notin SUBSET Symbols
BY FeedAssumption

LEMMA InitIInv == Init => IInv
<1> SUFFICES ASSUME Init PROVE IInv
    OBVIOUS
<1> USE Constants DEF Init
<1>1. NoPrices \in Prices
    BY DEF NoPrices, Prices
<1>2. /\ counted \in [Symbols -> Nat]
      /\ latest \in [Conns -> Prices] /\ got \in [Conns -> Prices]
    BY <1>1 DEF NoPrices
<1>3. made \in 0 .. MaxConns /\ feed \in 0 .. made /\ poller \in 0 .. made
    OBVIOUS
<1>4. TypeOK
    BY <1>1, <1>2, <1>3 DEF TypeOK
<1>5. CallStages /\ Unmade /\ RunningServes
    BY DEF CallStages, Unmade, RunningServes
<1> QED BY <1>4, <1>5 DEF IInv

\* The subscribers of a symbol can be counted.
LEMMA SubscribersCounted == ASSUME NEW s PROVE Cardinality(Subscribers(s)) \in Nat
<1>1. IsFiniteSet(Conns)
    BY Constants, FS_Interval DEF Conns
<1> QED BY <1>1, FS_Subset, FS_CardinalityType DEF Subscribers

\* The provider's thread and the pollers leave the worker's calls alone.
LEMMA MessageType == ASSUME TypeOK, NEW s \in Symbols, Message(s) PROVE TypeOK'
<1> USE Constants DEF TypeOK
<1>1. UNCHANGED <<worker, made, subs, threads, ltp>>
    BY DEF Message
<1>2. sent[s] + 1 \in 0 .. MaxMessages
    BY DEF Message, Prices
<1>3. sent' \in Prices /\ sent'[s] \in 0 .. MaxMessages
    BY <1>2 DEF Message, Prices
<1>4. latest' \in [Conns -> Prices]
    <2>1. \A c \in Conns : [latest[c] EXCEPT ![s] = sent'[s]] \in Prices
        BY <1>3 DEF Prices
    <2> QED BY <2>1 DEF Message
<1>5. counted' \in [Symbols -> Nat]
    BY SubscribersCounted DEF Message
<1> QED BY <1>1, <1>3, <1>4, <1>5 DEF worker, threads

LEMMA PollType ==
    ASSUME TypeOK, NEW c \in Conns, PollBegins(c) \/ PollEnds(c) \/ PollerEnds(c)
    PROVE  TypeOK'
<1> USE DEF TypeOK, worker, sdk, store
<1>1. CASE PollBegins(c)
    <2>1. feed \in Conns
        BY <1>1, Constants DEF PollBegins, Conns
    <2> QED BY <1>1, <2>1 DEF PollBegins
<1>2. CASE PollEnds(c)
    <2>1. NoPrices \in Prices
        BY Constants DEF NoPrices, Prices
    <2>2. ltp' \in Prices
        BY <1>2 DEF PollEnds, PutLtp, Prices
    <2> QED BY <1>2, <2>1, <2>2 DEF PollEnds
<1>3. CASE PollerEnds(c)
    BY <1>3 DEF PollerEnds
<1> QED BY <1>1, <1>2, <1>3

LEMMA StepTypeOK == IInv /\ [Next]_vars => TypeOK'
<1> SUFFICES ASSUME IInv, [Next]_vars PROVE TypeOK'
    OBVIOUS
<1> USE DEF IInv, TypeOK, worker, sdk, threads, store
<1>1. CASE Start \/ Restart \/ Exit
    BY <1>1 DEF Start, Restart, Exit, Call
<1>2. CASE \E new \in SUBSET Symbols : SetStocks(new)
    BY <1>2 DEF SetStocks, Call
<1>3. CASE Join
    BY <1>3 DEF Join, AfterStop
<1>4. CASE \E done \in BOOLEAN : Unsubscribe(done)
    <2> PICK done \in BOOLEAN : Unsubscribe(done)
        BY <1>4
    <2>1. subs' \in [Conns -> SUBSET Symbols]
        BY DEF Unsubscribe
    <2>2. poller' = 0 /\ feed' = 0 /\ pc' \in {"idle", "connect"}
        BY DEF Unsubscribe, AfterStop, CallStages
    <2> QED BY <2>1, <2>2, Constants DEF Unsubscribe
<1>5. CASE Connect
    BY <1>5, Constants DEF Connect
<1>6. CASE SubscribePrices
    BY <1>6 DEF SubscribePrices
<1>7. CASE SubscribeRest
    <2>1. made \in Conns /\ made \in 0 .. made
        BY <1>7, Constants DEF SubscribeRest, CallStages, Conns
    <2>2. pollers' \in [Conns -> {"none", "waiting", "reading", "ended"}]
        BY <1>7, <2>1 DEF SubscribeRest
    <2> QED BY <1>7, <2>1, <2>2 DEF SubscribeRest, CallStages
<1>8. CASE StartRaises
    BY <1>8 DEF StartRaises
<1>9. CASE \E s \in Symbols : Message(s)
    BY <1>9, MessageType
<1>10. CASE \E c \in Conns : PollBegins(c) \/ PollEnds(c) \/ PollerEnds(c)
    BY <1>10, PollType
<1>11. CASE UNCHANGED vars
    BY <1>11 DEF vars
<1> QED
    BY <1>1, <1>2, <1>3, <1>4, <1>5, <1>6, <1>7, <1>8, <1>9, <1>10, <1>11 DEF Next

LEMMA StepStages == IInv /\ [Next]_vars => (CallStages /\ Unmade)'
<1> SUFFICES ASSUME IInv, [Next]_vars PROVE (CallStages /\ Unmade)'
    OBVIOUS
<1> USE Constants DEF IInv, TypeOK, CallStages, Unmade, Conns, worker, sdk, threads, store
<1>1. CASE Start \/ Restart \/ Exit
    BY <1>1 DEF Start, Restart, Exit, Call
<1>2. CASE \E new \in SUBSET Symbols : SetStocks(new)
    BY <1>2 DEF SetStocks, Call
<1>3. CASE Join
    BY <1>3 DEF Join, AfterStop
<1>4. CASE \E done \in BOOLEAN : Unsubscribe(done)
    BY <1>4 DEF Unsubscribe, AfterStop
<1>5. CASE Connect
    BY <1>5, Constants DEF Connect
<1>6. CASE SubscribePrices
    BY <1>6 DEF SubscribePrices
<1>7. CASE SubscribeRest \/ StartRaises
    BY <1>7 DEF SubscribeRest, StartRaises
<1>8. CASE \E s \in Symbols : Message(s)
    BY <1>8 DEF Message
<1>9. CASE \E c \in Conns : PollBegins(c) \/ PollEnds(c) \/ PollerEnds(c)
    BY <1>9 DEF PollBegins, PollEnds, PollerEnds
<1>10. CASE UNCHANGED vars
    BY <1>10 DEF vars
<1> QED BY <1>1, <1>2, <1>3, <1>4, <1>5, <1>6, <1>7, <1>8, <1>9, <1>10 DEF Next

LEMMA StepServes == IInv /\ [Next]_vars => RunningServes'
<1> SUFFICES ASSUME IInv, [Next]_vars, pc' = "idle", feed' # 0
             PROVE  /\ subs'[feed'] = listed' /\ ~stopping'
                    /\ pollers'[feed'] \in {"waiting", "reading"}
    BY DEF RunningServes
<1> USE Constants DEF IInv, TypeOK, RunningServes, CallStages, Conns, worker, sdk, threads, store
<1>1. CASE Start \/ Restart \/ Exit \/ Connect \/ SubscribePrices
    BY <1>1 DEF Start, Restart, Exit, Call, Connect, SubscribePrices
<1>2. CASE \E new \in SUBSET Symbols : SetStocks(new)
    BY <1>2 DEF SetStocks, Call
<1>3. CASE Join \/ \E done \in BOOLEAN : Unsubscribe(done)
    BY <1>3 DEF Join, Unsubscribe, AfterStop
<1>4. CASE SubscribeRest
    BY <1>4 DEF SubscribeRest
<1>5. CASE StartRaises
    BY <1>5 DEF StartRaises
<1>6. CASE \E s \in Symbols : Message(s)
    BY <1>6 DEF Message
<1>7. CASE \E c \in Conns : PollBegins(c) \/ PollEnds(c) \/ PollerEnds(c)
    BY <1>7 DEF PollBegins, PollEnds, PollerEnds
<1>8. CASE UNCHANGED vars
    BY <1>8 DEF vars
<1> QED BY <1>1, <1>2, <1>3, <1>4, <1>5, <1>6, <1>7, <1>8 DEF Next

\* The invariant holds in every reachable state.
THEOREM Inductive == Spec => []IInv
<1>1. IInv /\ [Next]_vars => IInv'
    BY StepTypeOK, StepStages, StepServes DEF IInv
<1> QED BY InitIInv, <1>1, PTL DEF Spec

\* Between two calls a feed that runs streams its list, and a poller serves it,
\* after any restarts, errors and pollers that outlived their join.
THEOREM Serves == Spec => []FeedInv
<1>1. IInv => FeedInv
    BY DEF IInv, FeedInv
<1> QED BY Inductive, <1>1, PTL

------------------------------------------------------------------------------
(* The feed implements FeedConnection.                                     *)

\* What connections that are given up still stream.
Leftover == UNION {subs[c] : c \in Conns \ {feed, Building}}
Streamed == IF feed = 0 THEN None ELSE subs[feed]

\* A connection in use is not None.
LEMMA RunningIsStreaming == IInv => (Streamed # None <=> feed # 0)
BY Constants DEF IInv, TypeOK, Conns, Streamed

LEMMA InitImplements == Init => Abstract!FInit
<1> SUFFICES ASSUME Init PROVE Abstract!FInit
    OBVIOUS
<1>1. Leftover = {}
    BY DEF Init, Leftover
<1> QED BY <1>1 DEF Init, Abstract!FInit, Leftover

\* What keeps the connections, and who holds one, keeps the abstract state.
LEMMA SameConnections ==
    ASSUME UNCHANGED <<subs, feed>>, Building' = Building
    PROVE  Streamed' = Streamed /\ Leftover' = Leftover
BY DEF Streamed, Leftover

LEMMA StepImplements ==
    IInv /\ IInv' /\ [Next]_vars => [Abstract!FNext]_Abstract!fvars
<1> SUFFICES ASSUME IInv, IInv', [Next]_vars
             PROVE  \/ \E new \in SUBSET Symbols :
                          listed' = new /\ UNCHANGED <<Streamed, Leftover>>
                    \/ /\ Streamed # None /\ Streamed' = None /\ listed' = listed
                       /\ Leftover' \in {Leftover \cup (Streamed \ listed), Leftover \cup Streamed}
                    \/ /\ Streamed = None /\ Streamed' = listed
                       /\ UNCHANGED <<listed, Leftover>>
                    \/ /\ Streamed = None /\ Leftover' \in {Leftover, Leftover \cup listed}
                       /\ UNCHANGED <<listed, Streamed>>
                    \/ UNCHANGED <<listed, Streamed, Leftover>>
    BY DEF Abstract!FNext, Abstract!fvars, Abstract!Relist, Abstract!Disconnect, Abstract!Connect,
           Abstract!ConnectFails, Abstract!Running, Streamed, Leftover
<1> USE DEF worker, sdk, threads, store
<1>1. CASE Start \/ Restart \/ Exit \/ Join
    <2>1. UNCHANGED <<subs, feed, listed>> /\ Building' = Building
        BY <1>1 DEF Start, Restart, Exit, Join, Call, AfterStop, Building
    <2> QED BY <2>1, SameConnections
<1>2. CASE \E new \in SUBSET Symbols : SetStocks(new)
    <2>1. UNCHANGED <<subs, feed>> /\ Building' = Building
        BY <1>2 DEF SetStocks, Call, Building
    <2> QED BY <1>2, <2>1, SameConnections DEF SetStocks
<1>3. CASE \E done \in BOOLEAN : Unsubscribe(done)
    <2> PICK done \in BOOLEAN : Unsubscribe(done)
        BY <1>3
    <2>1. feed # 0 /\ feed \in Conns /\ feed' = 0 /\ listed' = listed
        BY Constants DEF Unsubscribe, IInv, CallStages, TypeOK, Conns
    <2>2. Building = 0 /\ Building' = 0
        BY DEF Unsubscribe, AfterStop, Building
    <2>3. subs' \in {subs, [subs EXCEPT ![feed] = subs[feed] \ listed]}
        BY DEF Unsubscribe
    <2>4. 0 \notin Conns
        BY DEF Conns
    <2>5. Leftover' = Leftover \cup subs'[feed]
        <3>1. Leftover' = UNION {subs'[c] : c \in Conns}
            BY <2>1, <2>2, <2>4 DEF Leftover
        <3>2. Leftover = UNION {subs[c] : c \in Conns \ {feed}}
            BY <2>2, <2>4 DEF Leftover
        <3>3. \A c \in Conns \ {feed} : subs'[c] = subs[c]
            BY <2>3 DEF IInv, TypeOK
        <3> QED BY <2>1, <3>1, <3>2, <3>3
    <2>6. subs'[feed] \in {subs[feed] \ listed, subs[feed]}
        BY <2>1, <2>3 DEF IInv, TypeOK
    <2>7. Streamed = subs[feed] /\ Streamed' = None
        BY <2>1 DEF Streamed
    <2>8. Streamed # None
        BY <2>1, RunningIsStreaming
    <2> QED BY <2>1, <2>5, <2>6, <2>7, <2>8
<1>4. CASE Connect
    <2>1. UNCHANGED <<listed, feed, subs>> /\ made + 1 \in Conns /\ made + 1 > made
          /\ Building = 0 /\ Building' = made + 1
        BY <1>4, Constants DEF Connect, Building, IInv, TypeOK, Conns
    <2>2. subs[made + 1] = {}
        BY <2>1 DEF IInv, Unmade
    <2>3. Leftover' = Leftover
        BY <2>1, <2>2 DEF Leftover, Conns
    <2> QED BY <2>1, <2>3 DEF Streamed
<1>5. CASE SubscribePrices
    <2>1. UNCHANGED <<listed, feed>> /\ Building' = Building /\ Building = made /\ feed = 0
          /\ subs' = [subs EXCEPT ![made] = listed]
        BY <1>5 DEF SubscribePrices, Building, IInv, CallStages
    <2>2. \A c \in Conns \ {feed, Building} : subs'[c] = subs[c]
        BY <2>1 DEF IInv, TypeOK
    <2>3. Leftover' = Leftover
        BY <2>1, <2>2 DEF Leftover
    <2> QED BY <2>1, <2>3 DEF Streamed
<1>6. CASE SubscribeRest
    <2>1. UNCHANGED <<listed, subs>> /\ feed = 0 /\ feed' = made /\ made # 0
          /\ Building = made /\ Building' = 0 /\ subs[made] = listed
        BY <1>6 DEF SubscribeRest, Building, IInv, CallStages
    <2>2. Leftover' = Leftover
        BY <2>1 DEF Leftover
    <2>3. Streamed = None /\ Streamed' = listed
        BY <2>1 DEF Streamed
    <2> QED BY <2>1, <2>2, <2>3
<1>7. CASE StartRaises
    <2>1. UNCHANGED <<listed, subs, feed>> /\ feed = 0 /\ Building' = 0
        BY <1>7 DEF StartRaises, Building, IInv, CallStages
    <2>2. Building \in {0, made} /\ (Building = made /\ made # 0 => subs[made] \in {{}, listed})
        BY <1>7 DEF StartRaises, Building, IInv, CallStages
    <2>3. Leftover' \in {Leftover, Leftover \cup listed}
        <3>1. CASE Building = 0
            BY <2>1, <3>1 DEF Leftover
        <3>2. CASE Building # 0
            <4>1. Building = made /\ made \in Conns /\ 0 \notin Conns
                BY <2>2, <3>2, Constants DEF IInv, TypeOK, Conns
            <4>2. Leftover' = Leftover \cup subs[made]
                <5>1. Leftover' = UNION {subs[c] : c \in Conns}
                    BY <2>1, <4>1 DEF Leftover
                <5>2. Leftover = UNION {subs[c] : c \in Conns \ {made}}
                    BY <2>1, <4>1 DEF Leftover
                <5> QED BY <4>1, <5>1, <5>2
            <4> QED BY <2>2, <3>2, <4>1, <4>2
        <3> QED BY <3>1, <3>2
    <2> QED BY <2>1, <2>3 DEF Streamed
<1>8. CASE \/ \E s \in Symbols : Message(s)
           \/ \E c \in Conns : PollBegins(c) \/ PollEnds(c) \/ PollerEnds(c)
           \/ UNCHANGED vars
    <2>1. UNCHANGED <<subs, feed, listed>> /\ Building' = Building
        BY <1>8 DEF Message, PollBegins, PollEnds, PollerEnds, vars, Building
    <2> QED BY <2>1, SameConnections
<1> QED BY <1>1, <1>2, <1>3, <1>4, <1>5, <1>6, <1>7, <1>8 DEF Next

\* Whatever calls fail and whichever poller outlives its join, the stocks that
\* are streamed and those that abandoned connections stream change only as
\* FeedConnection says.
THEOREM Implements == Spec => ImplementsConnection
<1>1. Init => Abstract!FInit
    BY InitImplements
<1>2. Spec => [][Abstract!FNext]_Abstract!fvars
    BY Inductive, StepImplements, PTL DEF Spec
<1> QED BY <1>1, <1>2, PTL DEF Spec, ImplementsConnection, Abstract!FSpec

------------------------------------------------------------------------------
(* The limits: what the constants are, delays, and arithmetic.             *)

N == Cardinality(Threads)
Waiting == {t \in Threads : at[t] = "slot"}

Twice(i, d) == 2 * d
Doubling == INSTANCE FoldFacts WITH Op <- Twice, Base <- BaseDelay, Pick <- PickAny

LEMMA Limits ==
    /\ IsFiniteSet(Threads) /\ N \in Nat \ {0} /\ Jobs \in Nat /\ Period \in Nat
    /\ Gap \in Nat \ {0} /\ MaxTries \in Nat \ {0} /\ BaseDelay \in Nat \ {0}
    /\ MaxDelay \in Nat \ {0} /\ Timeout \in Nat /\ Late \in Nat /\ Window \in Nat \ {0}
    /\ LongestWait \in Nat
<1>1. IsFiniteSet(Threads) /\ Threads # {} /\ Gap \in Nat \ {0} /\ Late \in Nat
    BY RequestsAssumption
<1>2. N \in Nat \ {0}
    BY <1>1, FS_CardinalityType, FS_EmptySet DEF N
<1>3. Gap * N + Late \in Nat
    BY <1>1, <1>2
<1> QED BY <1>1, <1>2, <1>3, RequestsAssumption DEF LongestWait, N

\* A backoff is never shorter than the first one.
LEMMA DelayGrows ==
    ASSUME NEW k \in Nat
    PROVE  Delay(k) \in Nat /\ Delay(1) \in Nat \ {0} /\ Delay(k) >= Delay(1)
<1>1. ASSUME NEW i \in Nat
      PROVE  Doubled(i) \in {v \in Nat : v >= BaseDelay}
    <2> DEFINE S == 1 .. i - 1
               V == {v \in Nat : v >= BaseDelay}
               f == [x \in S |-> x]
    <2>1. /\ Doubling!IsFiniteSet(S) /\ Doubling!Picks(S)
        <3>1. IsFiniteSet(S)
            BY FS_Interval
        <3> QED BY <3>1 DEF IsFiniteSet, Doubling!IsFiniteSet, Doubling!Picks, PickAny
    <2>2. BaseDelay \in V /\ \A x \in S, v \in V : Twice(f[x], v) \in V
        BY Limits DEF Twice
    <2> HIDE DEF S, V
    <2>3. Doubling!Fold(f, S) \in V
        BY <2>1, <2>2, Doubling!FoldType
    <2>4. Doubled(i) = Doubling!Fold(f, S)
        BY DEF S, Doubled, FoldSet, MapThenFoldSet, Doubling!Fold, Doubling!MapThenFoldSet, Twice,
               PickAny
    <2> QED BY <2>3, <2>4 DEF V
<1>2. Doubled(1) = BaseDelay
    <2> DEFINE f == [x \in {} |-> x]
    <2>1. 1 .. 1 - 1 = {}
        OBVIOUS
    <2>2. Doubling!IsFiniteSet({}) /\ Doubling!Picks({})
        BY FS_EmptySet DEF IsFiniteSet, Doubling!IsFiniteSet, Doubling!Picks
    <2>3. Doubling!Fold(f, {}) = BaseDelay
        BY <2>2, Doubling!FoldEquation
    <2>4. Doubled(1) = Doubling!Fold(f, {})
        BY <2>1 DEF Doubled, FoldSet, MapThenFoldSet, Doubling!Fold, Doubling!MapThenFoldSet, Twice,
               PickAny
    <2> QED BY <2>3, <2>4
<1>3. Doubled(k) \in Nat /\ Doubled(k) >= BaseDelay
    BY <1>1
<1> QED BY <1>2, <1>3, Limits DEF Delay

LEMMA TimesUp ==
    ASSUME NEW a \in Nat, NEW b \in Int, NEW c \in Int, b <= c
    PROVE  a * b \in Int /\ a * c \in Int /\ a * b <= a * c
<1>1. c - b \in Nat
    OBVIOUS
<1>2. a * (c - b) \in Nat
    BY <1>1
<1>3. a * (c - b) = a * c - a * b
    OBVIOUS
<1> QED BY <1>2, <1>3

\* The quotient is the largest number of b's in a.
LEMMA Quotient ==
    ASSUME NEW a \in Int, NEW b \in Nat \ {0}
    PROVE  /\ a \div b \in Int /\ b * (a \div b) <= a /\ a < b * (a \div b) + b
           /\ \A q \in Int : b * q <= a => q <= a \div b
<1>1. a \div b \in Int /\ b * (a \div b) <= a /\ a < b * (a \div b) + b
    OBVIOUS
<1>2. ASSUME NEW q \in Int, b * q <= a
      PROVE  q <= a \div b
    <2> DEFINE r == a \div b
    <2>1. SUFFICES ASSUME r + 1 <= q PROVE FALSE
        BY <1>1
    <2>2. r + 1 \in Int /\ b * (r + 1) = b * r + b
        BY <1>1
    <2> HIDE DEF r
    <2>3. b * (r + 1) <= b * q
        BY <2>1, <2>2, TimesUp
    <2> QED BY <1>1, <1>2, <2>2, <2>3 DEF r
<1> QED BY <1>1, <1>2

\* What is b apart falls into different intervals of b.
LEMMA QuotientsApart ==
    ASSUME NEW a \in Nat, NEW c \in Nat, NEW b \in Nat \ {0}, a >= c + b \/ c >= a + b
    PROVE  a \div b # c \div b
<1>1. ASSUME NEW x \in Nat, NEW y \in Nat, x >= y + b
      PROVE  x \div b # y \div b
    <2> DEFINE r == y \div b
    <2>1. r \in Int /\ b * r <= y
        BY Quotient
    <2>2. b * (r + 1) = b * r + b /\ r + 1 \in Int
        BY <2>1
    <2> HIDE DEF r
    <2>3. b * (r + 1) <= x
        BY <1>1, <2>1, <2>2
    <2>4. r + 1 <= x \div b /\ x \div b \in Int
        BY <2>2, <2>3, Quotient
    <2> QED BY <2>1, <2>4 DEF r
<1> QED BY <1>1

\* A set that is told apart in a finite one is no larger.
LEMMA NoLarger ==
    ASSUME NEW S, NEW T, IsFiniteSet(T), NEW f \in [S -> T],
           \A x, y \in S : x # y => f[x] # f[y]
    PROVE  IsFiniteSet(S) /\ Cardinality(S) \in Nat /\ Cardinality(S) <= Cardinality(T)
<1>1. f \in Injection(S, T)
    BY DEF Injection, IsInjective
<1>2. IsFiniteSet(S) /\ Cardinality(S) <= Cardinality(T)
    BY <1>1, FS_Injection
<1> QED BY <1>2, FS_CardinalityType

\* The slots waited for are those between now and the next free one: so long as
\* that is ahead, some thread waits for each of them.
SlotChain ==
    \A k \in Nat \ {0} : ahead > k * Gap => \E t \in Waiting : due[t] = ahead - k * Gap

LEMMA AheadIsShort ==
    ASSUME RequestsTypeOK, SlotChain, NEW W \in SUBSET Threads, Waiting \subseteq W
    PROVE  ahead <= Gap * (Cardinality(W) + 1)
<1> DEFINE m == Cardinality(W)
           f == [k \in 1 .. m + 1 |-> CHOOSE t \in W : due[t] = ahead - k * Gap]
<1>1. IsFiniteSet(W) /\ m \in Nat /\ ahead \in Nat /\ Gap \in Nat \ {0}
    BY Limits, FS_Subset, FS_CardinalityType DEF RequestsTypeOK
<1> HIDE DEF m
<1>2. SUFFICES ASSUME ahead > Gap * (m + 1) PROVE FALSE
    BY <1>1 DEF m
<1>3. \A k \in 1 .. m + 1 : f[k] \in W /\ due[f[k]] = ahead - k * Gap
    <2> SUFFICES ASSUME NEW k \in 1 .. m + 1
                 PROVE  \E t \in W : due[t] = ahead - k * Gap
        OBVIOUS
    <2>1. Gap * k <= Gap * (m + 1) /\ Gap * k \in Int /\ Gap * k = k * Gap
        BY <1>1, TimesUp
    <2>2. ahead > k * Gap /\ k \in Nat \ {0}
        BY <1>1, <1>2, <2>1
    <2> QED BY <2>2 DEF SlotChain
<1> HIDE DEF f
<1>4. ASSUME NEW x \in 1 .. m + 1, NEW y \in 1 .. m + 1, x < y, f[x] = f[y]
      PROVE  FALSE
    <2>1. x * Gap = y * Gap
        BY <1>1, <1>3, <1>4
    <2>2. Gap * (y - x) = y * Gap - x * Gap /\ y - x \in Nat \ {0}
        BY <1>1, <1>4
    <2>3. Gap * (y - x) > 0
        BY <1>1, <2>2
    <2> QED BY <1>1, <2>1, <2>2, <2>3
<1>5. IsFiniteSet(1 .. m + 1) /\ Cardinality(1 .. m + 1) = m + 1
    BY <1>1, FS_Interval
<1>6. f \in [1 .. m + 1 -> W]
    BY <1>3 DEF f
<1>7. \E x, y \in 1 .. m + 1 : x # y /\ f[x] = f[y]
    BY <1>1, <1>5, <1>6, FS_PigeonHole DEF m
<1> QED BY <1>1, <1>4, <1>7

------------------------------------------------------------------------------
(* The threads and the calls they have made.                               *)

\* Where a thread is, and what it still has to wait for.
ThreadOK(t) ==
    /\ at[t] = "idle" => tries[t] = 0
    /\ at[t] = "slot" => due[t] >= -Late /\ tries[t] < MaxTries /\ (tries[t] > 0 => inside)
    /\ at[t] = "call" => due[t] \in 0 .. Timeout /\ tries[t] >= 1
    /\ at[t] = "backoff" => /\ due[t] >= -Late /\ due[t] <= Delay(tries[t])
                            /\ tries[t] \in 1 .. MaxTries - 1

\* When its slot was, for a call that was made in one.
SlotAge(c) == c.age + c.late

Apart(a, b, gap) == a >= b + gap \/ b >= a + gap

SlotInv ==
    /\ \A t \in Waiting : ahead >= due[t] + Gap
    /\ \A t, u \in Waiting : t # u => Apart(due[t], due[u], Gap)
    /\ SlotChain

CallInv ==
    /\ \A c \in recent : c.age < Window /\ (inside => c.paced)
    /\ \A c \in Paced : /\ ahead + SlotAge(c) >= Gap
                        /\ \A t \in Waiting : Apart(due[t], -SlotAge(c), Gap)
                        /\ \A d \in Paced : c # d => Apart(SlotAge(c), SlotAge(d), Gap)

\* A retry that went round the limiter, and the thread's next one.
RetryInv ==
    \A c \in recent \ Paced :
        /\ at[c.by] = "backoff" => c.age + due[c.by] >= Delay(1)
        /\ \A d \in recent \ Paced : c # d /\ c.by = d.by => Apart(c.age, d.age, Delay(1))

PoolInv == RequestsTypeOK /\ (\A t \in Threads : ThreadOK(t)) /\ SlotInv /\ CallInv /\ RetryInv

Calls == [by : Threads, age : 0 .. Window, paced : BOOLEAN, late : 0 .. Late]

LEMMA PoolTypes ==
    ASSUME RequestsTypeOK
    PROVE  /\ inside \in BOOLEAN /\ ahead \in Nat /\ since \in Nat /\ queue \in 0 .. Jobs
           /\ at \in [Threads -> {"idle", "slot", "call", "backoff"}]
           /\ due \in [Threads -> Int] /\ tries \in [Threads -> 0 .. MaxTries]
           /\ recent \subseteq Calls
           /\ \A t \in Threads : due[t] \in Int /\ tries[t] \in Nat /\ tries[t] <= MaxTries
           /\ \A c \in recent : /\ c.by \in Threads /\ c.age \in Nat /\ c.late \in Nat
                                /\ c.age <= Window /\ c.late <= Late /\ c.paced \in BOOLEAN
                                /\ SlotAge(c) \in Nat
<1>1. recent \subseteq Calls
    BY DEF RequestsTypeOK, Calls
<1>2. ASSUME NEW c \in recent
      PROVE  /\ c.by \in Threads /\ c.age \in Nat /\ c.late \in Nat
             /\ c.age <= Window /\ c.late <= Late /\ c.paced \in BOOLEAN /\ SlotAge(c) \in Nat
    BY <1>1, Limits DEF Calls, SlotAge
<1> QED BY <1>1, <1>2, Limits DEF RequestsTypeOK

LEMMA PoolInit == RequestsInit => PoolInv
<1> SUFFICES ASSUME RequestsInit PROVE PoolInv
    OBVIOUS
<1>1. RequestsTypeOK
    BY Limits DEF RequestsInit, RequestsTypeOK
<1>2. Waiting = {} /\ recent = {} /\ ahead = 0
    BY DEF RequestsInit, Waiting
<1>3. \A k \in Nat \ {0} : ~(0 > k * Gap)
    BY Limits
<1> QED BY <1>1, <1>2, <1>3 DEF PoolInv, RequestsInit, ThreadOK, SlotInv, SlotChain, CallInv, RetryInv,
                                Paced

\* A slot is reserved behind all others.
LEMMA Reserved ==
    ASSUME PoolInv, NEW t \in Threads, Reserve(t), at[t] # "slot",
           inside' = inside, recent' = recent
    PROVE  SlotInv' /\ CallInv' /\ RetryInv'
<1>1. /\ ahead \in Nat /\ Gap \in Nat \ {0} /\ Late \in Nat
      /\ \A u \in Threads : due[u] \in Int
      /\ \A c \in recent : SlotAge(c) \in Nat /\ c.by \in Threads
      /\ at \in [Threads -> {"idle", "slot", "call", "backoff"}] /\ due \in [Threads -> Int]
    BY Limits, PoolTypes DEF PoolInv
<1>2. /\ ahead' = ahead + Gap /\ due'[t] = ahead /\ at'[t] = "slot"
      /\ \A u \in Threads \ {t} : due'[u] = due[u] /\ at'[u] = at[u]
      /\ Waiting' = Waiting \cup {t} /\ t \notin Waiting
    BY <1>1 DEF Reserve, Waiting
<1>3. /\ \A u \in Waiting : ahead >= due[u] + Gap /\ u \in Threads \ {t}
      /\ \A u, v \in Waiting : u # v => Apart(due[u], due[v], Gap)
    BY <1>2 DEF PoolInv, SlotInv, Waiting
<1>4. ASSUME NEW k \in Nat \ {0}, ahead' > k * Gap
      PROVE  \E u \in Waiting' : due'[u] = ahead' - k * Gap
    <2>1. CASE k = 1
        BY <1>1, <1>2, <2>1
    <2>2. CASE k # 1
        <3>1. k - 1 \in Nat \ {0} /\ (k - 1) * Gap = k * Gap - Gap
            BY <1>1, <2>2
        <3>2. k * Gap \in Int
            BY <1>1
        <3>3. ahead > (k - 1) * Gap
            BY <1>1, <1>2, <1>4, <3>1, <3>2
        <3>4. PICK u \in Waiting : due[u] = ahead - (k - 1) * Gap
            BY <3>1, <3>3 DEF PoolInv, SlotInv, SlotChain
        <3>5. due'[u] = ahead' - k * Gap
            BY <1>1, <1>2, <1>3, <3>1, <3>2, <3>4
        <3> QED BY <1>2, <3>5
    <2> QED BY <2>1, <2>2
<1>5. \A u \in Waiting' : ahead' >= due'[u] + Gap
    BY <1>1, <1>2, <1>3
<1>6. \A u, v \in Waiting' : u # v => Apart(due'[u], due'[v], Gap)
    BY <1>1, <1>2, <1>3 DEF Apart
<1>7. SlotInv'
    BY <1>4, <1>5, <1>6 DEF SlotInv, SlotChain
<1>8. Paced' = Paced /\ Paced \subseteq recent
    BY DEF Paced
<1>9. \A c \in Paced : /\ ahead + SlotAge(c) >= Gap
                       /\ \A u \in Waiting : Apart(due[u], -SlotAge(c), Gap)
                       /\ \A d \in Paced : c # d => Apart(SlotAge(c), SlotAge(d), Gap)
    BY DEF PoolInv, CallInv
<1>10. \A c \in Paced : /\ ahead' + SlotAge(c) >= Gap
                        /\ \A u \in Waiting' : Apart(due'[u], -SlotAge(c), Gap)
    BY <1>1, <1>2, <1>3, <1>8, <1>9 DEF Apart
<1>11. CallInv'
    BY <1>8, <1>9, <1>10 DEF PoolInv, CallInv, SlotAge
<1>12. RetryInv'
    <2>1. \A c \in recent : at'[c.by] = "backoff" => at[c.by] = "backoff" /\ due'[c.by] = due[c.by]
        BY <1>1, <1>2
    <2> QED BY <1>8, <2>1 DEF PoolInv, RetryInv
<1> QED BY <1>7, <1>11, <1>12

\* A thread that was not waiting for a slot moves on, without a call.
LEMMA MovedOn ==
    ASSUME PoolInv, NEW t \in Threads, at[t] # "slot", at'[t] # "slot",
           due'[t] \in Int, at'[t] = "backoff" => due'[t] >= Delay(1),
           \A u \in Threads \ {t} : due'[u] = due[u] /\ at'[u] = at[u],
           inside' = inside, recent' = recent, ahead' = ahead
    PROVE  SlotInv' /\ CallInv' /\ RetryInv'
<1>1. Waiting' = Waiting /\ \A u \in Waiting : due'[u] = due[u]
    BY DEF Waiting
<1>2. SlotInv'
    BY <1>1 DEF PoolInv, SlotInv, SlotChain
<1>3. Paced' = Paced
    BY DEF Paced
<1>4. CallInv'
    BY <1>1, <1>3 DEF PoolInv, CallInv, SlotAge
<1>5. ASSUME NEW c \in recent \ Paced, at'[c.by] = "backoff"
      PROVE  c.age + due'[c.by] >= Delay(1)
    <2>1. c.by \in Threads /\ c.age \in Nat /\ due[c.by] \in Int
        BY PoolTypes DEF PoolInv
    <2>2. CASE c.by = t
        <3>1. Delay(1) \in Nat
            BY DelayGrows
        <3>2. due'[t] >= Delay(1)
            BY <1>5, <2>2
        <3> QED BY <2>1, <2>2, <3>1, <3>2
    <2>3. CASE c.by # t
        BY <1>5, <2>1, <2>3 DEF PoolInv, RetryInv
    <2> QED BY <2>2, <2>3
<1>6. RetryInv'
    BY <1>3, <1>5 DEF PoolInv, RetryInv
<1> QED BY <1>2, <1>4, <1>6

\* A call is made: in its slot, or after a backoff.
LEMMA Sent ==
    ASSUME PoolInv, NEW t \in Threads, NEW paced \in BOOLEAN, Send(t, paced), due[t] <= 0,
           due[t] >= -Late,
           paced => at[t] = "slot", ~paced => at[t] = "backoff" /\ ~inside
    PROVE  SlotInv' /\ CallInv' /\ RetryInv' /\ recent' \subseteq Calls
<1> DEFINE new == [by |-> t, age |-> 0, paced |-> paced, late |-> IF paced THEN -due[t] ELSE 0]
<1>1. /\ ahead \in Nat /\ Gap \in Nat \ {0} /\ Late \in Nat /\ Window \in Nat \ {0}
      /\ \A u \in Threads : due[u] \in Int
      /\ \A c \in recent : /\ SlotAge(c) \in Nat /\ c.by \in Threads /\ c.age \in Nat
                           /\ c.paced \in BOOLEAN
      /\ at \in [Threads -> {"idle", "slot", "call", "backoff"}] /\ due \in [Threads -> Int]
      /\ recent \subseteq Calls
    BY Limits, PoolTypes DEF PoolInv
<1>2. /\ ahead' = ahead /\ at'[t] = "call" /\ inside' = inside
      /\ \A u \in Threads \ {t} : due'[u] = due[u] /\ at'[u] = at[u]
      /\ Waiting' = Waiting \ {t} /\ recent' = recent \cup {new}
      /\ \A u \in Waiting' : due'[u] = due[u] /\ u \in Waiting /\ u # t
    BY <1>1 DEF Send, Waiting
<1>3. /\ new.by = t /\ new.age = 0 /\ new.paced = paced /\ new \in Calls
      /\ SlotAge(new) = (IF paced THEN -due[t] ELSE 0) /\ SlotAge(new) \in Nat
    <2>1. (IF paced THEN -due[t] ELSE 0) \in 0 .. Late
        BY <1>1
    <2> QED BY <1>1, <2>1 DEF SlotAge, Calls
<1> HIDE DEF new
<1>4. SlotInv'
    <2>1. /\ \A u \in Waiting : ahead >= due[u] + Gap
          /\ \A u, v \in Waiting : u # v => Apart(due[u], due[v], Gap)
        BY DEF PoolInv, SlotInv
    <2>2. ASSUME NEW k \in Nat \ {0}, ahead > k * Gap
          PROVE  \E u \in Waiting' : due'[u] = ahead - k * Gap
        <3>1. PICK u \in Waiting : due[u] = ahead - k * Gap
            BY <2>2 DEF PoolInv, SlotInv, SlotChain
        <3>2. k * Gap \in Int
            BY <1>1
        <3>3. u # t
            BY <1>1, <2>2, <3>1, <3>2
        <3> QED BY <1>2, <3>1, <3>3 DEF Waiting
    <2> QED BY <1>2, <2>1, <2>2 DEF SlotInv, SlotChain
<1>5. Paced' = IF paced THEN Paced \cup {new} ELSE Paced
    BY <1>2, <1>3 DEF Paced
<1>6. /\ \A c \in Paced : /\ ahead + SlotAge(c) >= Gap /\ SlotAge(c) \in Nat
                          /\ \A u \in Waiting : Apart(due[u], -SlotAge(c), Gap)
                          /\ \A d \in Paced : c # d => Apart(SlotAge(c), SlotAge(d), Gap)
      /\ \A c \in recent : c.age < Window /\ (inside => c.paced)
    BY <1>1 DEF PoolInv, CallInv, Paced
<1>7. ASSUME paced
      PROVE  /\ ahead + SlotAge(new) >= Gap
             /\ \A u \in Waiting' : Apart(due[u], -SlotAge(new), Gap)
             /\ \A c \in Paced : /\ Apart(SlotAge(c), SlotAge(new), Gap)
                                 /\ Apart(SlotAge(new), SlotAge(c), Gap)
    <2>1. t \in Waiting /\ SlotAge(new) = -due[t]
        BY <1>3, <1>7 DEF Waiting
    <2>2. /\ ahead >= due[t] + Gap
          /\ \A u \in Waiting' : Apart(due[u], due[t], Gap)
        BY <1>2, <2>1 DEF PoolInv, SlotInv
    <2>3. \A c \in Paced : Apart(due[t], -SlotAge(c), Gap)
        BY <1>6, <2>1
    <2>4. due[t] \in Int /\ \A u \in Waiting' : due[u] \in Int
        BY <1>1 DEF Waiting
    <2> QED BY <1>1, <1>6, <2>1, <2>2, <2>3, <2>4 DEF Apart
<1>8. CallInv'
    <2>1. \A c \in recent' : c.age < Window /\ (inside => c.paced)
        BY <1>1, <1>2, <1>3, <1>6
    <2>2. \A c \in Paced' : /\ ahead + SlotAge(c) >= Gap
                            /\ \A u \in Waiting' : Apart(due[u], -SlotAge(c), Gap)
                            /\ \A d \in Paced' : c # d => Apart(SlotAge(c), SlotAge(d), Gap)
        BY <1>2, <1>5, <1>6, <1>7
    <2> QED BY <1>2, <2>1, <2>2 DEF CallInv, SlotAge
<1>9. RetryInv'
    <2>1. Delay(1) \in Nat
        BY DelayGrows
    <2>2. \A c \in recent : at'[c.by] = "backoff"
                            => c.by # t /\ at[c.by] = "backoff" /\ due'[c.by] = due[c.by]
        BY <1>1, <1>2
    <2>3. recent' \ Paced' = IF paced THEN recent \ Paced ELSE (recent \ Paced) \cup {new}
        BY <1>2, <1>3, <1>5 DEF Paced
    <2>4. ASSUME ~paced, NEW c \in recent \ Paced, c.by = t
          PROVE  Apart(c.age, 0, Delay(1)) /\ Apart(0, c.age, Delay(1))
        <3>1. c.age + due[t] >= Delay(1)
            BY <2>4 DEF PoolInv, RetryInv
        <3> QED BY <1>1, <2>1, <3>1 DEF Apart
    <2>5. \A c \in recent \ Paced :
            /\ at[c.by] = "backoff" => c.age + due[c.by] >= Delay(1)
            /\ \A d \in recent \ Paced : c # d /\ c.by = d.by => Apart(c.age, d.age, Delay(1))
        BY DEF PoolInv, RetryInv
    <2>6. ASSUME NEW c \in recent' \ Paced'
          PROVE  /\ at'[c.by] = "backoff" => c.age + due'[c.by] >= Delay(1)
                 /\ \A d \in recent' \ Paced' : c # d /\ c.by = d.by => Apart(c.age, d.age, Delay(1))
        BY <1>2, <1>3, <2>2, <2>3, <2>4, <2>5
    <2>7. Delay(1)' = Delay(1)
        OBVIOUS
    <2> QED BY <2>6, <2>7 DEF RetryInv
<1> QED BY <1>1, <1>2, <1>3, <1>4, <1>8, <1>9

\* Time passes for all of them.
LEMMA Aged ==
    ASSUME PoolInv, TimePasses
    PROVE  SlotInv' /\ CallInv' /\ RetryInv' /\ recent' \subseteq Calls
<1> DEFINE aged(c) == [c EXCEPT !.age = @ + 1]
<1>1. /\ ahead \in Nat /\ Gap \in Nat \ {0} /\ Late \in Nat /\ Window \in Nat \ {0}
      /\ \A u \in Threads : due[u] \in Int
      /\ \A c \in recent : /\ SlotAge(c) \in Nat /\ c.by \in Threads /\ c.age \in Nat
                           /\ c.paced \in BOOLEAN
      /\ recent \subseteq Calls
    BY Limits, PoolTypes DEF PoolInv
<1>2. /\ ahead' = IF ahead > 0 THEN ahead - 1 ELSE 0
      /\ \A u \in Waiting : due'[u] = due[u] - 1 /\ u \in Threads
      /\ Waiting' = Waiting /\ at' = at /\ inside' = inside
      /\ \A u \in Threads : at[u] = "backoff" => due'[u] = due[u] - 1
      /\ recent' = {aged(c) : c \in {d \in recent : d.age + 1 < Window}}
    BY DEF TimePasses, Waiting
<1>3. ASSUME NEW c \in recent
      PROVE  /\ aged(c).by = c.by /\ aged(c).age = c.age + 1 /\ aged(c).paced = c.paced
             /\ SlotAge(aged(c)) = SlotAge(c) + 1
    <2>1. c \in Calls
        BY <1>1
    <2>2. c.age \in Nat /\ c.late \in Nat
        BY <2>1 DEF Calls
    <2> QED BY <2>1, <2>2 DEF Calls, SlotAge
<1>4. \A c \in recent : c.age + 1 < Window => aged(c) \in Calls
    BY <1>1 DEF Calls
<1> HIDE DEF aged
<1>5. ASSUME NEW e \in recent'
      PROVE  \E c \in recent : e = aged(c) /\ c.age + 1 < Window
    BY <1>2
<1>6. SlotInv'
    <2>1. /\ \A u \in Waiting : ahead >= due[u] + Gap
          /\ \A u, v \in Waiting : u # v => Apart(due[u], due[v], Gap)
        BY DEF PoolInv, SlotInv
    <2>2. ASSUME NEW k \in Nat \ {0}, ahead' > k * Gap
          PROVE  \E u \in Waiting' : due'[u] = ahead' - k * Gap
        <3>1. k * Gap \in Nat
            BY <1>1
        <3>2. ahead' = ahead - 1 /\ ahead > k * Gap
            BY <1>1, <1>2, <2>2, <3>1
        <3>3. PICK u \in Waiting : due[u] = ahead - k * Gap
            BY <3>2 DEF PoolInv, SlotInv, SlotChain
        <3> QED BY <1>1, <1>2, <3>1, <3>2, <3>3
    <2>3. \A u \in Waiting' : ahead' >= due'[u] + Gap
        BY <1>1, <1>2, <2>1
    <2>4. \A u, v \in Waiting' : u # v => Apart(due'[u], due'[v], Gap)
        BY <1>1, <1>2, <2>1 DEF Apart
    <2> QED BY <2>2, <2>3, <2>4 DEF SlotInv, SlotChain
<1>7. /\ \A c \in Paced : /\ ahead + SlotAge(c) >= Gap /\ c \in recent
                          /\ \A u \in Waiting : Apart(due[u], -SlotAge(c), Gap)
                          /\ \A d \in Paced : c # d => Apart(SlotAge(c), SlotAge(d), Gap)
      /\ \A c \in recent : c.age < Window /\ (inside => c.paced)
    BY DEF PoolInv, CallInv, Paced
<1>8. \A e \in recent' : /\ e \in Paced' => \E c \in Paced : e = aged(c)
                         /\ e \notin Paced' => \E c \in recent \ Paced : e = aged(c)
    BY <1>3, <1>5 DEF Paced
<1>9. CallInv'
    <2>1. \A e \in recent' : e.age < Window /\ (inside => e.paced)
        BY <1>1, <1>3, <1>5, <1>7
    <2>2. ASSUME NEW e \in Paced'
          PROVE  /\ ahead' + SlotAge(e) >= Gap
                 /\ \A u \in Waiting' : Apart(due'[u], -SlotAge(e), Gap)
                 /\ \A f \in Paced' : e # f => Apart(SlotAge(e), SlotAge(f), Gap)
        <3>1. PICK c \in Paced : e = aged(c)
            BY <1>8 DEF Paced
        <3>2. SlotAge(e) = SlotAge(c) + 1 /\ SlotAge(c) \in Nat
            BY <1>1, <1>3, <1>7, <3>1
        <3>3. ahead' + SlotAge(e) >= Gap
            BY <1>1, <1>2, <1>7, <3>2
        <3>4. \A u \in Waiting' : Apart(due'[u], -SlotAge(e), Gap)
            BY <1>1, <1>2, <1>7, <3>2 DEF Apart
        <3>5. ASSUME NEW f \in Paced', e # f
              PROVE  Apart(SlotAge(e), SlotAge(f), Gap)
            <4>1. PICK d \in Paced : f = aged(d)
                BY <1>8 DEF Paced
            <4>2. SlotAge(f) = SlotAge(d) + 1 /\ SlotAge(d) \in Nat /\ c # d
                BY <1>1, <1>3, <1>7, <3>1, <3>5, <4>1
            <4>3. Apart(SlotAge(c), SlotAge(d), Gap)
                BY <1>7, <4>2
            <4> QED BY <1>1, <3>2, <4>2, <4>3 DEF Apart
        <3> QED BY <3>3, <3>4, <3>5
    <2> QED BY <1>2, <2>1, <2>2 DEF CallInv, SlotAge
<1>10. RetryInv'
    <2>1. Delay(1) \in Nat
        BY DelayGrows
    <2>2. ASSUME NEW e \in recent' \ Paced'
          PROVE  /\ at'[e.by] = "backoff" => e.age + due'[e.by] >= Delay(1)
                 /\ \A f \in recent' \ Paced' :
                        e # f /\ e.by = f.by => Apart(e.age, f.age, Delay(1))
        <3>1. PICK c \in recent \ Paced : e = aged(c)
            BY <1>8
        <3>2. e.by = c.by /\ e.age = c.age + 1 /\ c.age \in Nat /\ c.by \in Threads
            BY <1>1, <1>3, <3>1
        <3>3. at[c.by] = "backoff" => c.age + due[c.by] >= Delay(1)
            BY DEF PoolInv, RetryInv
        <3>4. at'[e.by] = "backoff" => e.age + due'[e.by] >= Delay(1)
            BY <1>1, <1>2, <2>1, <3>2, <3>3
        <3>5. ASSUME NEW f \in recent' \ Paced', e # f, e.by = f.by
              PROVE  Apart(e.age, f.age, Delay(1))
            <4>1. PICK d \in recent \ Paced : f = aged(d)
                BY <1>8
            <4>2. f.by = d.by /\ f.age = d.age + 1 /\ d.age \in Nat /\ c # d
                BY <1>1, <1>3, <3>1, <3>5, <4>1
            <4>3. Apart(c.age, d.age, Delay(1))
                BY <3>2, <3>5, <4>2 DEF PoolInv, RetryInv
            <4> QED BY <2>1, <3>2, <4>2, <4>3 DEF Apart
        <3> QED BY <3>4, <3>5
    <2> QED BY <2>2 DEF RetryInv
<1>11. recent' \subseteq Calls
    BY <1>4, <1>5
<1> QED BY <1>6, <1>9, <1>10, <1>11

\* What a step is to the threads: time, or one of them.
LEMMA PoolStep == PoolInv /\ [RequestsNext]_requestVars => PoolInv'
<1> SUFFICES ASSUME PoolInv, [RequestsNext]_requestVars PROVE PoolInv'
    OBVIOUS
<1>0. /\ Gap \in Nat \ {0} /\ MaxTries \in Nat \ {0} /\ Timeout \in Nat /\ Late \in Nat
      /\ Jobs \in Nat /\ RequestsTypeOK
      /\ \A t \in Threads : ThreadOK(t)
      /\ \A k \in Nat : Delay(k) \in Nat /\ Delay(1) \in Nat /\ Delay(k) >= Delay(1)
    BY Limits, DelayGrows DEF PoolInv
<1>t. /\ inside \in BOOLEAN /\ ahead \in Nat /\ since \in Nat /\ queue \in 0 .. Jobs
      /\ at \in [Threads -> {"idle", "slot", "call", "backoff"}]
      /\ due \in [Threads -> Int] /\ tries \in [Threads -> 0 .. MaxTries]
      /\ recent \subseteq Calls
      /\ \A t \in Threads : due[t] \in Int /\ tries[t] \in Nat /\ tries[t] <= MaxTries
    BY PoolTypes DEF PoolInv
<1> DEFINE Typed == /\ inside \in BOOLEAN /\ ahead \in Nat /\ since \in Nat /\ queue \in 0 .. Jobs
                    /\ at \in [Threads -> {"idle", "slot", "call", "backoff"}]
                    /\ due \in [Threads -> Int] /\ tries \in [Threads -> 0 .. MaxTries]
                    /\ recent \subseteq Calls
           Others(t) == \A u \in Threads \ {t} :
                           at'[u] = at[u] /\ due'[u] = due[u] /\ tries'[u] = tries[u]
<1>1. ASSUME Typed', \A t \in Threads : ThreadOK(t)', SlotInv', CallInv', RetryInv'
      PROVE  PoolInv'
    BY <1>1 DEF PoolInv, RequestsTypeOK, Calls
<1>2. ASSUME NEW t \in Threads, Others(t), inside' = inside, ThreadOK(t)'
      PROVE  \A u \in Threads : ThreadOK(u)'
    BY <1>0, <1>2 DEF ThreadOK
<1>3. CASE BeginCycle
    <2>1. /\ UNCHANGED <<inside, ahead, at, due, tries, recent>> /\ since' = 0 /\ queue' = Jobs
        BY <1>3 DEF BeginCycle
    <2>2. Typed' /\ \A t \in Threads : ThreadOK(t)'
        BY <1>0, <1>t, <2>1 DEF ThreadOK
    <2>3. Waiting' = Waiting /\ Paced' = Paced
        BY <2>1 DEF Waiting, Paced
    <2>4. SlotInv' /\ CallInv' /\ RetryInv'
        BY <2>1, <2>3 DEF PoolInv, SlotInv, SlotChain, CallInv, RetryInv, SlotAge
    <2> QED BY <1>1, <2>2, <2>4
<1>4. CASE TimePasses
    <2>1. SlotInv' /\ CallInv' /\ RetryInv' /\ recent' \subseteq Calls
        BY <1>4, Aged
    <2>2. /\ \A t \in Threads : InTime(t) /\ due'[t] = IF at[t] = "idle" THEN 0 ELSE due[t] - 1
          /\ since' = since + 1 /\ UNCHANGED <<inside, queue, at, tries>>
          /\ ahead' = (IF ahead > 0 THEN ahead - 1 ELSE 0)
          /\ due' \in [Threads -> Int]
        BY <1>t, <1>4 DEF TimePasses
    <2>3. Typed'
        BY <1>t, <2>1, <2>2
    <2>4. ASSUME NEW t \in Threads
          PROVE  ThreadOK(t)'
        <3>1. CASE at[t] = "idle"
            BY <1>0, <1>t, <2>2, <3>1 DEF ThreadOK
        <3>2. CASE at[t] = "call"
            <4>1. due[t] \in 0 .. Timeout /\ due[t] > 0 /\ due'[t] = due[t] - 1 /\ tries'[t] >= 1
                BY <1>0, <2>2, <3>2 DEF ThreadOK, InTime
            <4>2. due'[t] \in 0 .. Timeout
                BY <1>0, <4>1
            <4> QED BY <2>2, <3>2, <4>1, <4>2 DEF ThreadOK
        <3>3. CASE at[t] \in {"slot", "backoff"}
            <4>1. due[t] > -Late /\ due'[t] = due[t] - 1 /\ due[t] \in Int
                BY <1>t, <2>2, <3>3 DEF InTime
            <4>2. due'[t] >= -Late /\ due'[t] <= due[t]
                BY <1>0, <4>1
            <4>3. at[t] = "backoff" => /\ due[t] <= Delay(tries[t]) /\ tries[t] \in 1 .. MaxTries - 1
                                       /\ Delay(tries[t]) \in Nat
                BY <1>0 DEF ThreadOK
            <4>4. at[t] = "backoff" => due'[t] <= Delay(tries[t])
                BY <4>1, <4>2, <4>3
            <4> QED BY <1>0, <2>2, <3>3, <4>2, <4>3, <4>4 DEF ThreadOK
        <3> QED BY <1>t, <3>1, <3>2, <3>3
    <2> QED BY <1>1, <2>1, <2>3, <2>4
<1>5. ASSUME NEW t \in Threads, Reserve(t), at[t] \in {"idle", "backoff"},
             queue' \in 0 .. Jobs, UNCHANGED <<inside, since, tries, recent>>,
             tries[t] < MaxTries, tries[t] > 0 => inside
      PROVE  PoolInv'
    <2>1. SlotInv' /\ CallInv' /\ RetryInv'
        BY <1>5, Reserved
    <2>2. Typed' /\ Others(t) /\ at'[t] = "slot" /\ due'[t] = ahead
        BY <1>0, <1>t, <1>5 DEF Reserve
    <2>3. ThreadOK(t)'
        BY <1>0, <1>t, <1>5, <2>2 DEF ThreadOK
    <2>4. \A u \in Threads : ThreadOK(u)'
        BY <1>2, <1>5, <2>2, <2>3
    <2> QED BY <1>1, <2>1, <2>2, <2>4
<1>6. ASSUME NEW t \in Threads, Take(t)
      PROVE  PoolInv'
    <2>1. /\ Reserve(t) /\ at[t] = "idle" /\ queue' = queue - 1 /\ queue > 0
          /\ UNCHANGED <<inside, since, tries, recent>>
        BY <1>6 DEF Take
    <2>2. tries[t] = 0
        BY <1>0, <2>1 DEF ThreadOK
    <2>3. queue' \in 0 .. Jobs
        BY <1>0, <1>t, <2>1
    <2> QED BY <1>0, <1>5, <2>1, <2>2, <2>3
<1>7. ASSUME NEW t \in Threads, NEW paced \in BOOLEAN, Send(t, paced), due[t] <= 0,
             paced => at[t] = "slot", ~paced => at[t] = "backoff" /\ ~inside
      PROVE  PoolInv'
    <2>1. due[t] >= -Late /\ tries[t] < MaxTries
        BY <1>0, <1>t, <1>7 DEF ThreadOK
    <2>2. SlotInv' /\ CallInv' /\ RetryInv' /\ recent' \subseteq Calls
        BY <1>7, <2>1, Sent
    <2>3. /\ UNCHANGED <<inside, ahead, since, queue>> /\ at' = [at EXCEPT ![t] = "call"]
          /\ due' = [due EXCEPT ![t] = Timeout] /\ tries' = [tries EXCEPT ![t] = @ + 1]
        BY <1>7 DEF Send
    <2>4. /\ Typed' /\ Others(t) /\ at'[t] = "call" /\ due'[t] = Timeout
          /\ tries'[t] = tries[t] + 1
        BY <1>0, <1>t, <2>1, <2>2, <2>3
    <2>5. ThreadOK(t)'
        BY <1>0, <1>t, <2>4 DEF ThreadOK
    <2>6. \A u \in Threads : ThreadOK(u)'
        BY <1>2, <2>3, <2>4, <2>5
    <2> QED BY <1>1, <2>2, <2>4, <2>6
<1>8. ASSUME NEW t \in Threads, Ends(t), at[t] = "call"
      PROVE  PoolInv'
    <2>1. /\ at' = [at EXCEPT ![t] = "idle"] /\ tries' = [tries EXCEPT ![t] = 0]
          /\ due' = [due EXCEPT ![t] = 0] /\ UNCHANGED <<inside, ahead, since, queue, recent>>
        BY <1>8 DEF Ends
    <2>2. Typed' /\ Others(t) /\ at'[t] = "idle" /\ tries'[t] = 0 /\ due'[t] = 0
        BY <1>0, <1>t, <2>1
    <2>3. ThreadOK(t)'
        BY <2>2 DEF ThreadOK
    <2>4. \A u \in Threads : ThreadOK(u)'
        BY <1>2, <2>1, <2>2, <2>3
    <2>5. SlotInv' /\ CallInv' /\ RetryInv'
        BY <1>8, <2>1, <2>2, MovedOn
    <2> QED BY <1>1, <2>2, <2>4, <2>5
<1>9. ASSUME NEW t \in Threads, Throttled(t)
      PROVE  PoolInv'
    <2>1. CASE tries[t] < MaxTries
        <3>1. /\ at' = [at EXCEPT ![t] = "backoff"] /\ due' = [due EXCEPT ![t] = Delay(tries[t])]
              /\ UNCHANGED <<inside, ahead, since, queue, tries, recent>> /\ at[t] = "call"
            BY <1>9, <2>1 DEF Throttled
        <3>2. tries[t] \in 1 .. MaxTries - 1
            BY <1>0, <1>t, <2>1, <3>1 DEF ThreadOK
        <3>3. Delay(tries[t]) \in Nat /\ Delay(tries[t]) >= Delay(1)
            BY <1>0, <3>2
        <3>4. Typed' /\ Others(t) /\ at'[t] = "backoff" /\ due'[t] = Delay(tries[t])
            BY <1>0, <1>t, <3>1, <3>3
        <3>5. ThreadOK(t)'
            BY <1>0, <3>1, <3>2, <3>3, <3>4 DEF ThreadOK
        <3>6. \A u \in Threads : ThreadOK(u)'
            BY <1>2, <3>1, <3>4, <3>5
        <3>7. SlotInv' /\ CallInv' /\ RetryInv'
            BY <3>1, <3>3, <3>4, MovedOn
        <3> QED BY <1>1, <3>4, <3>6, <3>7
    <2>2. CASE ~(tries[t] < MaxTries)
        BY <1>8, <1>9, <2>2 DEF Throttled
    <2> QED BY <2>1, <2>2
<1>10. ASSUME NEW t \in Threads, Retry(t)
       PROVE  PoolInv'
    <2>1. at[t] = "backoff" /\ due[t] <= 0 /\ tries[t] < MaxTries
        BY <1>0, <1>t, <1>10 DEF Retry, Wakes, ThreadOK
    <2>2. CASE inside
        BY <1>t, <1>5, <1>10, <2>1, <2>2 DEF Retry
    <2>3. CASE ~inside
        BY <1>7, <1>10, <2>1, <2>3 DEF Retry
    <2> QED BY <2>2, <2>3
<1>11. CASE UNCHANGED requestVars
    <2>1. UNCHANGED <<inside, ahead, since, queue, at, due, tries, recent>>
        BY <1>11 DEF requestVars
    <2>2. Typed' /\ \A t \in Threads : ThreadOK(t)'
        BY <1>0, <1>t, <2>1 DEF ThreadOK
    <2>3. Waiting' = Waiting /\ Paced' = Paced
        BY <2>1 DEF Waiting, Paced
    <2>4. SlotInv' /\ CallInv' /\ RetryInv'
        BY <2>1, <2>3 DEF PoolInv, SlotInv, SlotChain, CallInv, RetryInv, SlotAge
    <2> QED BY <1>1, <2>2, <2>4
<1>12. ASSUME NEW t \in Threads, CallInSlot(t)
       PROVE  PoolInv'
    BY <1>7, <1>12 DEF CallInSlot, Wakes
<1>13. ASSUME NEW t \in Threads, CallEnds(t)
       PROVE  PoolInv'
    BY <1>8, <1>13 DEF CallEnds
<1> QED
    BY <1>3, <1>4, <1>6, <1>9, <1>10, <1>11, <1>12, <1>13 DEF RequestsNext

\* So many fit, who are apart.
LEMMA FitApart ==
    ASSUME NEW top \in Nat, NEW gap \in Nat \ {0}
    PROVE  /\ top \div gap \in Nat /\ IsFiniteSet(0 .. top \div gap)
           /\ Cardinality(0 .. top \div gap) = 1 + top \div gap
           /\ \A a \in Nat : a <= top => a \div gap \in 0 .. top \div gap
<1> DEFINE m == top \div gap
<1>1. ASSUME NEW a \in Nat, a <= top
      PROVE  a \div gap \in Nat /\ a \div gap <= m
    <2> DEFINE q == a \div gap
    <2>1. q \in Int /\ gap * q <= a /\ gap * 0 <= a
        BY Quotient
    <2>2. 0 <= q
        BY <2>1, Quotient
    <2> HIDE DEF q
    <2>3. gap * q <= top
        BY <1>1, <2>1
    <2>4. q <= m
        BY <2>1, <2>3, Quotient
    <2> QED BY <2>1, <2>2, <2>4 DEF q
<1>2. m \in Nat
    BY <1>1
<1> HIDE DEF m
<1>3. IsFiniteSet(0 .. m) /\ Cardinality(0 .. m) = 1 + m
    BY <1>2, FS_Interval
<1>4. \A a \in Nat : a <= top => a \div gap \in 0 .. m
    BY <1>1, <1>2
<1> QED BY <1>2, <1>3, <1>4 DEF m

LEMMA KeepsRate ==
    ASSUME PoolInv
    PROVE  SlotsApart /\ QueueIsShort /\ RateKept /\ RetriesBounded
<1>0. /\ Gap \in Nat \ {0} /\ Late \in Nat /\ Window \in Nat \ {0} /\ IsFiniteSet(Threads)
      /\ N \in Nat \ {0} /\ RequestsTypeOK /\ SlotInv /\ CallInv /\ RetryInv
      /\ Delay(1) \in Nat \ {0} /\ ahead \in Nat
      /\ \A t \in Threads : due[t] \in Int
      /\ \A c \in recent : /\ c.by \in Threads /\ c.age \in Nat /\ c.late \in Nat
                           /\ c.late <= Late /\ c.age < Window /\ SlotAge(c) \in Nat
    BY Limits, DelayGrows, PoolTypes DEF PoolInv, CallInv
<1>1. SlotsApart
    <2>1. \A t \in Threads : at[t] = "slot" => t \in Waiting
        BY DEF Waiting
    <2> QED BY <1>0, <2>1 DEF SlotsApart, SlotInv, Apart
<1>2. QueueIsShort
    <2>1. ahead <= Gap * (Cardinality(Threads) + 1)
        BY <1>0, AheadIsShort DEF SlotInv, Waiting
    <2> QED BY <2>1 DEF QueueIsShort
<1>3. RateKept
    <2> DEFINE top == Window - 1 + Late
               f == [c \in Paced |-> SlotAge(c) \div Gap]
    <2>1. top \in Nat /\ \A c \in Paced : SlotAge(c) \in Nat /\ SlotAge(c) <= top
        BY <1>0 DEF Paced, SlotAge
    <2> HIDE DEF top
    <2>2. /\ \A c \in Paced : SlotAge(c) \div Gap \in 0 .. top \div Gap
          /\ IsFiniteSet(0 .. top \div Gap) /\ Cardinality(0 .. top \div Gap) = 1 + top \div Gap
        BY <1>0, <2>1, FitApart
    <2>3. \A c, d \in Paced : c # d => f[c] # f[d]
        <3> SUFFICES ASSUME NEW c \in Paced, NEW d \in Paced, c # d
                     PROVE  SlotAge(c) \div Gap # SlotAge(d) \div Gap
            OBVIOUS
        <3>1. SlotAge(c) >= SlotAge(d) + Gap \/ SlotAge(d) >= SlotAge(c) + Gap
            BY <1>0 DEF CallInv, Apart
        <3> QED BY <1>0, <2>1, <3>1, QuotientsApart
    <2>4. f \in [Paced -> 0 .. top \div Gap]
        BY <2>2
    <2> HIDE DEF f
    <2>5. Cardinality(Paced) <= 1 + top \div Gap
        BY <2>2, <2>3, <2>4, NoLarger
    <2> QED BY <2>5 DEF top, RateKept
<1>4. RetriesBounded
    <2> DEFINE top == Window - 1
               m == top \div Delay(1)
               R == recent \ Paced
               f == [c \in R |-> <<c.by, c.age \div Delay(1)>>]
    <2>1. top \in Nat /\ \A c \in R : c.by \in Threads /\ c.age \in Nat /\ c.age <= top
        BY <1>0
    <2> HIDE DEF top
    <2>2. \A c \in R : c.age \div Delay(1) \in 0 .. m
        BY <1>0, <2>1, FitApart
    <2>3. /\ m \in Nat /\ IsFiniteSet(0 .. m) /\ Cardinality(0 .. m) = 1 + m
        BY <1>0, <2>1, FitApart
    <2>4. f \in [R -> Threads \X (0 .. m)]
        BY <2>1, <2>2
    <2>5. ASSUME NEW c \in R, NEW d \in R, c # d
          PROVE  f[c] # f[d]
        <3>1. CASE c.by = d.by
            <4>1. c.age >= d.age + Delay(1) \/ d.age >= c.age + Delay(1)
                BY <1>0, <2>5, <3>1 DEF RetryInv, Apart
            <4>2. c.age \div Delay(1) # d.age \div Delay(1)
                BY <1>0, <2>1, <4>1, QuotientsApart
            <4> QED BY <4>2
        <3>2. CASE c.by # d.by
            BY <3>2
        <3> QED BY <3>1, <3>2
    <2> HIDE DEF f, m, R
    <2>6. IsFiniteSet(Threads \X (0 .. m)) /\ Cardinality(Threads \X (0 .. m)) = N * (1 + m)
        BY <1>0, <2>3, FS_Product DEF N
    <2>7. Cardinality(R) <= N * (1 + m)
        BY <2>4, <2>5, <2>6, NoLarger
    <2>8. inside => recent = Paced
        BY <1>0 DEF CallInv, Paced
    <2> QED BY <2>7, <2>8 DEF RetriesBounded, R, m, top, N
<1> QED BY <1>1, <1>2, <1>3, <1>4

------------------------------------------------------------------------------
(* The cycle.  A job takes a thread no longer than LongestJob, and while   *)
(* jobs are waiting all threads are at work.                               *)

\* The time up to the end of a k-th attempt, at most.
Pause(k) == Delay(k) + Late + IF inside THEN LongestWait ELSE 0
Spent(k) == LongestWait + k * Timeout + SumFunction([n \in 1 .. k - 1 |-> Pause(n)])

\* How long a thread has been at its job, at most, and how much less than it may.
Budget(t) ==
    CASE at[t] = "slot" /\ tries[t] = 0 -> Gap * N
      [] at[t] = "slot" /\ tries[t] # 0 -> Spent(tries[t]) + Delay(tries[t]) + Late + Gap * N
      [] at[t] = "call" -> Spent(tries[t])
      [] at[t] = "backoff" -> Spent(tries[t]) + Delay(tries[t])
Elapsed(t) == Budget(t) - due[t]
Slack(t) == IF at[t] = "idle" THEN 0 ELSE LongestJob - Elapsed(t)
Slacks == [t \in Threads |-> Slack(t)]

LastStart == ((Jobs - 1) * LongestJob) \div N

WorkInv ==
    /\ queue > 0 => N * since + SumFunction(Slacks) <= LongestJob * (Jobs - queue)
    /\ \A t \in Threads : at[t] # "idle" => since <= LastStart + Elapsed(t)

LEMMA SpentGrows ==
    ASSUME inside \in BOOLEAN
    PROVE  /\ \A k \in Nat : Pause(k) \in Nat /\ Spent(k) \in Nat
           /\ \A k \in Nat \ {0} : /\ Spent(k + 1) = Spent(k) + Timeout + Pause(k)
                                   /\ Spent(k) >= LongestWait + Timeout
           /\ LongestJob = Spent(MaxTries)
           /\ \A k \in 1 .. MaxTries : Spent(k) <= LongestJob
<1>0. /\ Late \in Nat /\ LongestWait \in Nat /\ Timeout \in Nat /\ MaxTries \in Nat \ {0}
    BY Limits
<1>1. \A k \in Nat : Pause(k) \in Nat
    BY <1>0, DelayGrows DEF Pause
<1> DEFINE pauses(k) == [n \in 1 .. k - 1 |-> Pause(n)]
<1>2. ASSUME NEW k \in Nat
      PROVE  SumFunction(pauses(k)) \in Nat
    <2>1. IsFiniteSet(1 .. k - 1)
        BY FS_Interval
    <2>2. pauses(k) \in [1 .. k - 1 -> Nat]
        BY <1>1
    <2> HIDE DEF pauses
    <2> QED BY <2>1, <2>2, SumIsFold, Sums!SumType
<1>3. ASSUME NEW k \in Nat
      PROVE  k * Timeout \in Nat /\ (k + 1) * Timeout = k * Timeout + Timeout
    BY <1>0
<1>4. ASSUME NEW k \in Nat
      PROVE  Spent(k) \in Nat
    BY <1>0, <1>2, <1>3 DEF Spent
<1>5. ASSUME NEW k \in Nat \ {0}
      PROVE  SumFunction(pauses(k + 1)) = Pause(k) + SumFunction(pauses(k))
    <2> DEFINE f == pauses(k + 1)
               S == 1 .. k
    <2>1. IsFiniteSet(S) /\ k \in S
        BY FS_Interval
    <2>2. f \in [S -> Int] /\ f[k] = Pause(k)
        BY <1>1
    <2>3. pauses(k) = [x \in S \ {k} |-> f[x]]
        <3>1. 1 .. k - 1 = S \ {k} /\ (k + 1) - 1 = k
            OBVIOUS
        <3> QED BY <3>1
    <2> DEFINE g == pauses(k)
               last == k
    <2>4. /\ IsFiniteSet(S) /\ last \in S /\ f \in [S -> Int] /\ f[last] = Pause(k)
          /\ g \in [S \ {last} -> Int] /\ \A r \in S \ {last} : g[r] = f[r]
        BY <2>1, <2>2, <2>3
    <2> HIDE DEF f, g, S, last, pauses
    <2>5. SumFunction(f) = f[last] + SumFunction(g)
        <3>1. /\ SumFunction(f) = Sums!Fold(f, S) /\ Sums!Adds
              /\ Sums!IsFiniteSet(S) /\ Sums!Picks(S)
            BY ONLY <2>4, SumIsFold
        <3>2. SumFunction(g) = Sums!Fold(g, S \ {last})
            <4>1. IsFiniteSet(S \ {last}) /\ DOMAIN g = S \ {last}
                BY ONLY <2>4, FS_Subset
            <4> QED BY <4>1, SumIsFold
        <3>3. Sums!Fold(f, S) = f[last] + Sums!Fold(g, S \ {last})
            BY ONLY <2>4, <3>1, Sums!SumSplit
        <3> QED BY <3>1, <3>2, <3>3
    <2> QED BY <2>4, <2>5 DEF f, g
<1>6. ASSUME NEW k \in Nat \ {0}
      PROVE  /\ Spent(k + 1) = Spent(k) + Timeout + Pause(k)
             /\ Spent(k) >= LongestWait + Timeout
    <2>1. k + 1 \in Nat /\ k \in Nat /\ k - 1 \in Nat
        OBVIOUS
    <2>2. /\ Spent(k + 1) = LongestWait + (k + 1) * Timeout + SumFunction(pauses(k + 1))
          /\ Spent(k) = LongestWait + k * Timeout + SumFunction(pauses(k))
        BY DEF Spent
    <2>3. k * Timeout = (k - 1) * Timeout + Timeout /\ (k - 1) * Timeout \in Nat
        BY <1>0, <2>1
    <2> DEFINE a == SumFunction(pauses(k))
               p == Pause(k)
               x == (k - 1) * Timeout
    <2>4. /\ a \in Nat /\ p \in Nat /\ x \in Nat /\ SumFunction(pauses(k + 1)) = p + a
          /\ (k + 1) * Timeout = x + Timeout + Timeout /\ k * Timeout = x + Timeout
        BY <1>1, <1>2, <1>3, <1>5, <2>1, <2>3
    <2>5. /\ Spent(k + 1) = LongestWait + (x + Timeout + Timeout) + (p + a)
          /\ Spent(k) = LongestWait + (x + Timeout) + a
        BY <2>2, <2>4
    <2> HIDE DEF pauses, a, p, x
    <2>6. /\ Spent(k + 1) = Spent(k) + Timeout + p /\ Spent(k) >= LongestWait + Timeout
        BY <1>0, <2>4, <2>5
    <2> QED BY <2>6 DEF p
<1>7. LongestJob = Spent(MaxTries)
    BY DEF LongestJob, Spent, Pause
<1>8. ASSUME NEW k \in 1 .. MaxTries
      PROVE  Spent(k) <= LongestJob
    <2> DEFINE Bad == {j \in 1 .. MaxTries : ~(Spent(j) <= Spent(MaxTries))}
    <2>1. SUFFICES ASSUME Bad # {} PROVE FALSE
        BY <1>7
    <2>2. Bad \in SUBSET (1 .. MaxTries) /\ MaxTries \in Nat
        BY <1>0
    <2> HIDE DEF Bad
    <2>3. PICK m \in Bad : \A i \in Bad : i <= m
        BY <2>1, <2>2, Sums!LastPosition
    <2> USE DEF Bad
    <2>4. m \in 1 .. MaxTries /\ ~(Spent(m) <= Spent(MaxTries)) /\ m # MaxTries
        BY <1>0, <1>4
    <2>5. m + 1 \in 1 .. MaxTries /\ m + 1 \notin Bad
        BY <1>0, <2>3, <2>4
    <2>6. Spent(m + 1) <= Spent(MaxTries)
        BY <2>5
    <2>7. Spent(m + 1) >= Spent(m) /\ m \in Nat \ {0} /\ m + 1 \in Nat
        BY <1>0, <1>1, <1>4, <1>6, <2>4
    <2> HIDE DEF Bad
    <2> QED BY <1>0, <1>4, <2>4, <2>6, <2>7
<1> QED BY <1>1, <1>4, <1>6, <1>7, <1>8

\* A busy thread has been at its job for a time that fits.
LEMMA JobFits ==
    ASSUME PoolInv, NEW t \in Threads, at[t] # "idle"
    PROVE  /\ Elapsed(t) \in Nat /\ Elapsed(t) <= LongestJob /\ LongestJob \in Nat
           /\ Budget(t) \in Int
<1>0. /\ Late \in Nat /\ LongestWait \in Nat /\ Timeout \in Nat /\ MaxTries \in Nat \ {0}
      /\ Gap \in Nat \ {0} /\ N \in Nat \ {0} /\ LongestWait = Gap * N + Late /\ Gap * N \in Nat
      /\ RequestsTypeOK /\ ThreadOK(t) /\ inside \in BOOLEAN
      /\ due[t] \in Int /\ tries[t] \in Nat /\ tries[t] <= MaxTries /\ ahead \in Nat
      /\ at[t] \in {"slot", "call", "backoff"}
    BY Limits, PoolTypes DEF PoolInv, LongestWait, N
<1>1. /\ \A k \in Nat : Pause(k) \in Nat /\ Spent(k) \in Nat /\ Delay(k) \in Nat
      /\ \A k \in Nat \ {0} : /\ Spent(k + 1) = Spent(k) + Timeout + Pause(k)
                              /\ Spent(k) >= LongestWait + Timeout
      /\ LongestJob = Spent(MaxTries)
      /\ \A k \in 1 .. MaxTries : Spent(k) <= LongestJob
    BY <1>0, SpentGrows, DelayGrows
<1>2. LongestJob \in Nat /\ LongestWait + Timeout <= LongestJob
    BY <1>0, <1>1
<1>3. CASE at[t] = "slot"
    <2>1. due[t] >= -Late /\ tries[t] < MaxTries /\ (tries[t] > 0 => inside)
        BY <1>0, <1>3 DEF ThreadOK
    <2>2. due[t] <= Gap * N
        <3>1. ahead >= due[t] + Gap
            BY <1>3 DEF PoolInv, SlotInv, Waiting
        <3>2. ahead <= Gap * (N + 1) /\ Gap * (N + 1) = Gap * N + Gap
            BY <1>0, AheadIsShort DEF PoolInv, SlotInv, N, Waiting
        <3> QED BY <1>0, <3>1, <3>2
    <2>3. CASE tries[t] = 0
        <3>1. Budget(t) = Gap * N
            BY <1>3, <2>3 DEF Budget
        <3> QED BY <1>0, <1>2, <2>1, <2>2, <3>1 DEF Elapsed
    <2>4. CASE tries[t] # 0
        <3>1. Budget(t) = Spent(tries[t]) + Delay(tries[t]) + Late + Gap * N
            BY <1>3, <2>4 DEF Budget
        <3>2. Pause(tries[t]) = Delay(tries[t]) + Late + LongestWait
            BY <1>0, <2>1, <2>4 DEF Pause
        <3>3. Spent(tries[t] + 1) <= LongestJob
            BY <1>0, <1>1, <2>1
        <3>4. /\ Spent(tries[t] + 1) = Spent(tries[t]) + Timeout + Pause(tries[t])
              /\ Spent(tries[t]) \in Nat /\ Delay(tries[t]) \in Nat
            BY <1>0, <1>1, <2>4
        <3> QED BY <1>0, <1>2, <2>1, <2>2, <3>1, <3>2, <3>3, <3>4 DEF Elapsed
    <2> QED BY <2>3, <2>4
<1>4. CASE at[t] = "call"
    <2>1. due[t] \in 0 .. Timeout /\ tries[t] \in 1 .. MaxTries
        BY <1>0, <1>4 DEF ThreadOK
    <2>2. Budget(t) = Spent(tries[t])
        BY <1>4 DEF Budget
    <2>3. /\ Spent(tries[t]) \in Nat /\ Spent(tries[t]) <= LongestJob
          /\ Spent(tries[t]) >= LongestWait + Timeout
        BY <1>0, <1>1, <2>1
    <2> QED BY <1>0, <1>2, <2>1, <2>2, <2>3 DEF Elapsed
<1>5. CASE at[t] = "backoff"
    <2>1. /\ due[t] >= -Late /\ due[t] <= Delay(tries[t]) /\ tries[t] \in 1 .. MaxTries - 1
        BY <1>5, <1>0 DEF ThreadOK
    <2>2. Budget(t) = Spent(tries[t]) + Delay(tries[t])
        BY <1>5 DEF Budget
    <2>3. /\ Spent(tries[t]) \in Nat /\ Delay(tries[t]) \in Nat /\ Pause(tries[t]) \in Nat
          /\ Spent(tries[t] + 1) = Spent(tries[t]) + Timeout + Pause(tries[t])
          /\ Spent(tries[t] + 1) <= LongestJob
        BY <1>0, <1>1, <2>1
    <2>4. Pause(tries[t]) >= Delay(tries[t]) + Late
        BY <1>0, <2>3 DEF Pause
    <2> QED BY <1>0, <1>2, <2>1, <2>2, <2>3, <2>4 DEF Elapsed
<1> QED BY <1>0, <1>3, <1>4, <1>5

SlacksFit ==
    /\ LongestJob \in Nat /\ LastStart \in Int
    /\ \A t \in Threads : Slack(t) \in Nat /\ Slack(t) <= LongestJob
    /\ \A t \in Threads : at[t] # "idle" => Elapsed(t) \in Nat /\ Elapsed(t) <= LongestJob
    /\ SumFunction(Slacks) \in Nat

LEMMA JobsFit == PoolInv => SlacksFit
<1> SUFFICES ASSUME PoolInv PROVE SlacksFit
    OBVIOUS
<1>1. LongestJob \in Nat
    <2>1. inside \in BOOLEAN /\ MaxTries \in Nat
        BY Limits, PoolTypes DEF PoolInv
    <2> QED BY <2>1, SpentGrows
<1>2. \A t \in Threads : at[t] # "idle" => Elapsed(t) \in Nat /\ Elapsed(t) <= LongestJob
    BY JobFits
<1>3. \A t \in Threads : Slack(t) \in Nat /\ Slack(t) <= LongestJob
    BY <1>1, <1>2 DEF Slack
<1>4. SumFunction(Slacks) \in Nat
    <2>1. Slacks \in [Threads -> Nat] /\ IsFiniteSet(Threads)
        BY <1>3, Limits DEF Slacks
    <2> QED BY <2>1, SumIsFold, Sums!SumType
<1>5. LastStart \in Int
    <2>1. (Jobs - 1) * LongestJob \in Int /\ N \in Nat \ {0}
        BY <1>1, Limits
    <2> QED BY <2>1, Quotient DEF LastStart
<1> QED BY <1>1, <1>2, <1>3, <1>4, <1>5 DEF SlacksFit

\* As long as jobs are waiting, the last of them has time to start.
LEMMA StartsInTime ==
    ASSUME PoolInv, WorkInv, queue > 0
    PROVE  since <= LastStart
<1>1. /\ LongestJob \in Nat /\ SumFunction(Slacks) \in Nat /\ N \in Nat \ {0}
      /\ Jobs \in Nat /\ since \in Nat /\ queue \in 0 .. Jobs
    BY JobsFit, Limits, PoolTypes DEF SlacksFit, PoolInv
<1>2. /\ LongestJob * (Jobs - queue) <= LongestJob * (Jobs - 1)
      /\ LongestJob * (Jobs - queue) \in Int /\ LongestJob * (Jobs - 1) \in Int
      /\ LongestJob * (Jobs - 1) = (Jobs - 1) * LongestJob
    BY <1>1, TimesUp
<1>3. N * since + SumFunction(Slacks) <= LongestJob * (Jobs - queue) /\ N * since \in Int
    BY <1>1 DEF WorkInv
<1>4. N * since <= (Jobs - 1) * LongestJob
    BY <1>1, <1>2, <1>3
<1> QED BY <1>1, <1>2, <1>4, Quotient DEF LastStart

LEMMA KeepsTime == PoolInv /\ WorkInv => CycleInTime
<1> SUFFICES ASSUME PoolInv, WorkInv, ~CycleDone
             PROVE  since <= LongestJob + LastStart
    BY DEF CycleInTime, LastStart, N
<1>1. SlacksFit /\ since \in Nat /\ queue \in 0 .. Jobs /\ Jobs \in Nat
    BY JobsFit, Limits, PoolTypes DEF PoolInv
<1>2. CASE queue > 0
    BY <1>1, <1>2, StartsInTime DEF SlacksFit
<1>3. CASE queue = 0
    <2>1. PICK t \in Threads : at[t] # "idle"
        BY <1>3 DEF CycleDone, AllIdle
    <2>2. since <= LastStart + Elapsed(t) /\ Elapsed(t) \in Nat /\ Elapsed(t) <= LongestJob
        BY <1>1, <2>1 DEF WorkInv, SlacksFit
    <2> QED BY <1>1, <2>2 DEF SlacksFit
<1> QED BY <1>1, <1>2, <1>3

LEMMA WorkInit == RequestsInit => WorkInv
BY DEF RequestsInit, WorkInv

LEMMA SameBudgets ==
    ASSUME inside' = inside
    PROVE  /\ LongestJob' = LongestJob /\ LastStart' = LastStart
           /\ \A k \in Nat : Spent(k)' = Spent(k) /\ Pause(k)' = Pause(k)
<1>1. LongestJob' = LongestJob
    BY DEF LongestJob
<1>2. \A k \in Nat : Spent(k)' = Spent(k) /\ Pause(k)' = Pause(k)
    BY DEF Spent, Pause
<1> QED BY <1>1, <1>2 DEF LastStart

\* One thread moves: the time of the others is as it was.
LEMMA OneMoves ==
    ASSUME PoolInv, PoolInv', NEW t \in Threads, inside' = inside,
           \A u \in Threads \ {t} : at'[u] = at[u] /\ due'[u] = due[u] /\ tries'[u] = tries[u]
    PROVE  /\ \A u \in Threads \ {t} : at[u] # "idle" => Elapsed(u)' = Elapsed(u)
           /\ SumFunction(Slacks)' = SumFunction(Slacks) + (Slack(t)' - Slack(t))
<1>1. SlacksFit /\ SlacksFit'
    BY JobsFit, PTL
<1>2. \A u \in Threads \ {t} : Elapsed(u)' = Elapsed(u)
    <2>1. ASSUME NEW u \in Threads \ {t}
          PROVE  Budget(u)' = Budget(u)
        <3>1. tries[u] \in Nat
            BY PoolTypes DEF PoolInv
        <3>2. Spent(tries[u])' = Spent(tries[u])
            BY <3>1, SameBudgets
        <3> QED BY <3>2 DEF Budget
    <2> QED BY <2>1 DEF Elapsed
<1>3. \A u \in Threads \ {t} : Slack(u)' = Slack(u)
    BY <1>2, SameBudgets DEF Slack
<1> DEFINE f == Slacks
           h == Slacks'
<1>4. /\ f \in [Threads -> Int] /\ h \in [Threads -> Int] /\ IsFiniteSet(Threads)
      /\ \A u \in Threads \ {t} : h[u] = f[u]
      /\ f[t] = Slack(t) /\ h[t] = Slack(t)'
    BY <1>1, <1>3, Limits DEF Slacks, SlacksFit
<1>5. SumFunction(h) = SumFunction(f) + (h[t] - f[t])
    <2> HIDE DEF f, h
    <2> QED BY ONLY <1>4, t \in Threads, SumIsFold, Sums!SumMoves
<1>6. SumFunction(Slacks)' = SumFunction(h)
    BY DEF Slacks
<1> QED BY <1>2, <1>4, <1>5, <1>6

\* A thread that does not wait for a slot finds no more than the others before it.
LEMMA QueueBehind ==
    ASSUME PoolInv, NEW t \in Threads, at[t] # "slot"
    PROVE  ahead \in Nat /\ ahead <= Gap * N
<1>1. IsFiniteSet(Threads) /\ N \in Nat \ {0} /\ ahead \in Nat
    BY Limits, PoolTypes DEF PoolInv
<1>2. Cardinality(Threads \ {t}) = N - 1
    BY <1>1, FS_RemoveElement DEF N
<1>3. Waiting \subseteq Threads \ {t} /\ Threads \ {t} \in SUBSET Threads
    BY DEF Waiting
<1>4. ahead <= Gap * (N - 1 + 1)
    BY <1>2, <1>3, AheadIsShort DEF PoolInv, SlotInv
<1>5. N - 1 + 1 = N
    BY <1>1
<1> QED BY <1>1, <1>4, <1>5

\* A busy thread goes on with its job, or ends it, and has not taken longer than it may.
LEMMA GoesOn ==
    ASSUME PoolInv, PoolInv', WorkInv, NEW t \in Threads, at[t] # "idle",
           inside' = inside, since' = since, queue' = queue,
           \A u \in Threads \ {t} : at'[u] = at[u] /\ due'[u] = due[u] /\ tries'[u] = tries[u],
           at'[t] # "idle" => Elapsed(t)' >= Elapsed(t)
    PROVE  WorkInv'
<1>1. /\ SlacksFit /\ SlacksFit' /\ LongestJob' = LongestJob /\ LastStart' = LastStart
      /\ since \in Nat /\ queue \in Nat /\ Jobs \in Nat /\ N \in Nat
    <2>1. SlacksFit /\ SlacksFit'
        BY JobsFit, PTL
    <2> QED BY <2>1, SameBudgets, Limits, PoolTypes DEF PoolInv
<1>2. /\ \A u \in Threads \ {t} : at[u] # "idle" => Elapsed(u)' = Elapsed(u)
      /\ SumFunction(Slacks)' = SumFunction(Slacks) + (Slack(t)' - Slack(t))
    BY OneMoves
<1>3. /\ Slack(t)' \in Nat /\ Slack(t) \in Nat /\ Slack(t)' <= Slack(t)
    BY <1>1 DEF Slack, SlacksFit
<1>4. SumFunction(Slacks)' \in Nat /\ SumFunction(Slacks) \in Nat
    BY <1>1 DEF SlacksFit
<1>5. queue' > 0 => N * since' + SumFunction(Slacks)' <= LongestJob' * (Jobs - queue')
    <2> SUFFICES ASSUME queue > 0
                 PROVE  N * since + SumFunction(Slacks)' <= LongestJob * (Jobs - queue)
        BY <1>1
    <2>1. N * since + SumFunction(Slacks) <= LongestJob * (Jobs - queue)
        BY DEF WorkInv
    <2>2. N * since \in Int /\ LongestJob * (Jobs - queue) \in Int
        BY <1>1 DEF SlacksFit
    <2> QED BY <1>2, <1>3, <1>4, <2>1, <2>2
<1>6. ASSUME NEW u \in Threads, at'[u] # "idle"
      PROVE  since' <= LastStart' + Elapsed(u)'
    <2>1. at[u] # "idle" /\ Elapsed(u)' >= Elapsed(u)
        BY <1>1, <1>2, <1>6 DEF SlacksFit
    <2>2. since <= LastStart + Elapsed(u)
        BY <2>1 DEF WorkInv
    <2>3. Elapsed(u) \in Nat /\ Elapsed(u)' \in Nat /\ LastStart \in Int
        BY <1>1, <1>6, <2>1 DEF SlacksFit
    <2> QED BY <1>1, <2>1, <2>2, <2>3
<1> QED BY <1>5, <1>6 DEF WorkInv

\* What each step leaves of the time of a thread.
LEMMA TimeSpent ==
    ASSUME PoolInv, NEW t \in Threads, at[t] # "idle", at'[t] # "idle",
           CallInSlot(t) \/ Throttled(t) \/ Retry(t)
    PROVE  Elapsed(t)' >= Elapsed(t)
<1> PICK k \in Nat : tries[t] = k
    BY PoolTypes DEF PoolInv
<1>0. /\ Late \in Nat /\ LongestWait = Gap * N + Late /\ Gap * N \in Nat /\ N \in Nat \ {0}
      /\ LongestWait \in Nat /\ Timeout \in Nat /\ MaxTries \in Nat \ {0} /\ Gap \in Nat \ {0}
      /\ ThreadOK(t) /\ inside \in BOOLEAN /\ ahead \in Nat /\ due[t] \in Int
      /\ due \in [Threads -> Int] /\ tries \in [Threads -> 0 .. MaxTries]
      /\ at \in [Threads -> {"idle", "slot", "call", "backoff"}]
    BY Limits, PoolTypes DEF PoolInv, LongestWait, N
<1>1. inside' = inside
    BY DEF CallInSlot, Throttled, Retry, Reserve, Send, Ends
<1>2. /\ Pause(k) \in Nat /\ Spent(k) \in Nat /\ Spent(k + 1) \in Nat /\ Delay(k) \in Nat
      /\ Spent(k)' = Spent(k) /\ Spent(k + 1)' = Spent(k + 1)
      /\ Spent(k + 1) >= LongestWait + Timeout
      /\ k # 0 => Spent(k + 1) = Spent(k) + Timeout + Pause(k)
    BY <1>0, <1>1, SpentGrows, SameBudgets, DelayGrows
<1>3. ASSUME NEW paced \in BOOLEAN, Send(t, paced)
      PROVE  Elapsed(t)' = Spent(k + 1) - Timeout
    <2>1. at'[t] = "call" /\ due'[t] = Timeout /\ tries'[t] = k + 1
        BY <1>0, <1>3 DEF Send
    <2>2. Budget(t)' = Spent(k + 1)'
        BY <2>1 DEF Budget
    <2> QED BY <1>2, <2>1, <2>2 DEF Elapsed
<1>4. CASE CallInSlot(t)
    <2>1. /\ at[t] = "slot" /\ due[t] >= -Late /\ (k > 0 => inside)
          /\ Elapsed(t)' = Spent(k + 1) - Timeout
        BY <1>0, <1>3, <1>4 DEF CallInSlot, Wakes, ThreadOK
    <2>2. CASE k = 0
        <3>1. Budget(t) = Gap * N
            BY <2>1, <2>2 DEF Budget
        <3> QED BY <1>0, <1>2, <2>1, <3>1 DEF Elapsed
    <2>3. CASE k # 0
        <3>1. Budget(t) = Spent(k) + Delay(k) + Late + Gap * N
            BY <2>1, <2>3 DEF Budget
        <3>2. Pause(k) = Delay(k) + Late + LongestWait
            BY <1>0, <2>1, <2>3 DEF Pause
        <3> QED BY <1>0, <1>2, <2>1, <2>3, <3>1, <3>2 DEF Elapsed
    <2> QED BY <2>2, <2>3
<1>5. CASE Throttled(t)
    <2>1. /\ at[t] = "call" /\ at'[t] = "backoff" /\ due'[t] = Delay(k) /\ tries'[t] = k
          /\ due[t] \in 0 .. Timeout
        BY <1>0, <1>5 DEF Throttled, Ends, ThreadOK
    <2>2. Budget(t) = Spent(k)
        BY <2>1 DEF Budget
    <2>3. Budget(t)' = Spent(k) + Delay(k)
        <3>1. Budget(t)' = Spent(k)' + Delay(k)
            BY <2>1 DEF Budget
        <3> QED BY <1>2, <3>1
    <2> QED BY <1>0, <1>2, <2>1, <2>2, <2>3 DEF Elapsed
<1>6. CASE Retry(t)
    <2>1. at[t] = "backoff" /\ due[t] >= -Late /\ k # 0
        BY <1>0, <1>6 DEF Retry, Wakes, ThreadOK
    <2>2. Budget(t) = Spent(k) + Delay(k)
        BY <2>1 DEF Budget
    <2>3. CASE inside
        <3>1. at'[t] = "slot" /\ due'[t] = ahead /\ tries'[t] = k
            BY <1>0, <1>6, <2>1, <2>3 DEF Retry, Reserve
        <3>2. Budget(t)' = Spent(k) + Delay(k) + Late + Gap * N
            <4>1. Budget(t)' = Spent(k)' + Delay(k) + Late + Gap * N
                BY <2>1, <3>1 DEF Budget
            <4> QED BY <1>2, <4>1
        <3>3. ahead <= Gap * N
            BY <1>0, <2>1, QueueBehind
        <3> QED BY <1>0, <1>2, <2>1, <2>2, <3>1, <3>2, <3>3 DEF Elapsed
    <2>4. CASE ~inside
        <3>1. Send(t, FALSE)
            BY <1>6, <2>4, Zenon DEF Retry
        <3>2. Elapsed(t)' = Spent(k + 1) - Timeout
            BY <1>3, <3>1
        <3>3. Pause(k) = Delay(k) + Late + 0
            BY <2>4 DEF Pause
        <3> QED BY <1>0, <1>2, <2>1, <2>2, <3>1, <3>2, <3>3 DEF Elapsed
    <2> QED BY <2>3, <2>4
<1> QED BY <1>4, <1>5, <1>6

LEMMA WorkStep == PoolInv /\ PoolInv' /\ WorkInv /\ [RequestsNext]_requestVars => WorkInv'
<1> SUFFICES ASSUME PoolInv, PoolInv', WorkInv, [RequestsNext]_requestVars PROVE WorkInv'
    OBVIOUS
<1>0. /\ Jobs \in Nat /\ N \in Nat \ {0} /\ IsFiniteSet(Threads) /\ since \in Nat
      /\ Gap * N \in Nat /\ ahead \in Nat /\ queue \in 0 .. Jobs
      /\ at \in [Threads -> {"idle", "slot", "call", "backoff"}]
      /\ due \in [Threads -> Int] /\ tries \in [Threads -> 0 .. MaxTries]
      /\ SlacksFit /\ SlacksFit'
    <2>1. SlacksFit /\ SlacksFit'
        BY JobsFit, PTL
    <2> QED BY <2>1, Limits, PoolTypes DEF PoolInv
<1>1. /\ \A t \in Threads : at[t] # "idle" => since <= LastStart + Elapsed(t)
      /\ queue > 0 => N * since + SumFunction(Slacks) <= LongestJob * (Jobs - queue)
    BY DEF WorkInv
<1>2. /\ LongestJob \in Nat /\ LastStart \in Int
      /\ SumFunction(Slacks) \in Nat /\ SumFunction(Slacks)' \in Nat
      /\ \A t \in Threads : at[t] # "idle" => Elapsed(t) \in Nat
      /\ \A t \in Threads : at'[t] # "idle" => Elapsed(t)' \in Nat
    BY <1>0 DEF SlacksFit
<1>3. CASE BeginCycle
    <2>1. /\ \A t \in Threads : at'[t] = "idle"
          /\ since' = 0 /\ queue' = Jobs
        BY <1>3 DEF BeginCycle, CycleDone, AllIdle
    <2>2. SumFunction(Slacks)' = 0
        <3> DEFINE f == Slacks'
        <3>1. f \in [Threads -> {0}]
            BY <2>1 DEF Slacks, Slack
        <3>2. SumFunction(Slacks)' = SumFunction(f)
            BY DEF Slacks
        <3> HIDE DEF f
        <3> QED BY <1>0, <3>1, <3>2, SumIsFold, Sums!SumType
    <2>3. LongestJob' \in Nat /\ N * 0 = 0 /\ Jobs - Jobs = 0
        BY <1>0 DEF SlacksFit
    <2>4. LongestJob' * 0 = 0
        <3>1. \A b \in Nat : b * 0 = 0
            OBVIOUS
        <3> QED BY <2>3, <3>1
    <2> QED BY <2>1, <2>2, <2>3, <2>4 DEF WorkInv
<1>4. CASE TimePasses
    <2>1. /\ inside' = inside /\ queue' = queue /\ since' = since + 1
          /\ at' = at /\ tries' = tries
          /\ \A t \in Threads : at[t] # "idle" => due'[t] = due[t] - 1
          /\ queue > 0 => \A t \in Threads : at[t] # "idle"
        BY <1>4 DEF TimePasses, InTime
    <2>2. LongestJob' = LongestJob /\ LastStart' = LastStart
        BY <2>1, SameBudgets
    <2>3. ASSUME NEW t \in Threads, at[t] # "idle"
          PROVE  Elapsed(t)' = Elapsed(t) + 1
        <3>1. PICK k \in Nat : tries[t] = k
            BY PoolTypes DEF PoolInv
        <3>2. Spent(k)' = Spent(k) /\ tries'[t] = k /\ at'[t] = at[t]
            BY <2>1, <3>1, SameBudgets
        <3>3. Budget(t)' = Budget(t)
            BY <3>1, <3>2 DEF Budget
        <3>4. Budget(t) \in Int /\ due[t] \in Int
            BY <1>0, <2>3, JobFits
        <3> QED BY <2>1, <2>3, <3>3, <3>4 DEF Elapsed
    <2>4. \A t \in Threads : at'[t] # "idle" => since' <= LastStart' + Elapsed(t)'
        BY <1>0, <1>1, <1>2, <2>1, <2>2, <2>3
    <2>5. ASSUME queue > 0
          PROVE  N * since' + SumFunction(Slacks)' <= LongestJob' * (Jobs - queue')
        <3> DEFINE f == Slacks
                   h == Slacks'
        <3>1. \A t \in Threads : Slack(t) \in Nat /\ Slack(t)' \in Nat /\ Slack(t)' = Slack(t) - 1
            BY <1>0, <1>2, <2>1, <2>2, <2>3, <2>5 DEF Slack, SlacksFit
        <3>2. f \in [Threads -> Int] /\ h \in [Threads -> Int] /\ \A t \in Threads : h[t] = f[t] - 1
            BY <3>1 DEF Slacks
        <3>3. SumFunction(h) = SumFunction(f) - N
            <4> HIDE DEF f, h
            <4> QED BY <1>0, <3>2, SumIsFold, Sums!SumFalls DEF N
        <3>4. SumFunction(Slacks)' = SumFunction(Slacks) - N
            BY <3>3 DEF Slacks
        <3>5. N * (since + 1) = N * since + N /\ N * since \in Int
            BY <1>0
        <3>6. LongestJob * (Jobs - queue) \in Int
            BY <1>0, <1>2
        <3> QED BY <1>0, <1>1, <1>2, <2>1, <2>2, <2>5, <3>4, <3>5, <3>6
    <2> QED BY <2>1, <2>4, <2>5 DEF WorkInv
<1>5. ASSUME NEW t \in Threads, Take(t)
      PROVE  WorkInv'
    <2>1. /\ at[t] = "idle" /\ queue > 0 /\ queue' = queue - 1 /\ since' = since /\ inside' = inside
          /\ at'[t] = "slot" /\ due'[t] = ahead /\ tries'[t] = tries[t] /\ tries[t] = 0
          /\ \A u \in Threads \ {t} : at'[u] = at[u] /\ due'[u] = due[u] /\ tries'[u] = tries[u]
        BY <1>0, <1>5 DEF Take, Reserve, PoolInv, ThreadOK
    <2>2. /\ \A u \in Threads \ {t} : at[u] # "idle" => Elapsed(u)' = Elapsed(u)
          /\ SumFunction(Slacks)' = SumFunction(Slacks) + (Slack(t)' - Slack(t))
          /\ LongestJob' = LongestJob /\ LastStart' = LastStart
        BY <2>1, OneMoves, SameBudgets
    <2>3. Slack(t) = 0 /\ Slack(t)' \in Nat /\ Slack(t)' <= LongestJob
        BY <1>0, <2>1, <2>2 DEF Slack, SlacksFit
    <2>4. N * since + SumFunction(Slacks)' <= LongestJob * (Jobs - queue')
        <3>1. LongestJob * (Jobs - queue') = LongestJob * (Jobs - queue) + LongestJob
            BY <1>0, <1>2, <2>1
        <3>2. LongestJob * (Jobs - queue) \in Int /\ N * since \in Int
            BY <1>0, <1>2
        <3>3. N * since + SumFunction(Slacks) <= LongestJob * (Jobs - queue)
            BY <1>1, <2>1
        <3> HIDE DEF N
        <3> QED BY <1>2, <2>2, <2>3, <3>1, <3>2, <3>3
    <2>5. since <= LastStart
        BY <2>1, StartsInTime
    <2>6. \A u \in Threads : at'[u] # "idle" => since <= LastStart + Elapsed(u)'
        BY <1>0, <1>1, <1>2, <2>1, <2>2, <2>5
    <2> QED BY <2>1, <2>2, <2>4, <2>6 DEF WorkInv
<1>6. ASSUME NEW t \in Threads, CallInSlot(t) \/ CallEnds(t) \/ Throttled(t) \/ Retry(t)
      PROVE  WorkInv'
    <2>1. /\ at[t] # "idle" /\ inside' = inside /\ since' = since /\ queue' = queue
          /\ \A u \in Threads \ {t} : at'[u] = at[u] /\ due'[u] = due[u] /\ tries'[u] = tries[u]
        BY <1>0, <1>6 DEF CallInSlot, CallEnds, Throttled, Retry, Wakes, Send, Ends, Reserve
    <2>2. CallEnds(t) => at'[t] = "idle"
        BY <1>0 DEF CallEnds, Ends
    <2>3. at'[t] # "idle" => Elapsed(t)' >= Elapsed(t)
        BY <1>6, <2>1, <2>2, TimeSpent
    <2> QED BY <2>1, <2>3, GoesOn
<1>7. CASE UNCHANGED requestVars
    <2>1. /\ inside' = inside /\ at' = at /\ due' = due /\ tries' = tries
          /\ queue' = queue /\ since' = since
        BY <1>7 DEF requestVars
    <2>2. LongestJob' = LongestJob /\ LastStart' = LastStart
        BY <2>1, SameBudgets
    <2>3. ASSUME NEW t \in Threads
          PROVE  Elapsed(t)' = Elapsed(t)
        <3>1. PICK k \in Nat : tries[t] = k
            BY PoolTypes DEF PoolInv
        <3>2. Spent(k)' = Spent(k)
            BY <2>1, SameBudgets
        <3> QED BY <2>1, <3>1, <3>2 DEF Elapsed, Budget
    <2>4. Slacks' = Slacks
        BY <2>1, <2>2, <2>3 DEF Slacks, Slack
    <2>5. SumFunction(Slacks)' = SumFunction(Slacks)
        BY <2>4
    <2> QED BY <2>1, <2>2, <2>3, <2>5 DEF WorkInv
<1> QED BY <1>3, <1>4, <1>5, <1>6, <1>7 DEF RequestsNext

\* However many threads, jobs and retries there are, and wherever the limiter is:
\* no two calls share a slot of RateLimiter.acquire, the rate is kept, retry_call
\* adds no more than the backoffs allow, and the cycle ends in time.
THEOREM KeepsPace == RequestsSpec => []RequestsInv
<1>1. RequestsInit => PoolInv /\ WorkInv
    BY PoolInit, WorkInit
<1>2. PoolInv /\ WorkInv /\ [RequestsNext]_requestVars => PoolInv' /\ WorkInv'
    BY PoolStep, WorkStep
<1>3. PoolInv /\ WorkInv => RequestsInv
    BY KeepsRate, KeepsTime DEF RequestsInv, PoolInv
<1> QED BY <1>1, <1>2, <1>3, PTL DEF RequestsSpec
================================================================================
