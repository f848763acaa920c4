------------------------------- MODULE LiveFeed -------------------------------
(***************************************************************************)
(* The live feed (broker/groww_feed.py) and its store of latest values     *)
(* (data/feed_store.py).                                                   *)
(*                                                                         *)
(* The worker's thread starts, restarts and stops the feed.  The provider  *)
(* calls back for every message of every subscription, on whichever        *)
(* connection made it; the callback counts the message.  A poller thread   *)
(* copies the latest prices of the connection in use to the store.  A      *)
(* restart waits five seconds for the poller and no longer, and the event  *)
(* that stops it is shared with the next one.                              *)
(*                                                                         *)
(* A price is its exchange time stamp, the number of the message.  Market  *)
(* depth takes the same way as prices, and the index is never relisted.    *)
(***************************************************************************)
EXTENDS Integers, FiniteSets

CONSTANTS
    Symbols, None,
    MaxConns,       \* connections made
    MaxMessages     \* messages the exchange sends for a symbol

ASSUME FeedAssumption ==
    /\ IsFiniteSet(Symbols) /\ MaxConns \in Nat /\ MaxMessages \in Nat
    /\ None \notin Nat /\ \A list \in SUBSET Symbols : None # list

VARIABLES
    pc,         \* where the worker is in start, stop or restart
    op,         \* the call it is in
    listed,     \* LiveFeed._stocks and _by_key
    made,       \* connections made so far
    subs,       \* the provider: symbols subscribed on each connection
    latest,     \* the SDK: latest price of each symbol on each connection
    feed,       \* LiveFeed._feed
    stopping,   \* LiveFeed._stop
    poller,     \* LiveFeed._poller
    pollers,    \* the poller threads
    got,        \* prices a poller has read and not yet stored
    sent,       \* messages sent by the exchange
    counted,    \* FeedStore._arrivals, their number
    ltp         \* FeedStore._ltp

worker == <<pc, op, listed, feed, stopping, poller>>
sdk == <<made, subs, latest>>
threads == <<pollers, got>>
store == <<counted, ltp>>
vars == <<worker, sdk, threads, sent, store>>

Conns == 1 .. MaxConns
Prices == [Symbols -> 0 .. MaxMessages]     \* 0: no message yet
NoPrices == [s \in Symbols |-> 0]

TypeOK ==
    /\ pc \in {"idle", "join", "unsubscribe", "connect", "prices", "rest"}
    /\ op \in {"start", "set", "restart", "exit"}
    /\ listed \subseteq Symbols /\ made \in 0 .. MaxConns
    /\ subs \in [Conns -> SUBSET Symbols] /\ latest \in [Conns -> Prices]
    /\ feed \in 0 .. made /\ poller \in 0 .. made       \* 0: none
    /\ stopping \in BOOLEAN
    /\ pollers \in [Conns -> {"none", "waiting", "reading", "ended"}]
    /\ got \in [Conns -> Prices]
    /\ sent \in Prices /\ ltp \in Prices
    /\ counted \in [Symbols -> Nat]
    /\ feed = 0 => poller = 0

------------------------------------------------------------------------------
(* The worker's calls.                                                     *)

Call(name, at) == pc = "idle" /\ op # "exit" /\ pc' = at /\ op' = name

Start ==            \* the watchdog's start, once
    /\ Call("start", "connect") /\ made = 0
    /\ UNCHANGED <<listed, feed, stopping, poller, sdk, threads, sent, store>>

Restart ==
    /\ Call("restart", "join") /\ stopping' = TRUE
    /\ UNCHANGED <<listed, feed, poller, sdk, threads, sent, store>>

MutSetStocks(new) ==    \* the list is replaced and the feed runs on
    /\ listed' = new /\ pc = "idle" /\ op # "exit"
    /\ UNCHANGED <<pc, op, feed, stopping, poller, sdk, threads, sent, store>>
\* The list is replaced before the restart.
SetStocks(new) ==
    /\ listed' = new
    /\ IF feed = 0 THEN /\ pc = "idle" /\ op # "exit" /\ UNCHANGED <<pc, op, stopping>>
                   ELSE Call("set", "join") /\ stopping' = TRUE
    /\ UNCHANGED <<feed, poller, sdk, threads, sent, store>>

MutExit ==
    /\ Call("exit", "join")
    /\ UNCHANGED <<listed, feed, stopping, poller, sdk, threads, sent, store>>
Exit ==
    /\ Call("exit", "join") /\ stopping' = TRUE
    /\ UNCHANGED <<listed, feed, poller, sdk, threads, sent, store>>

AfterStop == IF op = "exit" THEN "idle" ELSE "connect"

\* The poller has ended, or five seconds have passed while it reads.
Join ==
    /\ pc = "join"
    /\ poller # 0 => pollers[poller] \in {"ended", "reading"}
    /\ poller' = 0
    /\ pc' = IF feed = 0 THEN AfterStop ELSE "unsubscribe"
    /\ UNCHANGED <<op, listed, feed, stopping, sdk, threads, sent, store>>

MutUnsubscribe(done) ==
    /\ pc = "unsubscribe" /\ pc' = AfterStop
    /\ subs' = IF done THEN [subs EXCEPT ![feed] = @ \ listed] ELSE subs
    /\ UNCHANGED <<op, listed, feed, stopping, poller, made, latest, threads, sent, store>>
\* unsubscribe_ltp by the list of the moment; an error is noted and ignored.
Unsubscribe(done) ==
    /\ pc = "unsubscribe" /\ pc' = AfterStop
    /\ feed' = 0
    /\ subs' = IF done THEN [subs EXCEPT ![feed] = @ \ listed] ELSE subs
    /\ UNCHANGED <<op, listed, stopping, poller, made, latest, threads, sent, store>>

\* A new connection; an error of the token, the socket or a subscription
\* leaves the call, and what was subscribed until then.
Connect ==
    /\ pc = "connect" /\ made < MaxConns
    /\ made' = made + 1 /\ pc' = "prices"
    /\ UNCHANGED <<op, listed, feed, stopping, poller, subs, latest, threads, sent, store>>

SubscribePrices ==
    /\ pc = "prices" /\ pc' = "rest"
    /\ subs' = [subs EXCEPT ![made] = listed]
    /\ UNCHANGED <<op, listed, feed, stopping, poller, made, latest, threads, sent, store>>

MutSubscribeRest ==     \* the event of the last stop stays set
    /\ pc = "rest" /\ pc' = "idle"
    /\ feed' = made /\ stopping' = stopping
    /\ poller' = made /\ pollers' = [pollers EXCEPT ![made] = "waiting"]
    /\ UNCHANGED <<op, listed, sdk, got, sent, store>>
\* Depth and index, then the poller.
SubscribeRest ==
    /\ pc = "rest" /\ pc' = "idle"
    /\ feed' = made /\ stopping' = FALSE
    /\ poller' = made /\ pollers' = [pollers EXCEPT ![made] = "waiting"]
    /\ UNCHANGED <<op, listed, sdk, got, sent, store>>

StartRaises ==
    /\ pc \in {"connect", "prices", "rest"} /\ pc' = "idle"
    /\ UNCHANGED <<op, listed, feed, stopping, poller, sdk, threads, sent, store>>

------------------------------------------------------------------------------
(* The provider's thread and the pollers.                                  *)

Subscribers(s) == {c \in Conns : s \in subs[c]}

\* A message reaches every connection that has subscribed; each calls back.
Message(s) ==
    /\ sent[s] < MaxMessages /\ Subscribers(s) # {}
    /\ sent' = [sent EXCEPT ![s] = @ + 1]
    /\ latest' = [c \in Conns |-> IF c \in Subscribers(s)
                                  THEN [latest[c] EXCEPT ![s] = sent'[s]] ELSE latest[c]]
    /\ counted' = IF s \in listed
                  THEN [counted EXCEPT ![s] = @ + Cardinality(Subscribers(s))] ELSE counted
    /\ UNCHANGED <<worker, made, subs, threads, ltp>>

\* The wait ends with the poll interval, and the poller reads the connection
\* in use.
PollBegins(c) ==
    /\ pollers[c] = "waiting" /\ ~stopping /\ feed # 0
    /\ pollers' = [pollers EXCEPT ![c] = "reading"]
    /\ got' = [got EXCEPT ![c] = latest[feed]]
    /\ UNCHANGED <<worker, sdk, sent, store>>

\* put_ltp refuses what is not newer.
PutLtp(old, new) == IF new > old THEN new ELSE old

PollEnds(c) ==
    /\ pollers[c] = "reading"
    /\ pollers' = [pollers EXCEPT ![c] = "waiting"]
    /\ ltp' = [s \in Symbols |-> IF s \in listed THEN PutLtp(ltp[s], got[c][s]) ELSE ltp[s]]
    /\ got' = [got EXCEPT ![c] = NoPrices]
    /\ UNCHANGED <<worker, sdk, sent, counted>>

PollerEnds(c) ==
    /\ pollers[c] = "waiting" /\ stopping
    /\ pollers' = [pollers EXCEPT ![c] = "ended"]
    /\ UNCHANGED <<worker, sdk, got, sent, store>>

------------------------------------------------------------------------------
Init ==
    /\ pc = "idle" /\ op = "start" /\ listed \in SUBSET Symbols
    /\ made = 0 /\ subs = [c \in Conns |-> {}] /\ latest = [c \in Conns |-> NoPrices]
    /\ feed = 0 /\ stopping = FALSE /\ poller = 0
    /\ pollers = [c \in Conns |-> "none"] /\ got = [c \in Conns |-> NoPrices]
    /\ sent = NoPrices /\ counted = NoPrices /\ ltp = NoPrices

Next ==
    \/ Start \/ Restart \/ Exit
    \/ \E new \in SUBSET Symbols : SetStocks(new)
    \/ Join
    \/ \E done \in BOOLEAN : Unsubscribe(done)
    \/ Connect \/ SubscribePrices \/ SubscribeRest \/ StartRaises
    \/ \E s \in Symbols : Message(s)
    \/ \E c \in Conns : PollBegins(c)
    \/ \E c \in Conns : PollEnds(c)
    \/ \E c \in Conns : PollerEnds(c)

Spec == Init /\ [][Next]_vars

\* A poller's wait ends with the interval or with the event (groww_feed.py:162), and
\* its reads end.
PollerGoesOn(c) == PollBegins(c) \/ PollEnds(c) \/ PollerEnds(c)

\* The worker's calls end, by success, error or timeout.
CallGoesOn ==
    \/ Join \/ \E done \in BOOLEAN : Unsubscribe(done)
    \/ Connect \/ SubscribePrices \/ SubscribeRest \/ StartRaises

------------------------------------------------------------------------------
(* Properties.                                                             *)

\* Between two calls a feed that runs streams its list, and a poller that
\* has not been told to stop serves it.
RunningServes ==
    pc = "idle" /\ feed # 0 =>
        /\ subs[feed] = listed /\ ~stopping
        /\ pollers[feed] \in {"waiting", "reading"}

FeedInv == TypeOK /\ RunningServes

\* The store catches up with the connection in use, again and again, unless the worker
\* is in a call: after any restarts, with any pollers that outlived their join, whatever
\* older prices these still store, and though the event that ends them is the one the
\* next poller waits on (groww_feed.py:111, 118, 162).
PricesArrive ==
    \A s \in Symbols : []<>(pc # "idle" \/ feed = 0 \/ ltp[s] >= latest[feed][s])

\* Every poller ends after the worker's exit, also one that outlived a join.
ExitEndsPollers ==
    op = "exit" ~> \A c \in Conns : pollers[c] \in {"none", "ended"}

\* The feed does to its lists what FeedConnection allows.  A connection counts
\* as abandoned once no call holds it.

Building == IF pc \in {"prices", "rest"} THEN made ELSE 0
Abstract == INSTANCE FeedConnection WITH
    streamed <- IF feed = 0 THEN None ELSE subs[feed],
    leftover <- UNION {subs[c] : c \in Conns \ {feed, Building}}
ImplementsConnection == Abstract!FSpec

(* What the documentation says of the counts and the prices.               *)

\* A message is counted once.
CountedOnce == \A s \in Symbols : counted[s] <= sent[s]

\* The prices the scanner takes from the store are of subscribed stocks.
FeedPrices == {s \in Symbols : ltp[s] # 0}
PricesOfSubscribed == pc = "idle" /\ feed # 0 => FeedPrices \subseteq subs[feed]
==============================================================================
