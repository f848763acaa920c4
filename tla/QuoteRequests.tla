----------------------------- MODULE QuoteRequests -----------------------------
(***************************************************************************)
(* The calls of a few threads that share one rate limiter                  *)
(* (utils/ratelimit.py) and retry what the provider throttles              *)
(* (utils/retry.py, GrowwAdapter._call).                                   *)
(*                                                                         *)
(* There are two such pools of threads.  The scanner's quotes              *)
(* (app/market_scanner.py) pass the limiter once and then retry without    *)
(* it.  The download of history (scripts/fetch_universe_history.py) wraps  *)
(* the provider's method, so that its retries pass the limiter too.        *)
(*                                                                         *)
(* Moments are counted from now, so the clock is no part of the state.  A  *)
(* thread that sleeps wakes up late by at most Late, and a call ends       *)
(* within its timeout.                                                     *)
(***************************************************************************)
EXTENDS Integers, FiniteSets, FiniteSetsExt, Functions

CONSTANTS
    Threads,
    Jobs,           \* calls asked for in a cycle
    Period,         \* from the begin of a cycle to the next
    Gap,            \* of the limiter, 1 / per_second
    MaxTries, BaseDelay, MaxDelay,      \* of retry_call
    Timeout,        \* of a call
    Late,
    Window          \* over which the calls are counted

ASSUME RequestsAssumption ==
    /\ IsFiniteSet(Threads) /\ Threads # {} /\ Jobs \in Nat /\ Period \in Nat
    /\ Gap \in Nat \ {0} /\ MaxTries \in Nat \ {0}
    /\ BaseDelay \in Nat \ {0} /\ MaxDelay \in Nat \ {0}
    /\ Timeout \in Nat /\ Late \in Nat /\ Window \in Nat \ {0}

VARIABLES
    inside,     \* whether the limiter is inside the retry
    ahead,      \* RateLimiter._next: 0 when a slot is free
    since,      \* how long ago the cycle began
    queue,      \* jobs of the cycle that no thread has taken
    at,         \* where each thread is
    due,        \* its slot, the timeout of its call, or the end of its backoff
    tries,      \* attempts of its call
    recent      \* the calls of the last Window: whose, their age, whether in a
                \* slot, and how long after it

requestVars == <<inside, ahead, since, queue, at, due, tries, recent>>

RequestsTypeOK ==
    /\ inside \in BOOLEAN /\ ahead \in Nat
    /\ since \in Nat /\ queue \in 0 .. Jobs
    /\ at \in [Threads -> {"idle", "slot", "call", "backoff"}]
    /\ due \in [Threads -> Int] /\ tries \in [Threads -> 0 .. MaxTries]
    /\ recent \subseteq [by : Threads, age : 0 .. Window, paced : BOOLEAN, late : 0 .. Late]

RequestsInit ==
    /\ inside \in BOOLEAN
    /\ ahead = 0 /\ since = Period /\ queue = 0
    /\ at = [t \in Threads |-> "idle"]
    /\ due = [t \in Threads |-> 0] /\ tries = [t \in Threads |-> 0]
    /\ recent = {}

AllIdle == \A t \in Threads : at[t] = "idle"
CycleDone == queue = 0 /\ AllIdle       \* the pool of threads is left

\* The scan thread: a cycle, then a pause for the rest of the minute.
BeginCycle ==
    /\ CycleDone /\ since >= Period
    /\ since' = 0 /\ queue' = Jobs
    /\ UNCHANGED <<inside, ahead, at, due, tries, recent>>

------------------------------------------------------------------------------
(* RateLimiter.acquire: the slot is reserved under the lock and waited for *)
(* outside it.                                                             *)

MutReserve(t) ==
    /\ ahead' = Gap
    /\ at' = [at EXCEPT ![t] = "slot"] /\ due' = [due EXCEPT ![t] = ahead]
Reserve(t) ==
    /\ ahead' = ahead + Gap
    /\ at' = [at EXCEPT ![t] = "slot"] /\ due' = [due EXCEPT ![t] = ahead]

\* A thread of the pool takes the next job.
Take(t) ==
    /\ at[t] = "idle" /\ queue > 0
    /\ queue' = queue - 1 /\ Reserve(t)
    /\ UNCHANGED <<inside, since, tries, recent>>

Send(t, paced) ==
    /\ at' = [at EXCEPT ![t] = "call"]
    /\ due' = [due EXCEPT ![t] = Timeout]
    /\ tries' = [tries EXCEPT ![t] = @ + 1]
    /\ recent' = recent \cup
                    {[by |-> t, age |-> 0, paced |-> paced, late |-> IF paced THEN -due[t] ELSE 0]}
    /\ UNCHANGED <<inside, ahead, since, queue>>

Wakes(t, place) == at[t] = place /\ due[t] <= 0

CallInSlot(t) == Wakes(t, "slot") /\ Send(t, TRUE)

------------------------------------------------------------------------------
(* GrowwAdapter._call with retry_call.                                     *)

Ends(t) ==
    /\ at' = [at EXCEPT ![t] = "idle"]
    /\ tries' = [tries EXCEPT ![t] = 0] /\ due' = [due EXCEPT ![t] = 0]
    /\ UNCHANGED <<inside, ahead, since, queue, recent>>

\* Answered, refused, or timed out: not retried.
CallEnds(t) == at[t] = "call" /\ Ends(t)

Doubled(n) == FoldSet(LAMBDA i, d : 2 * d, BaseDelay, 1 .. n - 1)
Delay(n) == IF Doubled(n) < MaxDelay THEN Doubled(n) ELSE MaxDelay

Throttled(t) ==
    /\ at[t] = "call"
    /\ IF tries[t] < MaxTries
       THEN /\ at' = [at EXCEPT ![t] = "backoff"]
            /\ due' = [due EXCEPT ![t] = Delay(tries[t])]
            /\ UNCHANGED <<inside, ahead, since, queue, tries, recent>>
       ELSE Ends(t)

Retry(t) ==
    /\ Wakes(t, "backoff")
    /\ IF inside
       THEN Reserve(t) /\ UNCHANGED <<inside, since, queue, tries, recent>>
       ELSE Send(t, FALSE)

------------------------------------------------------------------------------
\* A free thread takes a job at once, nobody oversleeps by more than Late, and no
\* call outlives its timeout.
InTime(t) ==
    CASE at[t] = "idle" -> queue = 0
      [] at[t] = "call" -> due[t] > 0
      [] OTHER -> due[t] > -Late

TimePasses ==
    /\ \A t \in Threads : InTime(t)
    /\ CycleDone => since < Period
    /\ since' = since + 1
    /\ ahead' = IF ahead > 0 THEN ahead - 1 ELSE 0
    /\ due' = [t \in Threads |-> IF at[t] = "idle" THEN 0 ELSE due[t] - 1]
    /\ recent' = {[c EXCEPT !.age = @ + 1] : c \in {d \in recent : d.age + 1 < Window}}
    /\ UNCHANGED <<inside, queue, at, tries>>

RequestsNext ==
    \/ BeginCycle \/ TimePasses
    \/ \E t \in Threads :
        Take(t) \/ CallInSlot(t) \/ CallEnds(t) \/ Throttled(t) \/ Retry(t)

RequestsSpec == RequestsInit /\ [][RequestsNext]_requestVars

------------------------------------------------------------------------------
(* Properties.                                                             *)

\* Two threads never wait for the same slot, and the next one is later still.
SlotsApart ==
    \A t \in Threads : at[t] = "slot" =>
        /\ due[t] >= 0 => ahead >= due[t] + Gap
        /\ \A u \in Threads \ {t} :
            at[u] = "slot" => due[u] >= due[t] + Gap \/ due[t] >= due[u] + Gap

\* Nobody waits longer than for the other threads and for the slot just used:
\* the limiter never runs further ahead of the clock.
QueueIsShort == ahead <= Gap * (Cardinality(Threads) + 1)

\* In any window as many calls pass the limiter as fit in it, and as fit into
\* what a thread may oversleep.
Paced == {c \in recent : c.paced}
RateKept == Cardinality(Paced) <= 1 + (Window - 1 + Late) \div Gap

\* Retries that go round the limiter add what the threads can at most: each one
\* backs off between two.
RetriesBounded ==
    /\ inside => recent = Paced
    /\ Cardinality(recent \ Paced) <= Cardinality(Threads) * (1 + (Window - 1) \div Delay(1))

\* A cycle ends, whatever the provider throttles, within the time of the calls
\* of one thread: no thread waits for a slot or retries for ever, and no thread
\* is idle while another has the rest of the work.
LongestWait == Gap * Cardinality(Threads) + Late
LongestJob ==
    LongestWait + MaxTries * Timeout
    + SumFunction([n \in 1 .. MaxTries - 1 |-> Delay(n) + Late
                                                + IF inside THEN LongestWait ELSE 0])
CycleInTime ==
    ~CycleDone => since <= LongestJob + ((Jobs - 1) * LongestJob) \div Cardinality(Threads)

\* The limiter of utils/ratelimit.py keeps its rate in both places the code puts
\* it, and what the retries of utils/retry.py add to the calls and to a cycle is
\* bounded.
RequestsInv ==
    RequestsTypeOK /\ SlotsApart /\ QueueIsShort /\ RateKept /\ RetriesBounded /\ CycleInTime

\* What utils/ratelimit.py says: bursts never exceed the rate.
NeverBursts == Cardinality(recent) <= 1 + (Window - 1 + Late) \div Gap
==============================================================================
