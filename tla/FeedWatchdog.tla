----------------------------- MODULE FeedWatchdog -----------------------------
(***************************************************************************)
(* The watchdog of the live feed (app/feed_watchdog.py) in the minute of   *)
(* the worker (run_tick of app/worker.py).  Nobody is told of a lost       *)
(* connection: health is the age of the last tick of any symbol, and the   *)
(* share of the stocks that ticked lately.  A minute takes its time first, *)
(* then lets the universe replace the feed's list, then checks; all ages   *)
(* of the check count from the time taken first.                           *)
(*                                                                         *)
(* Time is a count of units; a time stamp is kept as its age.              *)
(***************************************************************************)
EXTENDS FeedConnection, Integers, FiniteSets

CONSTANTS
    StaleAfter, DownAfter,          \* FeedConfig
    MinRestart, SlowRestart, MaxFast,
    MaxGap,                         \* from one minute of the worker to the next
    MaxBusy                         \* from the time taken to the check

ASSUME WatchdogAssumption ==
    /\ {StaleAfter, DownAfter, MinRestart, SlowRestart, MaxFast, MaxGap, MaxBusy} \subseteq Nat
    /\ MaxBusy <= MaxGap /\ MaxGap > 0
    /\ None \notin Nat /\ \A list \in SUBSET Symbols : None # list

VARIABLES
    life,       \* the worker: up, ended or failed
    step,       \* where its minute is
    caller,     \* who has called the feed's start or restart
    phase,      \* of the trading day
    status, failures,               \* of the watchdog
    sinceNow,   \* the minute's time, as an age
    anyAge, tickAge,                \* the store: last tick of any and each symbol
    attemptAge, coverAge,           \* _started_at and _last_attempt; _coverage_ok_at
    restartAge                      \* when restart was really called last

progress == <<life, step, caller, phase>>
watchdog == <<status, failures>>
times == <<sinceNow, anyAge, tickAge, attemptAge, coverAge, restartAge>>
wvars == <<fvars, progress, watchdog, times>>

Least(a, b) == IF a < b THEN a ELSE b
Most(a, b) == IF a > b THEN a ELSE b

\* An age that no threshold tells from a greater one.
Cap == MaxBusy + 1 + Most(DownAfter, Most(MinRestart, SlowRestart))
Ages == 0 .. Cap
Stamps == Ages \cup {None}      \* None: never

TypeOK ==
    /\ listed \subseteq Symbols /\ leftover \subseteq Symbols
    /\ streamed \in (SUBSET Symbols) \cup {None}
    /\ life \in {"up", "ended", "failed"}
    /\ step \in {"idle", "refresh", "call", "check"}
    /\ caller \in {"start", "universe", "watchdog"}
    /\ phase \in {"before", "open", "after"}
    /\ status \in {"LIVE", "STALE", "DOWN", "OFF"} /\ failures \in 0 .. MaxFast
    /\ sinceNow \in 0 .. MaxGap
    /\ anyAge \in Stamps /\ tickAge \in [Symbols -> Stamps]
    /\ {attemptAge, coverAge, restartAge} \subseteq Ages
    /\ status = "LIVE" => anyAge # None /\ failures = 0

------------------------------------------------------------------------------
(* The provider and the clock.                                             *)

\* A message of a symbol on any connection; the callback counts the symbols
\* of the list.
Tick(s) ==
    /\ s \in listed /\ s \in leftover \cup (IF Running THEN streamed ELSE {})
    /\ anyAge' = 0 /\ tickAge' = [tickAge EXCEPT ![s] = 0]
    /\ UNCHANGED <<fvars, progress, watchdog, sinceNow, attemptAge, coverAge, restartAge>>

\* The index is on every connection and on no list.
IndexTick ==
    /\ Running \/ leftover # {}
    /\ anyAge' = 0
    /\ UNCHANGED <<fvars, progress, watchdog, sinceNow, tickAge, attemptAge, coverAge, restartAge>>

Older(age) == IF age = None \/ age = Cap THEN age ELSE age + 1

Elapse ==
    /\ life = "up" /\ sinceNow < IF step = "idle" THEN MaxGap ELSE MaxBusy
    /\ sinceNow' = sinceNow + 1
    /\ anyAge' = Older(anyAge) /\ tickAge' = [s \in Symbols |-> Older(tickAge[s])]
    /\ attemptAge' = Older(attemptAge) /\ coverAge' = Older(coverAge)
    /\ restartAge' = Older(restartAge)
    /\ UNCHANGED <<fvars, progress, watchdog>>

NextPhase ==
    /\ life = "up" /\ step = "idle"
    /\ \/ phase = "before" /\ phase' = "open"
       \/ phase = "open" /\ phase' = "after"
    /\ UNCHANGED <<fvars, life, step, caller, watchdog, times>>

------------------------------------------------------------------------------
(* A minute of the worker.                                                 *)

MinuteBegins ==
    /\ life = "up" /\ step = "idle" /\ sinceNow > 0
    /\ step' = "refresh" /\ sinceNow' = 0
    /\ UNCHANGED <<fvars, life, caller, phase, watchdog, anyAge, tickAge, attemptAge, coverAge,
                   restartAge>>

SameUniverse ==
    /\ step = "refresh" /\ step' = "check"
    /\ UNCHANGED <<fvars, life, caller, phase, watchdog, times>>

\* DynamicUniverse.refresh calls set_stocks; only a feed that runs restarts.
MutNewUniverse(new) ==
    /\ step = "refresh" /\ new # listed /\ Relist(new)
    /\ step' = "check" /\ caller' = "universe"
    /\ UNCHANGED <<life, phase, watchdog, times>>
NewUniverse(new) ==
    /\ step = "refresh" /\ new # listed /\ Relist(new)
    /\ step' = (IF Running THEN "call" ELSE "check") /\ caller' = "universe"
    /\ UNCHANGED <<life, phase, watchdog, times>>

\* Inside a call the feed lets go of its connection and makes another.
CallDisconnects ==
    /\ step = "call" /\ Disconnect
    /\ UNCHANGED <<progress, watchdog, times>>

AfterCall == IF caller = "universe" THEN "check" ELSE "idle"

CallConnects ==
    /\ step = "call" /\ Connect /\ step' = AfterCall
    /\ UNCHANGED <<life, caller, phase, watchdog, times>>

\* The watchdog catches the error; the universe lets it through, and it ends
\* the worker.
CallFails ==
    /\ step = "call" /\ ConnectFails /\ step' = "idle"
    /\ IF caller = "universe" THEN life' = "failed" /\ UNCHANGED status
                              ELSE status' = "DOWN" /\ UNCHANGED life
    /\ UNCHANGED <<caller, phase, failures, times>>

\* Ages at the minute's time; a tick that came after it is fresh.
At(age) == age - sinceNow

\* _stock_coverage, at least half; no stocks, no coverage to miss.
Recent == {s \in listed : tickAge[s] # None /\ At(tickAge[s]) <= DownAfter}
MutCovered == listed = {} \/ anyAge # None
Covered == 2 * Cardinality(Recent) >= Cardinality(listed)

\* The age the check judges: not above the time since the last attempt, but
\* at least the time without coverage.
TickAgeSeen == IF anyAge = None THEN At(attemptAge) ELSE Least(At(anyAge), At(attemptAge))
AgeSeen == IF Covered THEN TickAgeSeen ELSE Most(TickAgeSeen, At(coverAge))

Wait == IF failures < MaxFast THEN MinRestart ELSE SlowRestart

CheckIsOff ==
    /\ step = "check" /\ phase # "open"
    /\ status' = "OFF" /\ step' = "idle"
    /\ UNCHANGED <<fvars, life, caller, phase, failures, times>>

Judged(verdict) ==
    /\ step = "check" /\ phase = "open"
    /\ status' = verdict
    /\ coverAge' = IF Covered THEN sinceNow ELSE coverAge
    /\ UNCHANGED <<fvars, life, phase, sinceNow, anyAge, tickAge>>

CheckIsLive ==
    /\ Covered /\ anyAge # None /\ AgeSeen <= StaleAfter
    /\ Judged("LIVE") /\ failures' = 0 /\ step' = "idle"
    /\ UNCHANGED <<caller, attemptAge, restartAge>>

CheckIsStale ==
    /\ ~(Covered /\ anyAge # None /\ AgeSeen <= StaleAfter) /\ AgeSeen <= DownAfter
    /\ Judged("STALE") /\ step' = "idle"
    /\ UNCHANGED <<caller, failures, attemptAge, restartAge>>

NotHealthy ==
    ~(Covered /\ anyAge # None /\ AgeSeen <= StaleAfter) /\ AgeSeen > DownAfter

CheckIsDown ==
    /\ NotHealthy /\ At(attemptAge) < Wait
    /\ Judged("DOWN") /\ step' = "idle"
    /\ UNCHANGED <<caller, failures, attemptAge, restartAge>>

MutCheckRestarts ==
    /\ step = "check" /\ phase = "open" /\ NotHealthy /\ At(attemptAge) >= Wait
    /\ status' = "DOWN" /\ failures' = Least(failures + 1, MaxFast)
    /\ coverAge' = sinceNow /\ restartAge' = 0
    /\ step' = "call" /\ caller' = "watchdog"
    /\ UNCHANGED <<fvars, life, phase, sinceNow, anyAge, tickAge, attemptAge>>
\* restart is called; all the watchdog's ages start at the minute's time.
CheckRestarts ==
    /\ step = "check" /\ phase = "open" /\ NotHealthy /\ At(attemptAge) >= Wait
    /\ status' = "DOWN" /\ failures' = Least(failures + 1, MaxFast)
    /\ attemptAge' = sinceNow /\ coverAge' = sinceNow /\ restartAge' = 0
    /\ step' = "call" /\ caller' = "watchdog"
    /\ UNCHANGED <<fvars, life, phase, sinceNow, anyAge, tickAge>>

\* The clock has ended, or the user stops the worker.
WorkerEnds ==
    /\ life = "up" /\ step = "idle" /\ life' = "ended"
    /\ IF Running THEN Disconnect ELSE UNCHANGED fvars
    /\ UNCHANGED <<step, caller, phase, watchdog, times>>

------------------------------------------------------------------------------
\* The watchdog's start, called before the first minute.
Init ==
    /\ FInit
    /\ life = "up" /\ step = "call" /\ caller = "start" /\ phase \in {"before", "open", "after"}
    /\ status = "STALE" /\ failures = 0
    /\ sinceNow = 0 /\ anyAge = None /\ tickAge = [s \in Symbols |-> None]
    /\ attemptAge = 0 /\ coverAge = 0 /\ restartAge = Cap

Next ==
    \/ \E s \in Symbols : Tick(s)
    \/ IndexTick
    \/ Elapse \/ NextPhase \/ MinuteBegins \/ SameUniverse
    \/ \E new \in SUBSET Symbols : NewUniverse(new)
    \/ CallDisconnects \/ CallConnects \/ CallFails
    \/ CheckIsOff \/ CheckIsLive \/ CheckIsStale \/ CheckIsDown \/ CheckRestarts
    \/ WorkerEnds

Spec == Init /\ [][Next]_wvars

\* The clock runs, and the worker's minute goes on as long as it lives.
FairSpec ==
    /\ Spec
    /\ WF_wvars(Elapse) /\ WF_wvars(MinuteBegins)
    /\ WF_wvars(SameUniverse \/ \E new \in SUBSET Symbols : NewUniverse(new))
    /\ WF_wvars(CallDisconnects \/ CallConnects \/ CallFails)
    /\ WF_wvars(CheckIsOff \/ CheckIsLive \/ CheckIsStale \/ CheckIsDown \/ CheckRestarts)

------------------------------------------------------------------------------
(* Properties.                                                             *)

Watching == life = "up" /\ phase = "open"

\* Between two minutes a feed that runs streams the universe of the moment.
StreamsTheUniverse == life = "up" /\ step = "idle" /\ Running => streamed = listed

WatchdogInv == TypeOK /\ StreamsTheUniverse

\* Two restarts by the watchdog are at least the configured interval apart, the
\* slow one once the fast ones were in vain, but for the time a minute takes
\* before its check.
RestartsSpaced ==
    [][CheckRestarts => restartAge + MaxBusy >= Wait]_wvars

\* A feed without any tick is found DOWN, whatever the universe does to its
\* connection meanwhile; so are stocks that are silent while the index ticks.
\* A feed that is DOWN is restarted, or recovers before, also after many
\* restarts in vain.
Deaf == 2 * Cardinality({s \in listed : tickAge[s] \in 0 .. DownAfter}) < Cardinality(listed)
TroubleIsHandled ==
    /\ Watching /\ anyAge # 0 ~> ~Watching \/ anyAge = 0 \/ status = "DOWN"
    /\ Watching /\ Deaf ~> ~Watching \/ ~Deaf \/ status = "DOWN"
    /\ Watching /\ status = "DOWN" ~>
           ~Watching \/ status # "DOWN" \/ (step = "call" /\ caller = "watchdog")

(* What the documentation says.                                            *)

\* "The worker never stops for the feed."
NeverStoppedByFeed == life # "failed"

\* "No tick for stale_after_seconds -> STALE": a check that finds the feed
\* LIVE has seen a tick that recent.
LiveIsFresh == [][CheckIsLive => At(anyAge) <= StaleAfter]_wvars

\* "A failed start/restart leaves status DOWN": it is LIVE only with a
\* connection.
LiveMeansConnected == status = "LIVE" => Running \/ life # "up" \/ step = "call"

\* "At most once per min_restart_interval_seconds."
RestartsApart == [][CheckRestarts => restartAge >= MinRestart]_wvars
==============================================================================
