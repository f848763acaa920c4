----------------------------- MODULE SetupChecks ----------------------------
(***************************************************************************)
(* A trading day minute by minute, with minutes nobody traded in, read by  *)
(* the setup detectors.  A detector keeps no state: each minute the signal *)
(* is computed again from all the candles, so whether the signals of two   *)
(* minutes fit together is a property of the rules alone.                  *)
(***************************************************************************)
EXTENDS SetupRules

CONSTANTS
    Shapes,             \* candles a minute may have
    Prep,               \* what the previous sessions left behind
    IndexBars,          \* NIFTY's candles
    MaxMinutes

VARIABLES
    bars, now,          \* closed candles of the stock; minutes since the open
    story               \* mode |-> the signals of every minute's run so far
dayVars == <<bars, now, story>>

DayInit == bars = <<>> /\ now = 0 /\ story = [mode \in Mode |-> <<>>]

\* The minute closes and the engine runs on the candles so far.
Run(candles, minute) ==
    story' = [mode \in Mode |->
                  Append(story[mode], RunSetups(mode, candles, Prep, IndexBars, minute))]

MinuteWith(shape) ==
    /\ now < MaxMinutes
    /\ bars' = Append(bars, [at |-> now] @@ shape)
    /\ now' = now + 1
    /\ Run(bars', now')

MinuteWithout == now < MaxMinutes /\ now' = now + 1 /\ UNCHANGED bars /\ Run(bars, now')

DayNext == MinuteWithout \/ \E shape \in Shapes : MinuteWith(shape)

------------------------------------------------------------------------------

Pullbacks == {"VWAP_PULLBACK", "EMA_PULLBACK"}
Breakouts == {"ORB5", "ORB15", "PDH"}
Crossed == {"TRIGGERED", "EXTENDED"}

\* A setup fails only after it was there: a breakout after it triggered, a
\* pullback after it had formed, a gap also when it is filled (the states of
\* setups.py:6-12).  A failed setup excludes the stock, so one that never was
\* would hide it for nothing.
FailedWasThere(history, k) ==
    LET name == history[now][k].name
        was == Crossed \cup (IF name \in Pullbacks THEN {"FORMING"} ELSE {})
    IN  history[now][k].state = "FAILED" =>
            \/ \E m \in 1..now-1 : history[m][k].state \in was
            \/ name = "GAP_AND_GO" /\ Last(bars).close <= Prep.prev_close

\* A breakout that happened is not forgotten: it holds or it has failed.
BreakoutRemembered(history, k) ==
    history[now][k].name \in Breakouts /\ (\E m \in 1..now-1 : history[m][k].state \in Crossed)
        => history[now][k].state \in Crossed \cup {"FAILED"}

\* The signals of a day tell one story, whatever the candles, the gaps between
\* them and the five-minute candles still open.
SignalsTellTheDay ==
    now > 0 =>
        \A mode \in Mode :
            \A k \in DOMAIN story[mode][now] :
                FailedWasThere(story[mode], k) /\ BreakoutRemembered(story[mode], k)
=============================================================================
