------------------------------ MODULE WorkerLoop ------------------------------
(***************************************************************************)
(* The loop of the worker (run_loop of app/worker.py) around its paper     *)
(* sessions (MultiPaper and LivePaper of app/paper_live.py), and what each *)
(* of them does when something raises: the minute's run and the state file *)
(* end the loop, a session's minute is told and the next session goes on,  *)
(* the end of the day stops at the first session that fails.               *)
(*                                                                         *)
(* A bar is the number of the minute it closes in, and a position of a     *)
(* session one of a few.  Trading is arbitrary here: SimBroker and         *)
(* PaperSession say what it is.  The research recorder, which the loop     *)
(* guards in the same way, is in Snapshots.                                *)
(***************************************************************************)
EXTENDS Integers, FiniteSets

CONSTANTS
    DayEnd,
    SquareOffAt,
    Sessions,       \* their number; the loop takes them in turn
    MaxHeld,        \* positions of a session
    MaxLives

ASSUME LoopAssumption ==
    /\ {DayEnd, Sessions, MaxHeld} \subseteq Nat
    /\ {SquareOffAt, MaxLives} \subseteq Nat \ {0}

VARIABLES
    now,        \* the minute of the exchange
    minute,     \* the minute in hand, of this life
    place,      \* "wait", "tick", "paper", "stop" or "ended"
    turn,       \* the session whose turn it is
    bars,       \* bars in the cache's file: 1 .. bars
    state,      \* the state file: its minute, and the errors it tells
    errors,     \* ctx.errors, of this life: the minute or "stop", and the session
    read,       \* LivePaper._seen: the last bar read
    history,    \* StrategyContext: the bars appended
    held,       \* open positions
    squared,    \* TradingSession._squared
    lives

loopVars == <<now, minute, place, turn, bars, state, errors, read, history, held, squared, lives>>
Session == 1 .. Sessions
Stop == DayEnd + 1      \* the end of the day, as a minute of its errors

LoopTypeOK ==
    /\ now \in 1 .. Stop /\ minute \in 0 .. DayEnd
    /\ place \in {"wait", "tick", "paper", "stop", "ended"}
    /\ turn \in 1 .. Sessions + 1 /\ bars \in 0 .. DayEnd
    /\ state.as_of \in 0 .. DayEnd /\ state.errors \subseteq (1 .. Stop) \X Session
    /\ errors \subseteq (1 .. Stop) \X Session
    /\ read \in [Session -> 0 .. DayEnd]
    /\ history \in [Session -> SUBSET (1 .. DayEnd)]
    /\ held \in [Session -> 0 .. MaxHeld] /\ squared \in [Session -> BOOLEAN]
    /\ lives \in 1 .. MaxLives

LoopInit ==
    /\ now = 1 /\ minute = 0 /\ place = "wait" /\ turn = 1 /\ bars = 0
    /\ state = [as_of |-> 0, errors |-> {}] /\ errors = {}
    /\ read = [s \in Session |-> 0] /\ history = [s \in Session |-> {}]
    /\ held = [s \in Session |-> 0] /\ squared = [s \in Session |-> FALSE]
    /\ lives = 1

------------------------------------------------------------------------------
(* The clock and the run of a minute.                                      *)

\* A minute may pass at any time: a run that takes longer skips minutes.
Elapse ==
    /\ now < Stop /\ place # "ended" /\ now' = now + 1
    /\ UNCHANGED <<minute, place, turn, bars, state, errors, read, history, held, squared, lives>>

ClockYields ==
    /\ place = "wait" /\ minute # now
    /\ IF now = Stop THEN place' = "stop" /\ UNCHANGED minute
                     ELSE place' = "tick" /\ minute' = now
    /\ turn' = 1
    /\ UNCHANGED <<now, bars, state, errors, read, history, held, squared, lives>>

\* run_tick refreshes the bars, or cannot and says so; then the state is
\* written to one file and put in the place of the other.
RunTick(refreshed) ==
    /\ place = "tick" /\ place' = "paper"
    /\ bars' = IF refreshed THEN minute ELSE bars
    /\ state' = [as_of |-> minute, errors |-> errors]
    /\ UNCHANGED <<now, minute, turn, errors, read, history, held, squared, lives>>

\* Nothing catches what they raise: the loop is left.
TickRaises ==
    /\ place = "tick" /\ place' = "stop"
    /\ UNCHANGED <<now, minute, turn, bars, state, errors, read, history, held, squared, lives>>

------------------------------------------------------------------------------
(* MultiPaper.on_minute: each session's LivePaper.on_minute.               *)

Earlier(a, b) == IF a < b THEN a ELSE b
Until == Earlier(bars, minute)
Report(s, at) == errors' = errors \cup {<<at, s>>}

\* One session never stops another.
NextSession ==
    /\ turn' = IF turn = Sessions THEN 1 ELSE turn + 1
    /\ place' = IF turn = Sessions THEN "wait" ELSE "paper"

MinuteOf(s, raised) ==
    /\ place = "paper" /\ turn = s
    /\ NextSession
    /\ IF raised THEN Report(s, minute) ELSE UNCHANGED errors
    /\ UNCHANGED <<now, minute, bars, state, lives>>

\* The bars of a stock are marked as seen when they are read; the candles of a
\* later one cannot be loaded, and the step is not taken.
LoadRaises(s) ==
    /\ MinuteOf(s, TRUE)
    /\ \/ UNCHANGED read
       \/ read' = [read EXCEPT ![s] = IF @ < Until THEN Until ELSE @]
    /\ UNCHANGED <<history, held, squared>>

ReadBars(s) ==
    /\ read' = [read EXCEPT ![s] = IF @ < Until THEN Until ELSE @]
    /\ history' = [history EXCEPT ![s] = @ \cup (read[s] + 1 .. Until)]

\* TradingSession.step before the square-off: the strategy trades, and it or the
\* ledger may raise at any point.
StepTrades(s, raised) ==
    /\ MinuteOf(s, raised) /\ ReadBars(s) /\ minute < SquareOffAt
    /\ \E n \in 0 .. MaxHeld : held' = [held EXCEPT ![s] = n]
    /\ UNCHANGED squared

\* At the square-off all is closed, once.
StepCloses(s, raised) ==
    /\ MinuteOf(s, raised) /\ ReadBars(s) /\ minute >= SquareOffAt
    /\ held' = [held EXCEPT ![s] = IF squared[s] THEN @ ELSE 0]
    /\ squared' = [squared EXCEPT ![s] = TRUE]

MutSquareOffRaises(s) ==
    /\ MinuteOf(s, TRUE) /\ ReadBars(s) /\ minute >= SquareOffAt /\ ~squared[s]
    /\ \E n \in 0 .. held[s] : held' = [held EXCEPT ![s] = n]
    /\ squared' = [squared EXCEPT ![s] = TRUE]
\* It raises on the way: some are closed, and the next minute does the rest.
SquareOffRaises(s) ==
    /\ MinuteOf(s, TRUE) /\ ReadBars(s) /\ minute >= SquareOffAt /\ ~squared[s]
    /\ \E n \in 0 .. held[s] : held' = [held EXCEPT ![s] = n]
    /\ UNCHANGED squared

\* Between the minutes ticks fill the orders that are open (LivePaper.pump).
TickFills(s) ==
    /\ place # "ended" /\ ~squared[s]
    /\ \E n \in 0 .. MaxHeld : held' = [held EXCEPT ![s] = n]
    /\ UNCHANGED <<now, minute, place, turn, bars, state, errors, read, history, squared, lives>>

------------------------------------------------------------------------------
(* The end: MultiPaper.stop, under one handler, and TradingSession.end_day. *)

EndDay(s) ==
    /\ place = "stop" /\ turn = s
    /\ held' = [held EXCEPT ![s] = 0] /\ squared' = [squared EXCEPT ![s] = TRUE]
    /\ IF s = Sessions THEN turn' = 1 /\ place' = "ended" ELSE turn' = turn + 1 /\ UNCHANGED place
    /\ UNCHANGED <<now, minute, bars, state, errors, read, history, lives>>

EndDayRaises(s) ==
    /\ place = "stop" /\ turn = s /\ place' = "ended" /\ turn' = 1
    /\ Report(s, Stop)
    /\ \E n \in 0 .. held[s] : held' = [held EXCEPT ![s] = n]
    /\ UNCHANGED <<now, minute, bars, state, read, history, squared, lives>>

------------------------------------------------------------------------------
\* The worker is killed, or has ended, and is started again on the same day:
\* the positions come back from the ledger, and the cache and the state file are
\* as they were.
StartAgain ==
    /\ lives < MaxLives /\ lives' = lives + 1
    /\ minute' = 0 /\ place' = "wait" /\ turn' = 1 /\ errors' = {}
    /\ read' = [s \in Session |-> 0] /\ history' = [s \in Session |-> {}]
    /\ squared' = [s \in Session |-> FALSE]
    /\ UNCHANGED <<now, bars, state, held>>

LoopNext ==
    \/ Elapse \/ ClockYields
    \/ \E refreshed \in BOOLEAN : RunTick(refreshed)
    \/ TickRaises
    \/ \E s \in Session :
        \/ LoadRaises(s)
        \/ \E raised \in BOOLEAN : StepTrades(s, raised)
        \/ \E raised \in BOOLEAN : StepCloses(s, raised)
        \/ SquareOffRaises(s) \/ TickFills(s)
        \/ EndDay(s) \/ EndDayRaises(s)
    \/ StartAgain

LoopSpec == LoopInit /\ [][LoopNext]_loopVars

------------------------------------------------------------------------------
(* Properties.                                                             *)

\* A bar that counts as seen is in the strategy's history, or a minute that
\* could have read it was told as failed for that session (paper_live.py:107-112).
BarsAccountedFor ==
    \A s \in Session : \A b \in 1 .. read[s] :
        b \in history[s] \/ \E m \in b .. DayEnd : <<m, s>> \in errors

\* A minute at or after the square-off that a session has got through leaves it
\* flat, whatever failed before and in the other session (session.py:54-58).
FlatOrTold ==
    place = "wait" /\ minute >= SquareOffAt =>
        \A s \in Session : held[s] = 0 \/ <<minute, s>> \in errors

\* When the loop is over a session is flat, or its end of the day has failed, or
\* that of a session before it (paper_live.py:161-163).
EndsFlatOrTold ==
    place = "ended" =>
        \A s \in Session : held[s] = 0 \/ \E t \in 1 .. s : <<Stop, t>> \in errors

\* What failed in a minute is on the dashboard in the next.
ErrorsAreShown ==
    place = "paper" => {e \in errors : e[1] < state.as_of} \subseteq state.errors

LoopInv == LoopTypeOK /\ BarsAccountedFor /\ FlatOrTold /\ EndsFlatOrTold /\ ErrorsAreShown
==============================================================================
