----------------------------- MODULE DayHistory -----------------------------
(***************************************************************************)
(* What the sessions before today leave behind (daily_prep.py, the daily   *)
(* statistics of volume_scan.py, candles.py).  A session is a sequence     *)
(* over its minutes, None where nobody traded; without a trade it is no    *)
(* session.  An average is rounded down, an ATR is in hundredths.          *)
(***************************************************************************)
EXTENDS Points

CONSTANTS
    SessionMinutes,     \* length of a session
    AtrPeriod,          \* of Wilder's ATR
    NarrowDays,         \* sessions a narrow range is compared over (7)
    CurveSessions,      \* sessions of the volume curve
    StatsSessions       \* sessions of the scan's statistics

Mean(f) == SumFunctionOnSet(f, DOMAIN f) \div Cardinality(DOMAIN f)
LastOf(seq, n) == SubSeq(seq, Max({1, Len(seq) - n + 1}), Len(seq))

Candles(session) == SelectSeq(session, LAMBDA b : b # None)
Sessions(past) == SelectSeq(past, LAMBDA session : Candles(session) # <<>>)
Daily(past) == [d \in DOMAIN Sessions(past) |-> MergedBar(Candles(Sessions(past)[d]), 0)]

------------------------------------------------------------------------------
(* The levels and ranges the setups are read against: compute_daily_prep.  *)

Reach(bar, prev_close) ==
    Max({bar.high, prev_close}) - Min({bar.low, prev_close})
Reaches(daily) == [d \in 1..Len(daily)-1 |-> Reach(daily[d+1], daily[d].close)]

WilderAtr(daily) ==
    LET reaches == Reaches(daily)
        seed == 100 * SumFunctionOnSet(reaches, 1..AtrPeriod)
    IN  IF Len(daily) < AtrPeriod + 1 THEN None
        ELSE FoldLeft(LAMBDA atr, r : (atr * (AtrPeriod - 1) + 100 * r) \div AtrPeriod,
                      seed \div AtrPeriod, SubSeq(reaches, AtrPeriod + 1, Len(reaches)))

Width(bar) == bar.high - bar.low

\* Pivot and central range in sixths of a price step.
DailyPrep(daily) ==
    LET prev == Last(daily)
        pivot == 2 * (prev.high + prev.low + prev.close)
        middle == 3 * (prev.high + prev.low)
        ends == {middle, 2 * pivot - middle}
    IN  [prev_high |-> prev.high, prev_low |-> prev.low, prev_close |-> prev.close,
         pivot |-> pivot, cpr_top |-> Max(ends), cpr_bottom |-> Min(ends),
         cpr_width |-> ((Max(ends) - Min(ends)) * 10000) \div pivot,
         narrow |-> IF Len(daily) < NarrowDays THEN None
                    ELSE \A d \in 1..NarrowDays-1 : Width(prev) <= Width(daily[Len(daily) - d]),
         inside |-> IF Len(daily) < 2 THEN None
                    ELSE LET before == daily[Len(daily) - 1]
                         IN  prev.high <= before.high /\ prev.low >= before.low,
         atr |-> WilderAtr(daily)]

\* Volume traded by each minute of an average session; a minute without a trade
\* carries the total on.
VolumeBy(session, m) ==
    SumFunctionOnSet([i \in 1..m |-> IF session[i] = None THEN 0 ELSE session[i].volume], 1..m)
VolumeCurve(past) ==
    LET recent == LastOf(Sessions(past), CurveSessions)
    IN  [m \in 1..SessionMinutes |-> Mean([d \in DOMAIN recent |-> VolumeBy(recent[d], m)])]

------------------------------------------------------------------------------
(* The scan's statistics: daily_stats.                                     *)

DailyStats(daily) ==
    LET prior == LastOf(daily, StatsSessions)
        reach == [d \in DOMAIN prior |->
                     IF d = 1 THEN Width(prior[d]) ELSE Reach(prior[d], prior[d-1].close)]
    IN  IF prior = <<>> THEN None
        ELSE [volume |-> Mean([d \in DOMAIN prior |-> prior[d].volume]),
              value |-> Mean([d \in DOMAIN prior |-> prior[d].close * prior[d].volume]),
              prev_close |-> Last(prior).close, sessions |-> Len(prior),
              atr |-> Mean([d \in DOMAIN prior |-> 100 * reach[d]])]

------------------------------------------------------------------------------

\* The ATR lies within the ranges it averages, a day inside the one before is no
\* wider, the pivot lies in its day and in the middle of the central range, and
\* the average session only ever adds volume, up to the average of the days.
HistoryIsSound(past) ==
    LET daily == Daily(past)
        prep == DailyPrep(daily)
        reaches == ToSet(Reaches(daily))
        curve == VolumeCurve(past)
        days == LastOf(daily, CurveSessions)
    IN  daily # <<>> =>
            /\ prep.atr # None =>
                   prep.atr <= 100 * Max(reaches) /\ prep.atr >= 100 * Min(reaches) - Len(daily)
            /\ prep.inside # None =>
                   (prep.inside => Width(Last(daily)) <= Width(daily[Len(daily) - 1]))
            /\ 6 * prep.prev_low <= prep.pivot /\ prep.pivot <= 6 * prep.prev_high
            /\ prep.cpr_top + prep.cpr_bottom = 2 * prep.pivot
            /\ \A m \in 1..SessionMinutes-1 : curve[m] <= curve[m+1]
            /\ Last(curve) = Mean([d \in DOMAIN days |-> days[d].volume])
=============================================================================
