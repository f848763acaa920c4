------------------------------- MODULE Points -------------------------------
(***************************************************************************)
(* Points, percentages, candles.  The program's floats are integers: a     *)
(* percentage in hundredths of a percent, a score in hundredths of a point *)
(* (0 to 10000), a ratio in hundredths, all rounded down.                  *)
(***************************************************************************)
EXTENDS Values, SequencesExt

\* Change from b to a.
Pct(a, b) == ((a - b) * 10000) \div b

Clamp(points) == Max({0, Min({10000, points})})

\* Linear between two bounds, flat beyond them; no value stays no value.
Ramp(x, lo, hi) == IF x = None THEN None ELSE Clamp(((x - lo) * 10000) \div (hi - lo))

\* Parts without data drop out; with none there is no value (never a zero).
Average(parts) ==
    LET have == {k \in DOMAIN parts : parts[k] # None}
    IN  IF have = {} THEN None ELSE SumFunctionOnSet(parts, have) \div Cardinality(have)

\* One candle of several, in the order of time.
MergedBar(group, start) ==
    [at |-> start, open |-> Head(group).open, close |-> Last(group).close,
     high |-> Max({b.high : b \in ToSet(group)}), low |-> Min({b.low : b \in ToSet(group)}),
     volume |-> MapThenSumSet(LAMBDA i : group[i].volume, DOMAIN group)]
=============================================================================
