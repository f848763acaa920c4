---------------------------- MODULE MCSimBroker ----------------------------
(***************************************************************************)
(* Small instances of SimBroker.  A price of 200 slips by 2; the charges   *)
(* of an execution are 1 to 6 units, so that the brokerage meets both its  *)
(* minimum and its cap.                                                    *)
(***************************************************************************)
EXTENDS SimBroker

MCRates == [flat |-> 3, min |-> 2, pct |-> 10, stt |-> 5, stamp |-> 3,
            txn |-> 2, sebi |-> 0, ipft |-> 0, gst |-> 180]

\* Live ticks, and one bar that reaches both exits of a bracket.
Ticks == {TickBar(p) : p \in Prices}
WideBar == [open |-> 200, high |-> 220, low |-> 180, close |-> 200]
TickAndWideBar == {TickBar(200), WideBar}

StopAndTarget == [stop |-> 10, target |-> 10]
TwoBrackets == {None, StopAndTarget}
OneBracket == {StopAndTarget}
=============================================================================
