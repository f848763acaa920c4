--------------------------- MODULE MCPaperSession ---------------------------
(***************************************************************************)
(* Small instances of PaperSession: prices that reach the stop, the target *)
(* and neither, minutes short enough for a hold, a square-off and a        *)
(* restart in between.                                                     *)
(***************************************************************************)
EXTENDS PaperSession

MCRates == [flat |-> 3, min |-> 2, pct |-> 10, stt |-> 5, stamp |-> 3,
            txn |-> 2, sebi |-> 0, ipft |-> 0, gst |-> 180]

Ticks == {TickBar(p) : p \in Prices}
StopAndTarget == {[stop |-> 10, target |-> 10]}
=============================================================================
