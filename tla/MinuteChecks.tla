---------------------------- MODULE MinuteChecks ----------------------------
(***************************************************************************)
(* A minute of the worker, seen three times: the bars it reads, the news   *)
(* it reads (TickInputs), and what its loop does with the sessions when    *)
(* something raises (WorkerLoop).  Bars and news do not touch each other,  *)
(* so a behaviour about the one leaves the other alone.                    *)
(***************************************************************************)
EXTENDS TickInputs, WorkerLoop

VARIABLE about
minuteVars == <<vars, loopVars, about>>

MinuteInit == about \in {"bars", "news", "loop"} /\ Init /\ LoopInit

MinuteNext ==
    /\ UNCHANGED about
    /\ \/ about = "bars" /\ Next /\ known' = {} /\ UNCHANGED loopVars
       \/ about = "news" /\ Next /\ followed' = {} /\ UNCHANGED <<trades, loopVars>>
       \/ about = "loop" /\ LoopNext /\ UNCHANGED vars

MinuteSpec == MinuteInit /\ [][MinuteNext]_minuteVars
==============================================================================
