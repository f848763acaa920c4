---------------------------- MODULE AdapterChecks ----------------------------
(***************************************************************************)
(* Two uses of the provider's interface that share no state: the live feed *)
(* with its pollers, and the calls of a few threads under one rate         *)
(* limiter.  A behaviour is about one of them.                             *)
(***************************************************************************)
EXTENDS LiveFeed, QuoteRequests

VARIABLE about
adapterVars == <<vars, requestVars, about>>

AdapterInit ==
    /\ about \in {"feed", "requests"} /\ Init /\ RequestsInit
    /\ IF about = "feed" THEN ~inside ELSE listed = {}

AdapterNext ==
    /\ UNCHANGED about
    /\ \/ about = "feed" /\ Next /\ UNCHANGED requestVars
       \/ about = "requests" /\ RequestsNext /\ UNCHANGED vars

AdapterSpec == AdapterInit /\ [][AdapterNext]_adapterVars

Fed(A) == about = "feed" /\ A /\ UNCHANGED <<about, requestVars>>

\* The pollers run, and the worker's calls end.
FairAdapterSpec ==
    /\ AdapterSpec
    /\ \A c \in Conns : WF_adapterVars(Fed(PollerGoesOn(c)))
    /\ WF_adapterVars(Fed(CallGoesOn))
==============================================================================
