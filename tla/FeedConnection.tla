---------------------------- MODULE FeedConnection ----------------------------
(***************************************************************************)
(* The live feed as its callers see it: the stocks it is told to stream,   *)
(* the stocks its connection streams, and the stocks that connections it   *)
(* has given up still stream.  The provider has no call that closes a      *)
(* connection, only one that unsubscribes a list; a connection that is     *)
(* given up before its stocks are unsubscribed goes on.                    *)
(***************************************************************************)
EXTENDS Values

CONSTANT Symbols

VARIABLES
    listed,         \* the stocks to stream
    streamed,       \* the stocks of the connection in use; None: no connection
    leftover        \* the stocks that abandoned connections stream

fvars == <<listed, streamed, leftover>>

Running == streamed # None

\* A new list; nothing is resubscribed yet.
Relist(new) ==
    /\ new \subseteq Symbols /\ listed' = new
    /\ UNCHANGED <<streamed, leftover>>

\* The connection is given up, its stocks unsubscribed by the present list;
\* the call may fail and leave them all.
Disconnect ==
    /\ Running /\ streamed' = None
    /\ leftover' \in {leftover \cup (streamed \ listed), leftover \cup streamed}
    /\ UNCHANGED listed

Connect ==
    /\ ~Running /\ streamed' = listed
    /\ UNCHANGED <<listed, leftover>>

\* Connecting raises, before or after the prices have been subscribed.
ConnectFails ==
    /\ ~Running
    /\ leftover' \in {leftover, leftover \cup listed}
    /\ UNCHANGED <<listed, streamed>>

FInit == listed \in SUBSET Symbols /\ streamed = None /\ leftover = {}

FNext ==
    \/ \E new \in SUBSET Symbols : Relist(new)
    \/ Disconnect
    \/ Connect
    \/ ConnectFails

FSpec == FInit /\ [][FNext]_fvars
==============================================================================
