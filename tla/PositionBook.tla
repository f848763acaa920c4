---------------------------- MODULE PositionBook ----------------------------
(***************************************************************************)
(* What the simulated broker promises its callers about positions, without *)
(* orders, prices or money (paper/broker.py:15-33):                        *)
(*  - a position grows away from zero or shrinks towards it, and never     *)
(*    jumps to the other side;                                             *)
(*  - a symbol needs one of MaxSlots slots before it can be held, keeps it *)
(*    while it is held, and gets no slot while the book is barred;         *)
(*  - the book is barred by closing it (the square-off) when it is empty,  *)
(*    and opens again with a new day.                                      *)
(***************************************************************************)
EXTENDS Integers, FiniteSets

(* The actions say how the next state relates to this one (net' and slots' *)
(* occur on both sides), so the module is a property to be implemented.    *)

CONSTANTS Symbols, MaxSlots

VARIABLES
    net,      \* symbol -> signed shares held
    slots,    \* symbols held or with an entry pending
    barred    \* squared off: nothing may be entered

vars == <<net, slots, barred>>

Init ==
    /\ net = [s \in Symbols |-> 0]
    /\ slots = {}
    /\ barred = FALSE

Claim(s) ==
    /\ ~barred /\ s \notin slots /\ Cardinality(slots) < MaxSlots
    /\ slots' = slots \cup {s}
    /\ UNCHANGED <<net, barred>>

\* Entries end unfilled: one is cancelled or refused, or all are cancelled.
Release ==
    /\ slots' \subseteq slots
    /\ \A s \in slots \ slots' : net[s] = 0
    /\ UNCHANGED <<net, barred>>

Grow(s) ==
    /\ ~barred /\ s \in slots
    /\ net' = [net EXCEPT ![s] = net'[s]]
    /\ \/ 0 <= net[s] /\ net[s] < net'[s]
       \/ net'[s] < net[s] /\ net[s] <= 0
    /\ UNCHANGED <<slots, barred>>

Shrink(s) ==
    /\ net' = [net EXCEPT ![s] = net'[s]]
    /\ \/ 0 <= net'[s] /\ net'[s] < net[s]
       \/ net[s] < net'[s] /\ net'[s] <= 0
    /\ slots' = slots \/ (net'[s] = 0 /\ slots' = slots \ {s})
    /\ UNCHANGED barred

Close ==
    /\ slots = {} /\ \A s \in Symbols : net[s] = 0
    /\ barred' = TRUE
    /\ UNCHANGED <<net, slots>>

NewDay ==
    /\ barred' = FALSE
    /\ UNCHANGED <<net, slots>>

Next ==
    \/ \E s \in Symbols : Claim(s) \/ Grow(s) \/ Shrink(s)
    \/ Release \/ Close \/ NewDay

Spec == Init /\ [][Next]_vars
==============================================================================
