---------------------------- MODULE MCMinuteChecks ----------------------------
(***************************************************************************)
(* The inputs of a few minutes, with one stock for the bars and three for  *)
(* the news; the loop with two sessions, one minute to trade in and two to *)
(* close in, and a restart.                                                *)
(***************************************************************************)
EXTENDS MinuteChecks, TLC

Symmetry == Permutations(NewsStocks \ NoAlias)
==============================================================================
