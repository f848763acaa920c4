------------------------------- MODULE Values -------------------------------
(***************************************************************************)
(* The value that stands for "no value" in every module of the rules, and   *)
(* numbers in order.                                                       *)
(***************************************************************************)
EXTENDS Integers, FiniteSets

CONSTANT None           \* Python's None: no price, no target, no fill

ASSUME NoneAssumption == None \notin Int

\* The numbers of a finite set, from the least.
InOrder(numbers) ==
    [n \in 1 .. Cardinality(numbers) |->
        CHOOSE x \in numbers : Cardinality({y \in numbers : y <= x}) = n]
=============================================================================
