--------------------------- MODULE OverloadCases ----------------------------
(***************************************************************************)
(* The overload cases of a function, each declared with a priority: what a *)
(* call (DemandCall) goes through and a selection (Selection) compares.    *)
(***************************************************************************)
EXTENDS Integers, Sequences

CONSTANTS
  Case,        \* the overload cases of the function
  Priorities   \* the priorities a case may declare

ASSUME CasesAssumption == Priorities \subseteq Int

VARIABLE priority  \* the priority of every case
=============================================================================
