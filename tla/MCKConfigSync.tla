---------------------------- MODULE MCKConfigSync ----------------------------
(***************************************************************************)
(* Instances of KConfigSync for TLC.                                       *)
(***************************************************************************)
EXTENDS KConfigSync

CONSTANTS a, b, g

\* Two programs with the same file, and one that edits kdeglobals.
TwoAndGlobals == [p \in Procs |-> IF p = g THEN "kdeglobals" ELSE "app"]
=============================================================================
