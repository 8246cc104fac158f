----------------------------- MODULE MCKWatcher -----------------------------
(***************************************************************************)
(* Instances of KWatcher for TLC.                                          *)
(***************************************************************************)
EXTENDS KWatcher

CONSTANTS a, b, hard

AllHard == [k \in Keys |-> hard]
=============================================================================
