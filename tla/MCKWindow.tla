------------------------------ MODULE MCKWindow ------------------------------
(***************************************************************************)
(* Instances of KWindow for TLC: two screens, one to the left of the       *)
(* other, of which one or the other may be away.                           *)
(***************************************************************************)
EXTENDS KWindow, TLC

CONSTANTS right, left, small, large, full

One == {right}
Both == {right, left}

MCPrimary == [a \in Arrangements |-> IF a = {left} THEN left ELSE right]
MCScreenSize == [s \in Both |-> full]

\* The left screen has the places below zero.
MCPlaces == {0, 1, -1, -2}
MCScreenAt == [p \in MCPlaces |-> IF p < 0 THEN left ELSE right]
MCPlacedAt == (right :> 0) @@ (left :> -2)

NoSystem == [k \in Key |-> Absent]

\* The system has nothing, or maximizes windows, or has a size for them.
MCSystems ==
    {NoSystem, [NoSystem EXCEPT ![MaximizedKey(One)] = TRUE],
     [NoSystem EXCEPT ![SizeKey(Both)] = large]}

\* The window system tells of a new state and a new geometry in any order.
AnyOrder == [b \in BOOLEAN |-> {"state", "geometry"}]

\* A window may have its old size back before it is told that it is not maximized.
StateFirstWhenMaximized == [b \in BOOLEAN |-> IF b THEN {"state"} ELSE {"state", "geometry"}]
=============================================================================
