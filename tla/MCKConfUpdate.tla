---------------------------- MODULE MCKConfUpdate ----------------------------
(***************************************************************************)
(* Instances of KConfUpdate for TLC.                                       *)
(***************************************************************************)
EXTENDS KConfUpdate, TLC

CONSTANTS f1, f2, i1, i2, i3, s1, s2

One == <<f1>>
Two == <<f1, f2>>

Version(v) == [kind |-> "Version", good |-> v]
Id(i) == [kind |-> "Id", id |-> i]
Script(s) == [kind |-> "Script", script |-> s]

\* A file with one group, and with a second one after an upgrade.
First == <<Version(TRUE), Id(i1), Script(s1)>>
Upgraded == First \o <<Id(i2), Script(s1), Script(s2)>>

\* A file that is for another version, and one that is for none.
Old == <<Version(FALSE)>>
Unversioned == <<Script(s2), Id(i1)>>

Changing == f1 :> {First, Upgraded, Old, Unversioned}

\* Two files that give their group the same id.
SameId == f1 :> {First} @@ f2 :> {First}
=============================================================================
