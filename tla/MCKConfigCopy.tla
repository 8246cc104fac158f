---------------------------- MODULE MCKConfigCopy ----------------------------
(***************************************************************************)
(* Instances of KConfigCopy for TLC: two objects, and a key in two groups. *)
(***************************************************************************)
EXTENDS KConfigCopyProofs, TLC

CONSTANTS dflt, none, grpA, grpB, k1, v1, v2, here, there

MCGroups == {dflt, none, grpA, grpB}
MCGroupOrder == <<none, grpA, grpB>>
MCSubGroups == [g \in MCGroups |-> {g}]
MCNames == {k1}
MCNameOrder == <<k1>>
MCPlaces == {<<grpA, k1>>, <<grpB, k1>>}

Header(g, i) == [kind |-> "group", group |-> g, immutable |-> i]
Text(loc, o, v) == [kind |-> "entry", name |-> k1, locale |-> loc, options |-> o, value |-> v,
                    garbled |-> FALSE]
Plain(v) == Text("none", <<>>, v)

\* The system has a default for each object, and locks a group of the other one.  The one's own
\* file may hold another value, the other's a locked one.
Defaults == here :> <<Header(grpA, FALSE), Plain(v1)>>
            @@ there :> <<Header(grpA, TRUE), Header(grpB, FALSE), Plain(v2)>>
UserFiles == here :> {<<>>, <<Header(grpA, FALSE), Plain(v2)>>}
             @@ there :> {<<>>, <<Header(grpB, FALSE), Text("none", <<"i">>, v1)>>}
Flags == {{"Dirty"}}

\* The setup is one that EverythingStays is about.
ASSUME InstanceAssumption == Stores
=============================================================================
