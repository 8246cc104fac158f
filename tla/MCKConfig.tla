------------------------------ MODULE MCKConfig ------------------------------
(***************************************************************************)
(* Instances of KConfig for TLC.                                           *)
(***************************************************************************)
EXTENDS KConfig

CONSTANTS dflt, none, grpA, grpB, k1, k2, v1, v2

TwoGroups == {dflt, none}
TwoGroupsOrder == <<none>>
TwoGroupsSub == [g \in TwoGroups |-> {g}]
FourGroups == {dflt, none, grpA, grpB}
FourGroupsOrder == <<none, grpA, grpB>>
FourGroupsSub == [g \in FourGroups |-> {g}]

TwoKeys == {k1, k2}
TwoKeysOrder == <<k1, k2>>
AllNames == {k1, k2, <<k1, "country">>, <<k1, "foreign">>}
AllNamesOrder == <<k1, k2, <<k1, "country">>, <<k1, "foreign">> >>

FirstKey == {<<dflt, k1>>}
SomeKeys == FirstKey \cup {<<grpA, k1>>, <<grpB, k1>>}

Header(g, i) == [kind |-> "group", group |-> g, immutable |-> i]
Text(n, loc, o, v) == [kind |-> "entry", name |-> n, locale |-> loc, options |-> o,
                       value |-> v, garbled |-> FALSE]
Plain(n, v) == Text(n, "none", <<>>, v)
Locked(n, v) == Text(n, "none", <<"i">>, v)
Deleted(n) == Text(n, "none", <<"d">>, NoValue)

None == <<>>
NoFile == {<<>>}
GoodLuck == {{}}
BadLuck == {{}, {"unreachable"}}
WriteFails == {{}, {"localWrite"}}
Persistent == {{"Dirty"}}
NowAndThen == {{"Dirty"}, {}}
GlobalOnly == {{"Dirty", "Global"}}

\* A default from the system, a user's file that others edit, locks included.
DefaultFiles == << <<Plain(k1, v1)>> >>
OwnFiles == {<<>>, <<Plain(k1, v2), Locked(k2, v2)>>, <<Locked(k1, v2), Plain(k2, v1)>>,
             <<Header(none, TRUE), Plain(k2, v1)>>, <<Header(dflt, TRUE), Plain(k1, v1)>>,
             <<Deleted(k1)>>}

\* Both files may hold the key, and calls are made for either of them.
UserGlobals == {<<>>, <<Plain(k1, v1), Plain(k2, v1)>>, <<Header(none, TRUE), Plain(k2, v1)>>}
OverFiles == {<<>>, <<Plain(k1, v2)>>, <<Deleted(k1)>>}
EitherFile == {{"Dirty"}, {"Dirty", "Global"}}
GlobalBadLuck == {{}, {"unreachable"}, {"globalLock"}}

\* Entries without a tag, with the tag of this locale, and with another one.
TagFiles == {<<>>, <<Plain(k1, v1)>>, <<Plain(k1, v1), Text(k1, "country", <<>>, v2)>>,
             <<Text(k1, "country", <<>>, v1), Text(k1, "foreign", <<>>, v2)>>}
LocalizedToo == {{"Dirty"}, {"Dirty", "Localized"}}

\* Files the application adds.
AddedFiles == {<<Plain(k1, v1)>>, <<Locked(k1, v2)>>, <<Header(none, TRUE), Plain(k2, v1)>>}

\* What other programs write in the runs that refute the documentation.
LockedGroupFiles == {<<Header(grpA, TRUE), Plain(k2, v1)>>, <<Header(grpA, FALSE), Plain(k2, v1)>>}

-----------------------------------------------------------------------------
(* Setups *)

\* An object with one file of its own and nothing else.
Alone == [systemGlobals |-> None, systemFiles |-> None, globalFiles |-> NoFile,
          localFiles |-> NoFile, extraFiles |-> {}, flags |-> {"CascadeConfig"},
          writeOptions |-> Persistent, troubles |-> GoodLuck]

WithGlobals == [Alone EXCEPT !.flags = {"IncludeGlobals", "CascadeConfig"}]

\* A default from the system, a local file that others edit and lock, and files the application
\* adds.
OverSystem == [Alone EXCEPT !.systemFiles = DefaultFiles, !.localFiles = OwnFiles,
                            !.extraFiles = AddedFiles, !.writeOptions = NowAndThen,
                            !.troubles = BadLuck]

\* The user's kdeglobals under the local file, both written here and by others.
OverGlobals == [WithGlobals EXCEPT !.globalFiles = UserGlobals, !.localFiles = OverFiles,
                                   !.writeOptions = EitherFile, !.troubles = GlobalBadLuck]

\* Localized entries, of this locale and of others.
Tags == [Alone EXCEPT !.localFiles = TagFiles, !.writeOptions = LocalizedToo]

AllSetups == {OverSystem, OverGlobals, Tags}

\* The setups of the runs that refute the documentation.
Failing == {[Alone EXCEPT !.troubles = WriteFails]}
Contradicting ==
    {[Alone EXCEPT !.troubles = BadLuck], [Alone EXCEPT !.localFiles = LockedGroupFiles],
     [WithGlobals EXCEPT !.globalFiles = LockedGroupFiles, !.writeOptions = GlobalOnly], Tags}
=============================================================================
