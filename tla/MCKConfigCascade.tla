-------------------------- MODULE MCKConfigCascade --------------------------
(***************************************************************************)
(* Instances of KConfigCascade for TLC: one key, in the group the lines    *)
(* above the first header belong to, and a locale with a country.          *)
(***************************************************************************)
EXTENDS KConfigCascade

CONSTANTS dflt, none, k1, v1, v2

MCGroups == {dflt, none}
MCNames == {k1} \cup ({k1} \X {"country", "language"})
MCNameOrder == <<k1, <<k1, "country">>, <<k1, "language">> >>
MCGroupOrder == <<none>>
MCSubGroups == [g \in MCGroups |-> {g}]
MCTouched == {<<dflt, k1>>}

Header(g, i) == [kind |-> "group", group |-> g, immutable |-> i]
Text(loc, o, v) == [kind |-> "entry", name |-> k1, locale |-> loc, options |-> o, value |-> v,
                    garbled |-> FALSE]

\* Lines about lock-down and deletion.
LockLines == {Header(dflt, FALSE), Header(dflt, TRUE), Header(none, TRUE),
              Text("none", <<>>, v1), Text("none", <<>>, v2), Text("none", <<"i">>, v2),
              Text("none", <<"d">>, NoValue), [kind |-> "bad"], [kind |-> "badHeader"]}
LockOptions == {{"Dirty"}, {"Dirty", "Global"}}

\* Lines about locales.
LocaleLines == {Text("none", <<>>, v1), Text("none", <<"i">>, v2), Text("country", <<>>, v1),
                Text("language", <<>>, v2), Text("country", <<"d">>, NoValue)}
LocaleOptions == {{"Dirty"}, {"Dirty", "Localized"}, {}}

Scene(l, o) == [lines |-> l, options |-> o]

BothScenes == {Scene(LockLines, LockOptions), Scene(LocaleLines, LocaleOptions)}

\* Lines for the run that refutes the documentation.
Plainly == {{"Dirty"}}
LockedLocalized == {Scene(LocaleLines, Plainly)}
=============================================================================
