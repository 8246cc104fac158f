---------------------------- MODULE KPropertyMap ----------------------------
(***************************************************************************)
(* KConfigPropertyMap (src/qml/kconfigpropertymap.cpp), through which QML  *)
(* shows and sets the items of a skeleton, composed with KSkeleton.        *)
(*                                                                         *)
(* The map has a copy of each item's value under the item's key.  The copy *)
(* is made anew when the skeleton emits configChanged(), which save() does *)
(* and load() does not.  What QML sets goes to the item that the skeleton  *)
(* has under that key as its name.  The defaults the map shows are left    *)
(* out.                                                                    *)
(***************************************************************************)
EXTENDS KSkeleton

CONSTANTS
    KeyOf,  \* the key of each item
    NoMap   \* there is no map yet

\* No two items of a program with a map have the same key, nor one of them another's key as a name.
ASSUME KeyAssumption ==
    /\ KeyOf \in [Items -> Names]
    /\ \A p \in Programs : p.mapped =>
          \A i, j \in p.items : i # j =>
             KeyOf[i] \notin {KeyOf[j], NameOf[j]} \cup OtherNames[j]

VARIABLES
    map,        \* the values in the map
    strayed     \* the items the program or QML changed past the map since it was made

mapVars == <<map, strayed>>

-----------------------------------------------------------------------------

\* Mutant: a value that is there already is not replaced.
LoadConfigOnce(m, r, present) ==
    [i \in Items |-> IF i \in present /\ (m = NoMap \/ m[i] = Absent) THEN r[i]
                     ELSE IF m = NoMap THEN Absent ELSE m[i]]

\* loadConfig(): insert() of every item, in a map that has m.
LoadConfig(m, r, present) ==
    [i \in Items |-> IF i \in present THEN r[i] ELSE IF m = NoMap THEN Absent ELSE m[i]]

\* The constructor.
Construct ==
    /\ program.mapped /\ map = NoMap
    /\ map' = LoadConfig(map, ref, listed)
    /\ strayed' = {}
    /\ UNCHANGED vars

\* valueChanged(): QML sets a value, and the item that has the key as its name follows.
ValueChanged(i, v) ==
    /\ map # NoMap /\ map[i] # Absent
    /\ map' = [map EXCEPT ![i] = v]
    /\ IF dict[KeyOf[i]] # NoItem
       THEN Set(dict[KeyOf[i]], v) /\ strayed' = strayed \ {i}
       ELSE UNCHANGED vars /\ strayed' = strayed \cup ({i} \cap listed)

\* setProperty() of each item with the value under its key: an invalid QVariant, for an item the map
\* does not have, makes the item 0 or empty.
Shown == [i \in Items |-> IF i \notin listed THEN ref[i] ELSE IF map[i] = Absent THEN 0 ELSE map[i]]

\* writeConfig() sets all items to what the map has and saves them, which makes the map anew.
WriteMap(t) ==
    /\ map # NoMap
    /\ SaveValues(Shown, t)
    /\ map' = IF ConfigChanged(Shown, t) THEN LoadConfig(map, Shown, listed) ELSE map
    /\ strayed' = {}

\* save() by the program.
SaveSkeleton(t) ==
    /\ Save(t)
    /\ IF map # NoMap /\ ConfigChanged(ref, t)
       THEN map' = LoadConfig(map, ref, listed) /\ strayed' = {}
       ELSE UNCHANGED mapVars

\* The program does something else with the skeleton, of which the map hears nothing.
Past ==
    /\ Step
    /\ map' = map
    /\ strayed' = IF map = NoMap THEN {}
                  ELSE listed' \cap ( strayed \cup {i \in Items : ref'[i] # ref[i]}
                                              \cup (listed' \ listed) )

-----------------------------------------------------------------------------

MapInit == Init /\ map = NoMap /\ strayed = {}

MapNext ==
    \/ Construct
    \/ \E i \in Items, v \in UNION {Values[j] : j \in Items} :
          v \in Values[i] /\ ValueChanged(i, v)
    \/ \E t \in Troubles : WriteMap(t) \/ SaveSkeleton(t)
    \/ Past

MapSpec == MapInit /\ [][MapNext]_<<vars, mapVars>>

-----------------------------------------------------------------------------
(* Safety *)

\* The map shows what the items have, but for the items that were changed past it since it was made:
\* whatever is set in QML, written from there, saved by the program, renamed or removed, also when
\* the lock of the file is taken or the file cannot be written.
MapShows ==
    map # NoMap =>
       \A i \in listed : map[i] # Absent /\ map[i] # ref[i] => i \in strayed
=============================================================================
