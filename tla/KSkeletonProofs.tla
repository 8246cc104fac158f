--------------------------- MODULE KSkeletonProofs ---------------------------
(***************************************************************************)
(* Proofs about KSkeleton and KPropertyMap, for any items, names, texts    *)
(* and files.                                                              *)
(*                                                                         *)
(* Most is true of any program (SkeletonInv); what save() stores is read   *)
(* again only when no two choices of an enumeration have the same text.    *)
(***************************************************************************)
EXTENDS KPropertyMap, TLAPS

-----------------------------------------------------------------------------
(* The skeleton *)

ByItems(f) == f = [i \in Items |-> f[i]]

Shape ==
    /\ program \in Programs /\ listed \subseteq program.items
    /\ dict \in [Names -> Items \cup {NoItem}] /\ name \in [Items -> Names]
    /\ \A i \in listed : name[i] \in {NameOf[i]} \cup OtherNames[i]
    /\ ByItems(ref) /\ ByItems(default) /\ ByItems(loaded) /\ ByItems(heard)
    /\ ByItems(own) /\ ByItems(disk) /\ dirty \subseteq Items

SkeletonInv == Shape /\ DictIsLive /\ ListenersKnow

\* A program has its items among all.
LEMMA OwnItems == ASSUME Shape PROVE program.items \subseteq Items /\ listed \subseteq Items
BY SkeletonAssumption DEF Shape

\* addItem(): an item that is renamed takes its old name with it, and whom the new one was.
LEMMA AddItemKeeps ==
    ASSUME SkeletonInv, NEW i \in Items, NEW n \in {NameOf[i]} \cup OtherNames[i], AddItem(i, n)
    PROVE  SkeletonInv'
<1>1. /\ i \in program.items
      /\ dict' = Named(i, n) /\ name' = [name EXCEPT ![i] = n] /\ listed' = listed \cup {i}
      /\ ref' = [ref EXCEPT ![i] = Current(own, system, i)]
      /\ default' = [default EXCEPT ![i] = Default(i)]
      /\ loaded' = [loaded EXCEPT ![i] = ref'[i]]
      /\ heard' = [heard EXCEPT ![i] = ref'[i]]
      /\ \A j \in Items \ {i} : j \in changed => j \in changed'
      /\ UNCHANGED <<program, own, dirty, disk>>
  BY DEF AddItem, object
<1>2. n \in Names /\ NoItem \notin Items
  BY SkeletonAssumption
<1>3. \A m \in Names : Named(i, n)[m] = IF m = n THEN i
                                        ELSE IF i \in listed /\ m = name[i] THEN NoItem ELSE dict[m]
  BY <1>2 DEF Named, RemovedName, SkeletonInv, Shape
<1>4. dict' \in [Names -> Items \cup {NoItem}]
  BY <1>1, <1>2 DEF Named, RemovedName, SkeletonInv, Shape
<1>5. Shape'
  <2>1. ByItems(ref)' /\ ByItems(default)' /\ ByItems(loaded)' /\ ByItems(heard)'
    BY <1>1 DEF SkeletonInv, Shape, ByItems
  <2>2. ByItems(own)' /\ ByItems(disk)' /\ dirty' \subseteq Items
    BY <1>1 DEF SkeletonInv, Shape, ByItems
  <2>3. /\ program' \in Programs /\ listed' \subseteq program'.items
        /\ name' \in [Items -> Names]
        /\ \A j \in listed' : name'[j] \in {NameOf[j]} \cup OtherNames[j]
    BY <1>1, <1>2, OwnItems DEF SkeletonInv, Shape
  <2>4. QED
    BY <1>4, <2>1, <2>2, <2>3 DEF Shape
<1>6. DictIsLive'
  <2> SUFFICES ASSUME NEW m \in Names, dict'[m] # NoItem
               PROVE  dict'[m] \in listed' /\ name'[dict'[m]] = m
    BY DEF DictIsLive
  <2>1. CASE m = n
    BY <1>1, <1>3, <2>1 DEF SkeletonInv, Shape
  <2>2. CASE m # n
    <3>1. dict'[m] = dict[m] /\ dict[m] \in listed /\ name[dict[m]] = m /\ dict[m] # i
      BY <1>1, <1>3, <2>2 DEF SkeletonInv, DictIsLive
    <3>2. QED
      BY <1>1, <3>1, OwnItems DEF SkeletonInv, Shape
  <2>3. QED
    BY <2>1, <2>2
<1>7. ListenersKnow'
  <2>1. /\ heard'[i] = ref'[i]
        /\ \A j \in listed \ {i} : heard'[j] = heard[j] /\ ref'[j] = ref[j] /\ j \in Items
    BY <1>1, OwnItems DEF SkeletonInv, Shape, ByItems
  <2>2. QED
    BY <1>1, <2>1 DEF SkeletonInv, ListenersKnow
<1>8. QED
  BY <1>5, <1>6, <1>7 DEF SkeletonInv

\* removeItem() and clearItems(): no name leads to what was deleted.
LEMMA DeleteKeeps ==
    ASSUME SkeletonInv,
           ClearItems \/ \E n \in Names : RemoveItem(n)
    PROVE  SkeletonInv'
<1>1. PICK gone, d :
          /\ Delete(gone, d) /\ gone \subseteq listed
          /\ d \in [Names -> Items \cup {NoItem}]
          /\ \A m \in Names : d[m] # NoItem => d[m] = dict[m] /\ d[m] \notin gone
  <2>1. CASE ClearItems
    <3>1. Delete(listed, [n \in Names |-> NoItem])
      BY <2>1 DEF ClearItems
    <3>2. QED
      BY <3>1
  <2>2. CASE \E n \in Names : RemoveItem(n)
    <3>1. PICK n \in Names : RemoveItem(n)
      BY <2>2
    <3>2. /\ dict[n] # NoItem /\ Delete({dict[n]}, RemovedName(dict, name[dict[n]]))
          /\ dict[n] \in listed /\ name[dict[n]] = n
      BY <3>1 DEF RemoveItem, SkeletonInv, DictIsLive
    <3> DEFINE d == RemovedName(dict, n)
    <3>3. d \in [Names -> Items \cup {NoItem}]
      BY DEF RemovedName, SkeletonInv, Shape
    <3>4. \A m \in Names : d[m] # NoItem => d[m] = dict[m] /\ d[m] # dict[n]
      BY <3>2 DEF RemovedName, SkeletonInv, Shape, DictIsLive
    <3> HIDE DEF d
    <3>5. Delete({dict[n]}, d) /\ {dict[n]} \subseteq listed
      BY <3>2 DEF d
    <3>6. QED
      BY <3>3, <3>4, <3>5
  <2>3. QED
    BY <2>1, <2>2
<1>2. /\ listed' = listed \ gone /\ dict' = d
      /\ name' = [i \in Items |-> IF i \in gone THEN NameOf[i] ELSE name[i]]
      /\ ref' = [i \in Items |-> IF i \in gone THEN Builtin[i] ELSE ref[i]]
      /\ default' = [i \in Items |-> IF i \in gone THEN Builtin[i] ELSE default[i]]
      /\ loaded' = [i \in Items |-> IF i \in gone THEN Builtin[i] ELSE loaded[i]]
      /\ heard' = [i \in Items |-> IF i \in gone THEN Builtin[i] ELSE heard[i]]
      /\ changed' = changed \ gone
      /\ UNCHANGED <<program, own, dirty, disk>>
  BY <1>1 DEF Delete, object
<1>3. Shape'
  <2>1. ByItems(ref)' /\ ByItems(default)' /\ ByItems(loaded)' /\ ByItems(heard)'
    BY <1>2 DEF ByItems
  <2>2. /\ name' \in [Items -> Names]
        /\ \A i \in listed' : name'[i] \in {NameOf[i]} \cup OtherNames[i]
    BY <1>2, OwnItems, SkeletonAssumption DEF SkeletonInv, Shape
  <2>3. QED
    BY <1>1, <1>2, <2>1, <2>2 DEF SkeletonInv, Shape, ByItems
<1>4. DictIsLive'
  <2> SUFFICES ASSUME NEW m \in Names, d[m] # NoItem
               PROVE  d[m] \in listed' /\ name'[d[m]] = m
    BY <1>2 DEF DictIsLive
  <2>1. d[m] \in listed /\ d[m] \notin gone /\ name[d[m]] = m /\ d[m] \in Items
    BY <1>1, OwnItems DEF SkeletonInv, DictIsLive
  <2>2. QED
    BY <1>2, <2>1
<1>5. ListenersKnow'
  BY <1>2, OwnItems DEF SkeletonInv, ListenersKnow
<1>6. QED
  BY <1>3, <1>4, <1>5 DEF SkeletonInv

\* Whatever gives items another value tells who listens that it did.
LEMMA ValuesKeep ==
    ASSUME SkeletonInv, Notify(ref), UNCHANGED <<skeleton, heard>>,
           ByItems(ref)', ByItems(default)', ByItems(loaded)', ByItems(own)', ByItems(disk)',
           dirty' \subseteq Items
    PROVE  SkeletonInv'
<1>1. Shape'
  BY DEF SkeletonInv, Shape, skeleton, ByItems
<1>2. DictIsLive'
  BY DEF SkeletonInv, DictIsLive, skeleton
<1>3. ListenersKnow'
  BY DEF SkeletonInv, ListenersKnow, Notify, Told, skeleton
<1>4. QED
  BY <1>1, <1>2, <1>3 DEF SkeletonInv

\* What is in an object after a sync, and in the file.
LEMMA SyncedShape ==
    ASSUME ByItems(disk), NEW c, NEW t,
           c = [own |-> c.own, dirty |-> c.dirty, bDirty |-> c.bDirty],
           ByItems(c.own), c.dirty \subseteq Items
    PROVE  /\ SyncedObject(c, t).own = c.own
           /\ SyncedObject(c, t).dirty \in {c.dirty, {}}
           /\ ByItems(SyncedDisk(c, t))
<1>1. /\ SyncedObject(c, t).own = c.own
      /\ SyncedObject(c, t).dirty \in {c.dirty, {}}
  BY DEF SyncedObject
<1>2. ByItems(SyncedDisk(c, t))
  BY DEF SyncedDisk, Stored, ByItems
<1>3. QED
  BY <1>1, <1>2

\* save(): who listens has heard of what it writes.
LEMMA SaveKeeps ==
    ASSUME SkeletonInv, NEW r, NEW t, ByItems(r), SaveValues(r, t)
    PROVE  SkeletonInv'
<1> DEFINE c == WriteItems(Now, r)
<1>1. /\ ref' = r
      /\ loaded' = [i \in Items |-> IF i \in listed THEN r[i] ELSE loaded[i]]
      /\ heard' = [i \in Items |-> IF i \in Told(ref, r) THEN r[i] ELSE heard[i]]
      /\ own' = SyncedObject(c, t).own /\ dirty' = SyncedObject(c, t).dirty
      /\ disk' = SyncedDisk(c, t)
      /\ UNCHANGED <<skeleton, default>>
  BY DEF SaveValues, EmitSignals, SaveTo, Apply
<1>2. /\ c = [own |-> c.own, dirty |-> c.dirty, bDirty |-> c.bDirty]
      /\ ByItems(c.own) /\ c.dirty \subseteq Items
  BY DEF WriteItems, ByItems
<1> HIDE DEF c
<1>3. ByItems(disk') /\ own' = c.own /\ dirty' \subseteq Items
  BY <1>1, <1>2, SyncedShape DEF SkeletonInv, Shape
<1>4. Shape'
  <2>1. ByItems(heard)' /\ ByItems(loaded)' /\ ByItems(ref)' /\ ByItems(own)' /\ ByItems(disk)'
    BY <1>1, <1>2, <1>3 DEF ByItems
  <2>2. QED
    BY <1>1, <1>3, <2>1 DEF SkeletonInv, Shape, skeleton, ByItems
<1>5. DictIsLive'
  BY <1>1 DEF SkeletonInv, DictIsLive, skeleton
<1>6. ListenersKnow'
  <2> SUFFICES ASSUME NEW i \in Signalling \cap listed, heard'[i] # r[i] PROVE FALSE
    BY <1>1 DEF ListenersKnow, skeleton
  <2>1. i \in Items
    BY OwnItems DEF SkeletonInv
  <2>2. i \notin Told(ref, r) /\ heard[i] # r[i]
    BY <1>1, <2>1
  <2>3. QED
    BY <2>2 DEF Told, SkeletonInv, ListenersKnow
<1>7. QED
  BY <1>4, <1>5, <1>6 DEF SkeletonInv

\* Everything the program does with its skeleton but save().
LEMMA StepKeeps ==
    ASSUME SkeletonInv, Step
    PROVE  SkeletonInv'
<1>1. CASE \E i \in Items, n \in Names :
              n \in {NameOf[i]} \cup OtherNames[i] /\ (AddItemX(i, n) \/ Rename(i, n))
  BY <1>1, AddItemKeeps DEF AddItemX, Rename
<1>2. CASE ClearItems \/ \E n \in Names : RemoveItem(n)
  BY <1>2, DeleteKeeps
<1>3. ASSUME NEW i \in Items, NEW v, Set(i, v) PROVE SkeletonInv'
  <2>1. /\ ref' = [ref EXCEPT ![i] = v] /\ Notify(ref)
        /\ UNCHANGED <<skeleton, default, loaded, heard, object, disk>>
    BY <1>3 DEF Set
  <2>2. ByItems(ref)' /\ ByItems(default)' /\ ByItems(loaded)' /\ ByItems(own)' /\ ByItems(disk)'
    BY <2>1 DEF SkeletonInv, Shape, ByItems, object
  <2>3. QED
    BY <2>1, <2>2, ValuesKeep DEF SkeletonInv, Shape, object
<1>4. CASE SetDefaults
  <2>1. ByItems(ref)' /\ ByItems(default)' /\ ByItems(loaded)' /\ ByItems(own)' /\ ByItems(disk)'
    BY <1>4 DEF SetDefaults, SkeletonInv, Shape, ByItems, object
  <2>2. QED
    BY <1>4, <2>1, ValuesKeep DEF SetDefaults, SkeletonInv, Shape, object
<1>5. ASSUME NEW b \in BOOLEAN, UseDefaults(b) PROVE SkeletonInv'
  <2>1. ByItems(ref)' /\ ByItems(default)' /\ ByItems(loaded)' /\ ByItems(own)' /\ ByItems(disk)'
    BY <1>5 DEF UseDefaults, SkeletonInv, Shape, ByItems, object
  <2>2. QED
    BY <1>5, <2>1, ValuesKeep DEF UseDefaults, SkeletonInv, Shape, object
<1>6. CASE Read
  <2>1. ByItems(ref)' /\ ByItems(default)' /\ ByItems(loaded)' /\ ByItems(own)' /\ ByItems(disk)'
    BY <1>6 DEF Read, ReadFrom, SkeletonInv, Shape, ByItems, object
  <2>2. QED
    BY <1>6, <2>1, ValuesKeep DEF Read, ReadFrom, SkeletonInv, Shape, object
<1>7. ASSUME NEW t \in Troubles, NEW s, Load(t, s) PROVE SkeletonInv'
  <2>1. /\ disk' = SyncedDisk(Now, t) /\ dirty' = {}
        /\ own' = [i \in Items |-> IF i \in Locked(s) THEN Absent ELSE disk'[i]]
        /\ ReadFrom(own', s)
    BY <1>7 DEF Load
  <2>2. ByItems(disk')
    BY <2>1, SyncedShape DEF Now, SkeletonInv, Shape
  <2>3. ByItems(ref)' /\ ByItems(default)' /\ ByItems(loaded)' /\ ByItems(own)'
    BY <2>1 DEF ReadFrom, SkeletonInv, Shape, ByItems
  <2>4. QED
    BY <2>1, <2>2, <2>3, ValuesKeep DEF ReadFrom
<1>8. ASSUME NEW i \in Items, NEW t, OtherProgram(i, t) PROVE SkeletonInv'
  <2>1. /\ disk' = [disk EXCEPT ![i] = t]
        /\ UNCHANGED <<skeleton, items, changed, heard, object>>
    BY <1>8 DEF OtherProgram
  <2>2. Shape'
    BY <2>1 DEF SkeletonInv, Shape, ByItems, skeleton, items, object
  <2>3. QED
    BY <2>1, <2>2 DEF SkeletonInv, DictIsLive, ListenersKnow, skeleton, items
<1>9. QED
  <2>1. \A i \in Items : \A n \in {NameOf[i]} \cup OtherNames[i] : n \in Names
    BY SkeletonAssumption
  <2>2. \A i \in Items : \A v : SetX(i, v) \/ SetProperty(i, v) => \E w : Set(i, w)
    BY DEF SetX, SetProperty
  <2>3. QED
    BY <1>1, <1>2, <1>3, <1>4, <1>5, <1>6, <1>7, <1>8, <2>1, <2>2 DEF Step

-----------------------------------------------------------------------------
(* The map *)

\* What the map has is of items of its program.
MapShape ==
    map # NoMap =>
        /\ program.mapped /\ ByItems(map)
        /\ \A i \in Items : map[i] # Absent => i \in program.items

MapInv == SkeletonInv /\ MapShape /\ MapShows

\* A map that is loaded has what the items have.
LEMMA LoadConfigShows ==
    ASSUME NEW m, NEW r, NEW present \in SUBSET Items
    PROVE  /\ ByItems(LoadConfig(m, r, present))
           /\ \A i \in present : LoadConfig(m, r, present)[i] = r[i]
           /\ \A i \in Items : LoadConfig(m, r, present)[i] # Absent =>
                  i \in present \/ (m # NoMap /\ m[i] # Absent)
BY DEF LoadConfig, ByItems

\* The program and the map's program are one.
LEMMA SameProgram == MapNext => program' = program
BY DEF MapNext, Construct, vars, skeleton, ValueChanged, Set, WriteMap, SaveValues, SaveSkeleton,
       Save, Past, Step, AddItemX, Rename, AddItem, RemoveItem, ClearItems, Delete, SetX, SetProperty,
       SetDefaults, UseDefaults, Read, ReadFrom, Load, OtherProgram

\* The map that is made shows what the items have.
LEMMA ConstructShows ==
    ASSUME MapInv, Construct
    PROVE  MapInv'
<1>1. /\ program.mapped /\ map = NoMap /\ map' = LoadConfig(map, ref, listed) /\ UNCHANGED vars
  BY DEF Construct
<1>2. SkeletonInv'
  BY <1>1 DEF MapInv, SkeletonInv, Shape, DictIsLive, ListenersKnow, ByItems, vars, skeleton, items,
              object
<1>3. listed \subseteq Items /\ listed \subseteq program.items
  BY OwnItems DEF MapInv, SkeletonInv, Shape
<1>4. MapShape'
  BY <1>1, <1>3, LoadConfigShows DEF MapShape, vars, skeleton, ByItems
<1>5. MapShows'
  BY <1>1, <1>3, LoadConfigShows DEF MapShows, vars, skeleton, items
<1>6. QED
  BY <1>2, <1>4, <1>5 DEF MapInv

\* A key that is the name of an item is the key of that item.
LEMMA KeyIsName ==
    ASSUME SkeletonInv, program.mapped, NEW i \in program.items, dict[KeyOf[i]] # NoItem
    PROVE  dict[KeyOf[i]] = i
<1> DEFINE j == dict[KeyOf[i]]
<1>1. i \in Items
  BY OwnItems DEF SkeletonInv
<1>2. KeyOf[i] \in Names
  BY <1>1, KeyAssumption
<1>3. j \in listed /\ name[j] = KeyOf[i]
  BY <1>2 DEF SkeletonInv, DictIsLive
<1>4. j \in program.items /\ name[j] \in {NameOf[j]} \cup OtherNames[j] /\ program \in Programs
  BY <1>3 DEF SkeletonInv, Shape
<1>5. KeyOf[i] \in {NameOf[j]} \cup OtherNames[j]
  BY <1>3, <1>4
<1> HIDE DEF j
<1>6. \A k \in program.items : i # k => KeyOf[i] \notin {NameOf[k]} \cup OtherNames[k]
  BY <1>4, KeyAssumption
<1>7. j = i
  BY <1>4, <1>5, <1>6
<1>8. QED
  BY <1>7 DEF j

\* What QML sets is what the item with that key gets.
LEMMA ValueChangedShows ==
    ASSUME MapInv, NEW i \in Items, NEW v, ValueChanged(i, v)
    PROVE  MapInv'
<1>1. map # NoMap /\ map[i] # Absent /\ map' = [map EXCEPT ![i] = v]
  BY DEF ValueChanged
<1>2. program.mapped /\ ByItems(map) /\ i \in program.items
  BY <1>1 DEF MapInv, MapShape
<1>3. program' = program
  BY DEF ValueChanged, Set, vars, skeleton
<1>4. MapShape'
  BY <1>1, <1>2, <1>3 DEF MapInv, MapShape, ByItems
<1>5. CASE dict[KeyOf[i]] # NoItem
  <2>1. dict[KeyOf[i]] = i
    BY <1>2, <1>5, KeyIsName DEF MapInv
  <2>2. SetProperty(i, v) /\ strayed' = strayed \ {i}
    <3>1. i \in listed
      BY <1>2, <2>1, <1>5, KeyAssumption DEF MapInv, SkeletonInv, DictIsLive
    <3>2. QED
      BY <1>5, <2>1, <3>1 DEF ValueChanged, SetProperty
  <2>3. /\ ref' = [ref EXCEPT ![i] = v] /\ Notify(ref)
        /\ UNCHANGED <<skeleton, default, loaded, heard, object, disk>>
    BY <2>2 DEF SetProperty, Set
  <2>4. SkeletonInv'
    <3>1. /\ ByItems(ref)' /\ ByItems(default)' /\ ByItems(loaded)'
          /\ ByItems(own)' /\ ByItems(disk)'
      BY <2>3 DEF MapInv, SkeletonInv, Shape, ByItems, object
    <3>2. QED
      BY <2>3, <3>1, ValuesKeep DEF MapInv, SkeletonInv, Shape, object
  <2>5. \A j \in Items : /\ map'[j] = IF j = i THEN v ELSE map[j]
                         /\ ref'[j] = IF j = i THEN v ELSE ref[j]
    BY <1>1, <1>2, <2>3 DEF MapInv, SkeletonInv, Shape, ByItems
  <2>6. MapShows'
    BY <1>1, <2>2, <2>3, <2>5, OwnItems DEF MapInv, SkeletonInv, MapShows, skeleton
  <2>7. QED
    BY <1>4, <2>4, <2>6 DEF MapInv
<1>6. CASE dict[KeyOf[i]] = NoItem
  <2>1. UNCHANGED vars /\ strayed' = strayed \cup ({i} \cap listed)
    BY <1>6 DEF ValueChanged
  <2>2. SkeletonInv'
    BY <2>1 DEF MapInv, SkeletonInv, Shape, DictIsLive, ListenersKnow, ByItems, vars, skeleton,
                items, object
  <2>3. \A j \in Items \ {i} : map'[j] = map[j]
    BY <1>1, <1>2 DEF ByItems
  <2>4. MapShows'
    BY <1>1, <2>1, <2>3, OwnItems DEF MapInv, SkeletonInv, MapShows, vars, skeleton, items
  <2>5. QED
    BY <1>4, <2>2, <2>4 DEF MapInv
<1>7. QED
  BY <1>5, <1>6

\* What is written from QML, or saved by the program, is shown, whether or not the map is made anew.
LEMMA SaveShows ==
    ASSUME MapInv, NEW t, WriteMap(t) \/ SaveSkeleton(t)
    PROVE  MapInv'
<1>1. listed \subseteq Items /\ listed \subseteq program.items /\ ByItems(ref)
  BY OwnItems DEF MapInv, SkeletonInv, Shape
<1>2. ASSUME NEW r, SaveValues(r, t), ByItems(r),
             map' = map \/ (map # NoMap /\ map' = LoadConfig(map, r, listed)),
             map' = map => \A i \in listed : map # NoMap /\ map[i] # Absent /\ map[i] # r[i]
                              => i \in strayed'
      PROVE  MapInv'
  <2>1. SkeletonInv' /\ ref' = r /\ UNCHANGED skeleton
    BY <1>2, SaveKeeps DEF MapInv, SaveValues
  <2>2. CASE map' = map
    BY <1>2, <2>1, <2>2 DEF MapInv, MapShape, MapShows, skeleton, ByItems
  <2>3. CASE map' = LoadConfig(map, r, listed) /\ map # NoMap
    <3>1. MapShape'
      BY <1>1, <2>1, <2>3, LoadConfigShows DEF MapInv, MapShape, skeleton, ByItems
    <3>2. MapShows'
      BY <1>1, <2>1, <2>3, LoadConfigShows DEF MapShows, skeleton
    <3>3. QED
      BY <2>1, <3>1, <3>2 DEF MapInv
  <2>4. QED
    BY <1>2, <2>2, <2>3
<1>3. CASE WriteMap(t)
  <2>1. /\ map # NoMap /\ SaveValues(Shown, t) /\ strayed' = {}
        /\ map' = map \/ map' = LoadConfig(map, Shown, listed)
    BY <1>3 DEF WriteMap
  <2>2. ByItems(Shown) /\ \A i \in listed : map[i] # Absent => Shown[i] = map[i]
    BY <1>1 DEF Shown, ByItems
  <2>3. QED
    BY <1>2, <2>1, <2>2
<1>4. CASE SaveSkeleton(t)
  <2>1. /\ SaveValues(ref, t)
        /\ map' = map \/ (map # NoMap /\ map' = LoadConfig(map, ref, listed))
    BY <1>4 DEF SaveSkeleton, Save, mapVars
  <2>2. map' = map => \A i \in listed : map # NoMap /\ map[i] # Absent /\ map[i] # ref[i]
                        => i \in strayed'
    <3>1. CASE UNCHANGED mapVars
      BY <3>1 DEF MapInv, MapShows, mapVars
    <3>2. CASE map' = LoadConfig(map, ref, listed)
      <4>1. \A i \in listed : map'[i] = ref[i]
        BY <1>1, <3>2, LoadConfigShows
      <4>2. QED
        BY <4>1
    <3>3. QED
      BY <1>4, <3>1, <3>2 DEF SaveSkeleton
  <2>3. QED
    BY <1>1, <1>2, <2>1, <2>2
<1>5. QED
  BY <1>3, <1>4

\* What happens past the map goes astray at most.
LEMMA PastShows ==
    ASSUME MapInv, Past
    PROVE  MapInv'
<1>1. /\ Step /\ map' = map
      /\ strayed' = IF map = NoMap THEN {}
                    ELSE listed' \cap (strayed \cup {i \in Items : ref'[i] # ref[i]}
                                                \cup (listed' \ listed))
  BY DEF Past
<1>2. SkeletonInv' /\ program' = program
  BY <1>1, StepKeeps, SameProgram DEF MapInv, MapNext
<1>3. MapShape'
  BY <1>1, <1>2 DEF MapInv, MapShape, ByItems
<1>4. listed' \subseteq Items
  <2>1. program'.items \subseteq Items
    BY <1>2, OwnItems DEF MapInv, SkeletonInv
  <2>2. QED
    BY <1>2, <2>1 DEF SkeletonInv, Shape
<1>5. MapShows'
  BY <1>1, <1>4 DEF MapInv, MapShows
<1>6. QED
  BY <1>2, <1>3, <1>5 DEF MapInv

\* A program starts without items and without a map.
LEMMA MapInitShows == MapInit => MapInv
<1> SUFFICES ASSUME MapInit PROVE MapInv
  OBVIOUS
<1>1. Shape
  BY SkeletonAssumption DEF MapInit, Init, Shape, ByItems
<1>2. QED
  BY <1>1 DEF MapInit, Init, MapInv, SkeletonInv, DictIsLive, ListenersKnow, MapShape, MapShows

\* What the program and QML do keeps all that.
LEMMA MapInvariant == MapSpec => []MapInv
<1>1. ASSUME MapInv, [MapNext]_<<vars, mapVars>> PROVE MapInv'
  <2>1. CASE UNCHANGED <<vars, mapVars>>
    BY <1>1, <2>1 DEF MapInv, SkeletonInv, Shape, DictIsLive, ListenersKnow, MapShape, MapShows,
                      ByItems, vars, mapVars, skeleton, items, object
  <2>2. QED
    BY <1>1, <2>1, ConstructShows, ValueChangedShows, SaveShows, PastShows DEF MapNext
<1>2. QED
  BY MapInitShows, <1>1, PTL DEF MapSpec

\* findItem() and removeItem() never find an item that was deleted, nor one under a name it gave up,
\* whatever was added, renamed and removed.
THEOREM DictAlwaysLive == MapSpec => []DictIsLive
<1>1. MapInv => DictIsLive
  BY DEF MapInv, SkeletonInv
<1>2. QED
  BY <1>1, MapInvariant, PTL

\* Who listens to an item's signal knows its value, or the signal is due with the next save().
THEOREM ListenersAlwaysKnow == MapSpec => []ListenersKnow
<1>1. MapInv => ListenersKnow
  BY DEF MapInv, SkeletonInv
<1>2. QED
  BY <1>1, MapInvariant, PTL

\* The property map shows what the items have, but for what was changed past it.
THEOREM MapAlwaysShows == MapSpec => []MapShows
<1>1. MapInv => MapShows
  BY DEF MapInv
<1>2. QED
  BY <1>1, MapInvariant, PTL

-----------------------------------------------------------------------------
(* What is stored *)

\* save() of some values is save() of those the items have then.
LEMMA SavesItsValues ==
    ASSUME NEW r, NEW t \in Troubles, SaveValues(r, t)
    PROVE  SaveValues(ref', t)
<1>1. ref' = r
  BY DEF SaveValues
<1>2. QED
  BY <1>1 DEF SaveValues

\* save() writes what it has to write of each item.
LEMMA WrittenItems ==
    ASSUME NEW r
    PROVE  \A i \in Items :
               /\ WriteItems(Now, r).own[i] =
                      IF ToWrite(i, r) THEN WriteConfig(Now, i, r[i]).own[i] ELSE own[i]
               /\ i \in WriteItems(Now, r).dirty <=>
                      IF ToWrite(i, r) THEN i \in WriteConfig(Now, i, r[i]).dirty ELSE i \in dirty
BY DEF WriteItems, Now

\* What is pending, or what other programs do, is all that changes the file but save().
LEMMA StepStores ==
    ASSUME SkeletonInv, Step, NEW i \in Items, disk'[i] # disk[i]
    PROVE  i \in dirty \/ \E t \in OtherTexts[i] : OtherProgram(i, t)
<1>1. ASSUME NEW j \in Items, NEW t \in OtherTexts[j], OtherProgram(j, t)
      PROVE  \E x \in OtherTexts[i] : OtherProgram(i, x)
  BY <1>1 DEF OtherProgram, SkeletonInv, Shape, ByItems
<1>2. ASSUME NEW t \in Troubles, NEW s, Load(t, s) PROVE i \in dirty
  BY <1>2 DEF Load, SyncedDisk, Stored, Now
<1>3. UNCHANGED disk \/ (\E j \in Items : \E t \in OtherTexts[j] : OtherProgram(j, t))
                     \/ (\E t \in Troubles, s \in {system} \cup LaterSystems : Load(t, s))
  BY DEF Step, AddItemX, Rename, AddItem, RemoveItem, ClearItems, Delete, SetX, SetProperty, Set,
         SetDefaults, UseDefaults, Read
<1>4. QED
  BY <1>1, <1>2, <1>3

\* save(), load() and what QML does change no key of the file but those of items that were changed,
\* so no item undoes what another program wrote.
THEOREM OthersAlwaysKept == MapSpec => OthersKept
<1>1. ASSUME MapInv, [MapNext]_<<vars, mapVars>>
      PROVE  [\A i \in Items : disk'[i] # disk[i] =>
                  \/ \E t \in OtherTexts[i] : OtherProgram(i, t)
                  \/ Saves /\ i \in listed /\ ref'[i] # loaded[i]
                  \/ i \in dirty]_vars
  <2> SUFFICES ASSUME MapNext, NEW i \in Items, disk'[i] # disk[i]
               PROVE  \/ \E t \in OtherTexts[i] : OtherProgram(i, t)
                      \/ Saves /\ i \in listed /\ ref'[i] # loaded[i]
                      \/ i \in dirty
    BY <1>1 DEF vars
  <2>1. ASSUME NEW r, NEW t \in Troubles, SaveValues(r, t)
        PROVE  (Saves /\ i \in listed /\ ref'[i] # loaded[i]) \/ i \in dirty
    <3>1. Saves
      BY <2>1, SavesItsValues DEF Saves
    <3>2. ref' = r /\ disk' = SyncedDisk(WriteItems(Now, r), t)
      BY <2>1 DEF SaveValues, SaveTo
    <3>3. i \in WriteItems(Now, r).dirty
      BY <3>2 DEF SyncedDisk, Stored
    <3>4. i \in dirty \/ ToWrite(i, r)
      BY <3>3, WrittenItems
    <3>5. QED
      BY <3>1, <3>2, <3>4 DEF ToWrite
  <2>2. CASE \E t \in Troubles : WriteMap(t) \/ SaveSkeleton(t)
    BY <2>1, <2>2 DEF WriteMap, SaveSkeleton, Save
  <2>3. CASE Past
    BY <1>1, <2>3, StepStores DEF Past, MapInv
  <2>4. CASE Construct \/ \E j \in Items : \E v : ValueChanged(j, v)
    BY <2>4 DEF Construct, ValueChanged, Set, vars
  <2>5. QED
    BY <2>2, <2>3, <2>4 DEF MapNext
<1>2. QED
  BY <1>1, MapInvariant, PTL DEF MapSpec, OthersKept

-----------------------------------------------------------------------------
(* Texts and values *)

\* What the kinds of items write and read.
LEMMA PrintCases ==
    ASSUME NEW i, NEW v
    PROVE  /\ Kind[i] = "enum" => PrintItem(i, v) = PrintEnum(i, v)
           /\ Kind[i] \in {"path", "password"} => PrintItem(i, v) = PrintString(i, v)
           /\ Kind[i] \notin {"enum", "path", "password"} => PrintItem(i, v) = NumberText(v)
BY Zenon DEF PrintItem

\* The same for what they read.
LEMMA ParseCases ==
    ASSUME NEW i, NEW t
    PROVE  /\ Kind[i] = "number" => ParseItem(i, t) = ParseNumber(i, t)
           /\ Kind[i] = "enum" => ParseItem(i, t) = ParseEnum(i, t)
           /\ Kind[i] = "plain" => ParseItem(i, t) = ParsePlain(i, t)
           /\ Kind[i] \notin {"number", "enum", "plain"} => ParseItem(i, t) = ParseString(i, t)
BY Zenon DEF ParseItem

\* No two choices of an enumeration are stored the same way, and none as a number is.
Distinct ==
    \A i \in Items : Kind[i] = "enum" =>
        \A c \in DOMAIN Choices[i] :
            /\ Choices[i][c][1] # "number"
            /\ \A e \in DOMAIN Choices[i] : Choices[i][c] = Choices[i][e] => c = e

OkText(i, t) == t = Absent \/ IsText(i, t)

\* What is read from a text, or without one, is a number, clamped or not.
LEMMA ParseIntType ==
    ASSUME NEW i \in Items, NEW t, OkText(i, t), NEW d \in Int
    PROVE  ParseInt(t, d) \in Int
BY DEF ParseInt, OkText, IsText

\* A range leaves a number one.
LEMMA ClampType ==
    ASSUME NEW i \in Items, NEW v \in Int
    PROVE  Clamp(i, v) \in Int
<1>1. Low[i] \in Int \cup {NoBound} /\ High[i] \in Int \cup {NoBound}
  BY SkeletonAssumption
<1>2. QED
  BY <1>1 DEF Clamp, AtLeast, AtMost

\* A text that one choice has reads as that.
LEMMA ParseEnumValue ==
    ASSUME NEW i \in Items, NEW t, NEW c \in Nat, Kind[i] = "enum",
           {e \in DOMAIN Choices[i] : Choices[i][e] = t} = {c}
    PROVE  ParseItem(i, t) = c - 1
<1> DEFINE matching == {e \in DOMAIN Choices[i] : Choices[i][e] = t}
           first == CHOOSE x \in matching : \A e \in matching : x <= e
<1>1. ParseItem(i, t) = IF matching = {} THEN ParseInt(t, Builtin[i]) ELSE first - 1
  BY ParseCases, Zenon DEF ParseEnum
<1>2. matching = {c}
  OBVIOUS
<1> HIDE DEF matching
<1>3. \E x \in matching : \A e \in matching : x <= e
  BY <1>2
<1>4. first \in matching
  BY <1>3
<1> HIDE DEF first
<1>5. QED
  BY <1>1, <1>2, <1>4

\* Whatever the item makes of a text is a value.
LEMMA ParseType ==
    ASSUME Distinct, NEW i \in Items, NEW t, OkText(i, t)
    PROVE  ParseItem(i, t) \in Int
<1>1. Builtin[i] \in Int /\ Kind[i] \in {"number", "enum", "password", "path", "plain"}
  BY SkeletonAssumption
<1>2. ParseInt(t, Builtin[i]) \in Int
  BY <1>1, ParseIntType
<1>3. CASE Kind[i] = "number"
  BY <1>2, <1>3, ClampType, ParseCases DEF ParseNumber
<1>4. CASE Kind[i] = "enum"
  <2> DEFINE matching == {c \in DOMAIN Choices[i] : Choices[i][c] = t}
  <2>1. CASE matching = {}
    BY <1>2, <1>4, <2>1, ParseCases DEF ParseEnum
  <2>2. CASE matching # {}
    <3>1. PICK c \in matching : TRUE
      BY <2>2
    <3>2. matching = {c} /\ c \in Nat
      BY <1>4, <3>1, TextAssumption DEF Distinct
    <3>3. ParseItem(i, t) = c - 1
      BY <1>4, <3>2, ParseEnumValue
    <3>4. QED
      BY <3>2, <3>3
  <2>3. QED
    BY <2>1, <2>2
<1>5. CASE Kind[i] = "plain"
  BY <1>2, <1>5, ParseCases DEF ParsePlain
<1>6. CASE Kind[i] = "path"
  <2>1. ParseItem(i, t) = IF t = Absent THEN Builtin[i] ELSE t[2]
    BY <1>6, ParseCases DEF ParseString
  <2>2. QED
    BY <1>1, <1>6, <2>1 DEF OkText, IsText
<1>7. CASE Kind[i] = "password"
  <2>1. ParseItem(i, t) = Obscured(ParseInt(t, Obscured(Builtin[i])))
    BY <1>7, ParseCases DEF ParseString
  <2>2. Obscured(Builtin[i]) \in Int
    BY <1>1 DEF Obscured
  <2>3. ParseInt(t, Obscured(Builtin[i])) \in Int
    BY <2>2, ParseIntType
  <2>4. QED
    BY <2>1, <2>3 DEF Obscured
<1>8. QED
  BY <1>1, <1>3, <1>4, <1>5, <1>6, <1>7

\* The text of a number is that number's.
LEMMA NumberTextRead ==
    ASSUME NEW v \in Int
    PROVE  /\ NumberText(v) # Absent /\ NumberText(v)[1] = "number" /\ NumberText(v)[2] = v
           /\ \A d : ParseInt(NumberText(v), d) = v
<1>1. NumberText(v) \in {"number", "path"} \X Int
  BY DEF NumberText
<1>2. NumberText(v) # Absent /\ NumberText(v)[1] = "number" /\ NumberText(v)[2] = v
  BY <1>1, TextAssumption DEF NumberText
<1> HIDE DEF NumberText
<1>3. QED
  BY <1>2 DEF ParseInt

\* What an item of any kind writes is a text, and reads as what was written, if that is in range.
LEMMA WrittenIsRead ==
    ASSUME Distinct, NEW i \in Items, NEW v \in Int
    PROVE  /\ PrintItem(i, v) # Absent /\ IsText(i, PrintItem(i, v))
           /\ InRange(i, v) => ParseItem(i, PrintItem(i, v)) = v
<1>1. Kind[i] \in {"number", "enum", "password", "path", "plain"}
  BY SkeletonAssumption
<1>2. CASE Kind[i] \in {"number", "plain"}
  <2>1. PrintItem(i, v) = NumberText(v)
    BY <1>2, PrintCases
  <2>2. ParseItem(i, NumberText(v)) = IF Kind[i] = "number" THEN Clamp(i, v) ELSE v
    BY <1>2, NumberTextRead, ParseCases DEF ParseNumber, ParsePlain
  <2>3. QED
    BY <2>1, <2>2, NumberTextRead DEF InRange, IsText
<1>3. CASE Kind[i] = "enum" /\ v + 1 \in DOMAIN Choices[i]
  <2> DEFINE t == Choices[i][v + 1]
  <2>1. PrintItem(i, v) = t /\ t # Absent /\ IsText(i, t)
    BY <1>3, PrintCases, TextAssumption DEF PrintEnum
  <2>2. {c \in DOMAIN Choices[i] : Choices[i][c] = t} = {v + 1}
    BY <1>3 DEF Distinct
  <2>3. v + 1 \in Nat
    BY <1>3, TextAssumption
  <2> HIDE DEF t
  <2>4. ParseItem(i, t) = (v + 1) - 1
    BY <1>3, <2>2, <2>3, ParseEnumValue
  <2>5. QED
    BY <2>1, <2>4
<1>4. CASE Kind[i] = "enum" /\ v + 1 \notin DOMAIN Choices[i]
  <2>1. PrintItem(i, v) = NumberText(v)
    BY <1>4, PrintCases DEF PrintEnum
  <2>2. {c \in DOMAIN Choices[i] : Choices[i][c] = NumberText(v)} = {}
    BY <1>4, NumberTextRead DEF Distinct
  <2>3. ParseItem(i, NumberText(v)) = ParseInt(NumberText(v), Builtin[i])
    BY <1>4, <2>2, ParseCases, Zenon DEF ParseEnum
  <2>4. QED
    BY <2>1, <2>3, NumberTextRead DEF IsText
<1>5. CASE Kind[i] = "password"
  <2>1. PrintItem(i, v) = NumberText(Obscured(v)) /\ Obscured(v) \in Int
    BY <1>5, PrintCases DEF PrintString, Obscured
  <2>2. ParseItem(i, NumberText(Obscured(v))) = Obscured(Obscured(v))
    BY <1>5, <2>1, NumberTextRead, ParseCases DEF ParseString
  <2>3. Obscured(Obscured(v)) = v
    BY DEF Obscured
  <2>4. QED
    BY <2>1, <2>2, <2>3, NumberTextRead DEF IsText
<1>6. CASE Kind[i] = "path"
  <2>1. PrintItem(i, v) = <<"path", v>>
    BY <1>6, PrintCases DEF PrintString
  <2>2. <<"path", v>> \in {"number", "path"} \X Int
    OBVIOUS
  <2>3. <<"path", v>> # Absent /\ <<"path", v>>[2] = v
    BY <2>2, TextAssumption
  <2>4. ParseItem(i, <<"path", v>>) = v
    BY <1>6, <2>3, ParseCases DEF ParseString
  <2>5. QED
    BY <2>1, <2>3, <2>4 DEF IsText
<1>7. QED
  BY <1>1, <1>2, <1>3, <1>4, <1>5, <1>6

-----------------------------------------------------------------------------
(* What save() stores is read *)

AreValues(r) == \A i \in Items : r[i] \in Int

AreTexts(o) == \A i \in Items : OkText(i, o[i])

ItemTypes ==
    /\ system \in Systems \cup LaterSystems
    /\ AreValues(ref) /\ AreValues(default)
    /\ AreTexts(own) /\ AreTexts(disk)
    /\ map # NoMap => \A i \in Items : map[i] \in Int \cup {Absent}

\* What an item reads in a program is a value, from whatever file.
LEMMA CurrentType ==
    ASSUME Distinct, NEW s \in Systems \cup LaterSystems, NEW o, AreTexts(o), NEW i \in Items
    PROVE  Current(o, s, i) \in Int /\ DefaultOf(s, i) \in Int
<1>1. OkText(i, s[i].text)
  BY TextAssumption DEF OkText
<1>2. OkText(i, Lookup(o, s, i))
  BY <1>1 DEF Lookup, AreTexts
<1>3. QED
  BY <1>1, <1>2, ParseType DEF Current, DefaultOf

\* The entries stay texts in a sync, in the object and in the file.
LEMMA SyncedTexts ==
    ASSUME AreTexts(disk), NEW c, NEW t, AreTexts(c.own)
    PROVE  AreTexts(SyncedDisk(c, t))
BY DEF SyncedDisk, Stored, AreTexts

\* So do those the items write.
LEMMA WrittenTexts ==
    ASSUME Distinct, ByItems(own), AreTexts(own), NEW r, AreValues(r)
    PROVE  AreTexts(WriteItems(Now, r).own)
<1> SUFFICES ASSUME NEW i \in Items PROVE OkText(i, WriteItems(Now, r).own[i])
  BY DEF AreTexts
<1> DEFINE w == WriteConfig(Now, i, r[i])
<1>1. OkText(i, own[i]) /\ OkText(i, Absent) /\ OkText(i, PrintItem(i, r[i]))
  BY WrittenIsRead DEF AreTexts, AreValues, OkText
<1>2. WriteItems(Now, r).own[i] = IF ToWrite(i, r) THEN w.own[i] ELSE own[i]
  BY WrittenItems
<1>3. w.own \in {own, [own EXCEPT ![i] = Absent], [own EXCEPT ![i] = PrintItem(i, r[i])]}
  BY DEF WriteConfig, Revert, WriteEntry, Now
<1> HIDE DEF w
<1>4. w.own[i] \in {own[i], Absent, PrintItem(i, r[i])}
  BY <1>3 DEF ByItems
<1>5. QED
  BY <1>1, <1>2, <1>4

\* save() keeps the types, ...
LEMMA SaveTypes ==
    ASSUME Distinct, SkeletonInv, ItemTypes, NEW r, NEW t, AreValues(r),
           SaveValues(r, t), map' = map \/ map' = LoadConfig(map, r, listed)
    PROVE  ItemTypes'
<1> DEFINE c == WriteItems(Now, r)
<1>1. /\ ref' = r /\ own' = SyncedObject(c, t).own /\ disk' = SyncedDisk(c, t)
      /\ UNCHANGED <<default, system>>
  BY DEF SaveValues, SaveTo, Apply
<1>2. AreTexts(c.own) /\ AreTexts(disk)
  BY WrittenTexts DEF ItemTypes, SkeletonInv, Shape
<1>3. c = [own |-> c.own, dirty |-> c.dirty, bDirty |-> c.bDirty]
  BY DEF WriteItems
<1> HIDE DEF c
<1>4. own' = c.own
  BY <1>1, <1>3 DEF SyncedObject
<1>5. AreTexts(disk') /\ AreTexts(own')
  BY <1>1, <1>2, <1>4, SyncedTexts
<1>6. map' # NoMap => \A i \in Items : map'[i] \in Int \cup {Absent}
  BY DEF ItemTypes, LoadConfig, AreValues
<1>7. QED
  BY <1>1, <1>5, <1>6 DEF ItemTypes, AreValues, AreTexts

\* ... and so does everything else.
LEMMA StepTypes ==
    ASSUME Distinct, SkeletonInv, ItemTypes, Step, map' = map
    PROVE  ItemTypes'
<1>1. /\ AreValues(ref) /\ AreValues(default) /\ AreTexts(own) /\ AreTexts(disk)
      /\ system \in Systems \cup LaterSystems
      /\ map' # NoMap => \A i \in Items : map'[i] \in Int \cup {Absent}
  BY DEF ItemTypes
<1>2. ASSUME UNCHANGED <<object, disk, system>>, AreValues(ref'), AreValues(default')
      PROVE  ItemTypes'
  BY <1>1, <1>2 DEF ItemTypes, AreValues, AreTexts, object
<1>3. ASSUME NEW i \in Items, NEW n, AddItem(i, n) PROVE ItemTypes'
  <2>1. Current(own, system, i) \in Int /\ Default(i) \in Int
    BY <1>1, CurrentType DEF Default
  <2>2. AreValues(ref') /\ AreValues(default')
    BY <1>1, <1>3, <2>1 DEF AddItem, AreValues, SkeletonInv, Shape, ByItems
  <2>3. QED
    BY <1>2, <1>3, <2>2 DEF AddItem
<1>4. ASSUME NEW gone, NEW d, Delete(gone, d) PROVE ItemTypes'
  <2>1. AreValues(ref') /\ AreValues(default')
    BY <1>1, <1>4, SkeletonAssumption DEF Delete, AreValues
  <2>2. QED
    BY <1>2, <1>4, <2>1 DEF Delete
<1>5. ASSUME NEW i \in Items, NEW v \in Int, Set(i, v) PROVE ItemTypes'
  <2>1. AreValues(ref') /\ AreValues(default')
    BY <1>1, <1>5 DEF Set, AreValues, SkeletonInv, Shape, ByItems
  <2>2. QED
    BY <1>2, <1>5, <2>1 DEF Set
<1>6. ASSUME NEW i \in Items, NEW v \in Values[i], SetX(i, v) \/ SetProperty(i, v) PROVE ItemTypes'
  <2>1. v \in Int /\ Clamp(i, v) \in Int
    BY ClampType, SkeletonAssumption
  <2>2. QED
    BY <1>5, <1>6, <2>1 DEF SetX, SetProperty
<1>7. ASSUME SetDefaults \/ \E b \in BOOLEAN : UseDefaults(b) PROVE ItemTypes'
  <2>1. AreValues(ref') /\ AreValues(default') /\ UNCHANGED <<object, disk, system>>
    BY <1>1, <1>7 DEF SetDefaults, UseDefaults, AreValues
  <2>2. QED
    BY <1>2, <2>1
<1>8. ASSUME NEW o, NEW s \in Systems \cup LaterSystems, AreTexts(o), ReadFrom(o, s)
      PROVE  AreValues(ref') /\ AreValues(default')
  <2>1. \A i \in Items : Current(o, s, i) \in Int
    BY <1>8, CurrentType
  <2>2. QED
    BY <1>1, <1>8, <2>1 DEF ReadFrom, AreValues
<1>9. CASE Read
  BY <1>1, <1>2, <1>8, <1>9 DEF Read
<1>10. ASSUME NEW t \in Troubles, NEW s \in Systems \cup LaterSystems, Load(t, s) PROVE ItemTypes'
  <2>1. /\ system' = s /\ disk' = SyncedDisk(Now, t) /\ ReadFrom(own', s)
        /\ own' = [i \in Items |-> IF i \in Locked(s) THEN Absent ELSE disk'[i]]
    BY <1>10 DEF Load
  <2>2. AreTexts(disk')
    BY <1>1, <2>1, SyncedTexts DEF Now
  <2>3. AreTexts(own')
    BY <2>1, <2>2 DEF AreTexts, OkText
  <2>4. AreValues(ref') /\ AreValues(default')
    BY <1>8, <2>1, <2>3
  <2>5. QED
    BY <1>1, <2>1, <2>2, <2>3, <2>4 DEF ItemTypes, AreValues, AreTexts
<1>11. ASSUME NEW i \in Items, NEW t \in OtherTexts[i], OtherProgram(i, t) PROVE ItemTypes'
  <2>1. disk' = [disk EXCEPT ![i] = t] /\ UNCHANGED <<items, object, system>>
    BY <1>11 DEF OtherProgram
  <2>2. AreTexts(disk')
    BY <1>1, <2>1, TextAssumption DEF AreTexts, OkText, SkeletonInv, Shape, ByItems
  <2>3. QED
    BY <1>1, <2>1, <2>2 DEF ItemTypes, AreValues, AreTexts, items, object
<1>12. QED
  BY <1>1, <1>3, <1>4, <1>6, <1>7, <1>9, <1>10, <1>11
     DEF Step, AddItemX, Rename, RemoveItem, ClearItems

\* All calls keep the types.
LEMMA MapTypes ==
    ASSUME Distinct, MapInv, ItemTypes, MapNext
    PROVE  ItemTypes'
<1>1. SkeletonInv /\ AreValues(ref)
  BY DEF MapInv, ItemTypes
<1>2. CASE Construct
  <2>1. map' = LoadConfig(map, ref, listed) /\ UNCHANGED vars
    BY <1>2 DEF Construct
  <2>2. map' # NoMap => \A i \in Items : map'[i] \in Int \cup {Absent}
    BY <1>1, <2>1 DEF ItemTypes, LoadConfig, AreValues
  <2>3. QED
    BY <2>1, <2>2 DEF ItemTypes, AreValues, AreTexts, vars, items, object
<1>3. ASSUME NEW i \in Items, NEW v \in Values[i], ValueChanged(i, v) PROVE ItemTypes'
  <2>1. v \in Int
    BY SkeletonAssumption
  <2>2. map' # NoMap => \A j \in Items : map'[j] \in Int \cup {Absent}
    BY <1>3, <2>1 DEF ValueChanged, ItemTypes, MapInv, MapShape, ByItems
  <2>3. CASE dict[KeyOf[i]] # NoItem
    <3> DEFINE j == dict[KeyOf[i]]
    <3>1. Set(j, v)
      BY <1>3, <2>3 DEF ValueChanged
    <3>2. j \in Items
      BY <2>3, KeyAssumption DEF MapInv, SkeletonInv, Shape
    <3> HIDE DEF j
    <3>3. AreValues(ref') /\ AreValues(default') /\ UNCHANGED <<object, disk, system>>
      BY <2>1, <3>1, <3>2 DEF Set, ItemTypes, AreValues, MapInv, SkeletonInv, Shape, ByItems
    <3>4. QED
      BY <2>2, <3>3 DEF ItemTypes, AreValues, AreTexts, object
  <2>4. CASE dict[KeyOf[i]] = NoItem
    BY <1>3, <2>2, <2>4
       DEF ValueChanged, ItemTypes, AreValues, AreTexts, vars, items, object
  <2>5. QED
    BY <2>3, <2>4
<1>4. ASSUME NEW t, WriteMap(t) PROVE ItemTypes'
  <2>1. AreValues(Shown)
    BY <1>1, <1>4 DEF WriteMap, Shown, AreValues, ItemTypes
  <2>2. QED
    BY <1>1, <1>4, <2>1, SaveTypes DEF WriteMap
<1>5. ASSUME NEW t, SaveSkeleton(t) PROVE ItemTypes'
  BY <1>1, <1>5, SaveTypes DEF SaveSkeleton, Save, mapVars
<1>6. CASE Past
  BY <1>1, <1>6, StepTypes DEF Past
<1>7. QED
  BY <1>2, <1>3, <1>4, <1>5, <1>6 DEF MapNext

\* Values and texts keep their types.
LEMMA TypesInvariant == Distinct => (MapSpec => []ItemTypes)
<1> SUFFICES ASSUME Distinct PROVE MapSpec => []ItemTypes
  OBVIOUS
<1>1. MapInit => ItemTypes
  BY SkeletonAssumption DEF MapInit, Init, ItemTypes, AreValues, AreTexts, OkText
<1>2. ASSUME MapInv, ItemTypes, [MapNext]_<<vars, mapVars>> PROVE ItemTypes'
  <2>1. CASE UNCHANGED <<vars, mapVars>>
    BY <1>2, <2>1 DEF ItemTypes, AreValues, AreTexts, vars, mapVars, items, object
  <2>2. QED
    BY <1>2, <2>1, MapTypes
<1>3. QED
  BY <1>1, <1>2, MapInvariant, PTL DEF MapSpec

\* writeConfig() of an item whose value is another than the one read makes its key dirty, with a
\* text, or without one, that reads as the value.
LEMMA DirtiedByWrite ==
    ASSUME Distinct, SkeletonInv, NEW i \in Items, NEW v \in Int, ~system[i].locked, Knows(i),
           InRange(i, v), v # loaded[i]
    PROVE  LET w == WriteConfig(Now, i, v)
           IN  /\ i \in w.dirty /\ w.bDirty
               /\ ParseItem(i, IF w.own[i] = Absent THEN system[i].text ELSE w.own[i]) = v
<1> DEFINE w == WriteConfig(Now, i, v)
<1>1. loaded[i] = ParseItem(i, Lookup(own, system, i)) /\ default[i] = ParseItem(i, system[i].text)
  BY DEF Knows, Current, Default, DefaultOf
<1>2. i \notin Locked(system) /\ \A x : [own EXCEPT ![i] = x][i] = x
  BY DEF Locked, SkeletonInv, Shape, ByItems
<1>3. CASE default[i] = v /\ ~HasDefault(i)
  <2>1. own[i] # Absent
    BY <1>1, <1>3 DEF Lookup
  <2>2. w = [own |-> [own EXCEPT ![i] = Absent], dirty |-> dirty \cup {i}, bDirty |-> TRUE]
    BY <1>3, <2>1 DEF WriteConfig, Revert, Now
  <2> HIDE DEF w
  <2>3. i \in w.dirty /\ w.bDirty /\ w.own[i] = Absent
    BY <1>2, <2>2
  <2>4. QED
    BY <1>1, <1>3, <2>3 DEF w
<1>4. CASE ~(default[i] = v /\ ~HasDefault(i))
  <2> DEFINE text == PrintItem(i, v)
  <2>1. text # Absent /\ ParseItem(i, text) = v
    BY WrittenIsRead
  <2>2. text # Lookup(own, system, i)
    BY <1>1, <2>1
  <2>3. w = [own |-> [own EXCEPT ![i] = text], dirty |-> dirty \cup {i}, bDirty |-> TRUE]
    BY <1>2, <1>4, <2>2 DEF WriteConfig, WriteEntry, Now
  <2> HIDE DEF w, text
  <2>4. i \in w.dirty /\ w.bDirty /\ w.own[i] = text
    BY <1>2, <2>3
  <2>5. QED
    BY <2>1, <2>4 DEF w
<1>5. QED
  BY <1>3, <1>4

\* What save() had to write, and could, a program that starts later reads, whatever it is, if no two
\* choices of an enumeration are stored the same way.
THEOREM SavesAlwaysStore == Distinct => (MapSpec => SaveStores)
<1> SUFFICES ASSUME Distinct PROVE MapSpec => SaveStores
  OBVIOUS
<1>1. ASSUME MapInv, ItemTypes, ItemTypes', [MapNext]_<<vars, mapVars>>
      PROVE  [\A i \in Items :
                 Storable(i) /\ ref'[i] # loaded[i] /\ SavesTrue => Fresh(i)' = ref'[i]]_vars
  <2> SUFFICES ASSUME NEW i \in Items, Storable(i), ref'[i] # loaded[i], SavesTrue
               PROVE  Fresh(i)' = ref'[i]
    BY DEF vars
  <2> DEFINE c == WriteItems(Now, ref')
             w == WriteConfig(Now, i, ref'[i])
  <2>1. PICK t \in Troubles : SaveValues(ref', t) /\ SyncOk(c, t)
    BY DEF SavesTrue
  <2>2. system' = system /\ disk' = SyncedDisk(c, t)
    BY <2>1 DEF SaveValues, SaveTo
  <2>3. /\ ref'[i] \in Int /\ i \in listed /\ ~system[i].locked /\ Knows(i)
        /\ InRange(i, ref'[i])
    BY <1>1 DEF ItemTypes, AreValues, Storable
  <2>4. /\ i \in w.dirty /\ w.bDirty
        /\ ParseItem(i, IF w.own[i] = Absent THEN system[i].text ELSE w.own[i]) = ref'[i]
    BY <1>1, <2>3, DirtiedByWrite DEF MapInv
  <2>5. ToWrite(i, ref')
    BY <2>3 DEF ToWrite
  <2> HIDE DEF w
  <2>6. i \in c.dirty /\ c.bDirty /\ c.own[i] = w.own[i]
    BY <2>4, <2>5 DEF WriteItems, w
  <2> HIDE DEF c
  <2>7. t = "none"
    BY <2>1, <2>6 DEF SyncOk
  <2>8. disk'[i] = w.own[i]
    BY <2>2, <2>6, <2>7 DEF SyncedDisk, Stored
  <2>9. QED
    BY <2>2, <2>3, <2>4, <2>8 DEF Fresh
<1>2. QED
  BY <1>1, MapInvariant, TypesInvariant, PTL DEF MapSpec, SaveStores
==============================================================================
