------------------------ MODULE KConfigCascadeProofs ------------------------
(***************************************************************************)
(* Proofs about KConfigCascade, for every set of groups, keys and values   *)
(* and for every content of the files.                                     *)
(***************************************************************************)
EXTENDS KConfigCascade, TLAPS

-----------------------------------------------------------------------------
(* Types *)

\* The entry setEntry() computes is an entry.
LEMMA StoredType ==
    ASSUME NEW m \in EntryMap, NEW k \in EntryKey, NEW v \in Values \cup {NoValue}, NEW o
    PROVE  Stored(m, k, v, o) \in Entry
<1> DEFINE old == IF Has(m, k) THEN m[k] ELSE FreshEntry
<1>1. old \in Entry
  BY DEF EntryMap, Has, FreshEntry, Entry
<1>2. /\ old.dirty \in BOOLEAN /\ old.immutable \in BOOLEAN /\ old.deleted \in BOOLEAN
      /\ old.notify \in BOOLEAN /\ old.overridesGlobal \in BOOLEAN /\ old.global \in BOOLEAN
  BY <1>1 DEF Entry
<1>3. k.default \in BOOLEAN
  BY DEF EntryKey
<1> HIDE DEF old
<1>4. [value     |-> v,
         dirty     |-> old.dirty \/ "Dirty" \in o,
         global    |-> "Global" \in o,
         immutable |-> old.immutable \/ "Immutable" \in o,
         deleted   |-> v = NoValue /\ (old.deleted \/ "Deleted" \in o),
         expand    |-> "Expansion" \in o,
         reverted  |-> FALSE,
         country   |-> "Localized" \in o /\ "LocalizedCountry" \in o,
         notify    |-> old.notify \/ "Notify" \in o,
         overridesGlobal |-> \/ old.overridesGlobal
                             \/ old.global /\ "Global" \notin o /\ ~k.default] \in Entry
  BY <1>2, <1>3 DEF Entry
<1> QED
  BY <1>4 DEF Stored, StoredOver, Found, old

\* A marker's slot is a slot.
LEMMA MarkerType ==
    ASSUME NEW g \in Groups
    PROVE  MarkerOf(g) \in EntryKey
BY DEF MarkerOf, Slot, EntryKey

\* What setEntry() assigns is an entry of the map, so the map stays one.
LEMMA AssignType ==
    ASSUME NEW m \in EntryMap, NEW k \in EntryKey, NEW v \in Values \cup {NoValue}, NEW o
    PROVE  Assign(m, k, v, o) \in EntryMap
<1>1. Stored(m, k, v, o) \in Entry
  BY StoredType
<1>2. EnsureMarker(m, k.group) \in EntryMap
  <2>1. FreshEntry \in Entry
    BY DEF FreshEntry, Entry
  <2>2. QED
    BY <2>1 DEF EnsureMarker, EntryMap
<1>3. QED
  BY <1>1, <1>2 DEF Assign, AssignAs, EntryMap

\* Dropping the localized entries empties localized slots of the same key, and defaults only on
\* behalf of a default.
LEMMA DropLocalizedShape ==
    ASSUME NEW m \in EntryMap, NEW k \in EntryKey, NEW out
    PROVE  /\ DropLocalized(m, k, out) \in EntryMap
           /\ \A j \in EntryKey :
                 \/ DropLocalized(m, k, out)[j] = m[j]
                 \/ /\ DropLocalized(m, k, out)[j] = NoEntry
                    /\ j.local /\ (j.default => k.default)
<1> DEFINE a == Slot(k.group, k.name, TRUE, FALSE)
           b == Slot(k.group, k.name, TRUE, TRUE)
           m2 == [m EXCEPT ![a] = NoEntry, ![b] = IF k.default THEN NoEntry ELSE @]
<1>1. /\ a \in EntryKey /\ b \in EntryKey /\ a # b
      /\ a.local /\ b.local /\ ~a.default /\ b.default
  BY DEF Slot, EntryKey
<1>2. DropLocalized(m, k, out)
        = IF out \in {"changed", "unchanged"} /\ ~k.local THEN m2 ELSE m
  BY DEF DropLocalized
<1>3. /\ m2 \in EntryMap
      /\ \A j \in EntryKey :
            m2[j] = m[j] \/ (m2[j] = NoEntry /\ j.local /\ (j.default => k.default))
  <2> HIDE DEF a, b
  <2>1. QED
    BY <1>1 DEF EntryMap, m2
<1> HIDE DEF m2
<1>4. QED
  BY <1>2, <1>3

\* It does empty the localized slot when an unlocalized entry was found.
LEMMA DropLocalizedDrops ==
    ASSUME NEW m \in EntryMap, NEW k \in EntryKey, ~k.local,
           NEW out \in {"changed", "unchanged"}
    PROVE  DropLocalized(m, k, out)[Slot(k.group, k.name, TRUE, FALSE)] = NoEntry
<1> DEFINE a == Slot(k.group, k.name, TRUE, FALSE)
           b == Slot(k.group, k.name, TRUE, TRUE)
           m2 == [m EXCEPT ![a] = NoEntry, ![b] = IF k.default THEN NoEntry ELSE @]
<1>1. a \in EntryKey /\ b \in EntryKey /\ a # b
  BY DEF Slot, EntryKey
<1>2. DropLocalized(m, k, out) = m2
  BY DEF DropLocalized
<1> HIDE DEF a, b
<1>3. m2[a] = NoEntry
  BY <1>1 DEF EntryMap
<1>4. QED
  BY <1>2, <1>3 DEF a

\* It leaves a map.
LEMMA DropLocalizedType ==
    ASSUME NEW m \in EntryMap, NEW k \in EntryKey, NEW out
    PROVE  DropLocalized(m, k, out) \in EntryMap
BY DropLocalizedShape

\* Slots are built from groups, names and truth values.
LEMMA SlotType ==
    ASSUME NEW g \in Groups, NEW n \in Names, NEW l \in BOOLEAN, NEW d \in BOOLEAN
    PROVE  Slot(g, n, l, d) \in EntryKey
BY DEF Slot, EntryKey

\* setEntry() leaves a map.
LEMMA SetEntryType ==
    ASSUME NEW m \in EntryMap, NEW g \in Groups, NEW n \in Names,
           NEW v \in Values \cup {NoValue}, NEW o
    PROVE  SetEntry(m, g, n, v, o) \in EntryMap
<1> DEFINE l == "Localized" \in o
           d == "Default" \in o
           k == Slot(g, n, l, d)
           p == Slot(g, n, l, FALSE)
<1>1. l \in BOOLEAN /\ d \in BOOLEAN
  OBVIOUS
<1> HIDE DEF l, d
<1>2. k \in EntryKey /\ p \in EntryKey /\ k.local = l
  BY <1>1, SlotType DEF Slot
<1>3. Assign(m, k, v, o) \in EntryMap
  BY <1>2, AssignType
<1>4. SetPlain(Assign(m, k, v, o), p, v, o \ {"Default"}) \in EntryMap
  BY <1>2, <1>3, AssignType, DropLocalizedType DEF SetPlain
<1>5. SetEntry(m, g, n, v, o) =
        IF k.default /\ Outcome(m, k, v, o) \in {"inserted", "changed"}
        THEN DropLocalized(SetPlain(Assign(m, k, v, o), Slot(g, n, k.local, FALSE), v,
                                    o \ {"Default"}), k, Outcome(m, k, v, o))
        ELSE DropLocalized(Assign(m, k, v, o), k, Outcome(m, k, v, o))
  BY DEF SetEntry, l, d
<1> HIDE DEF k, p
<1>6. QED
  BY <1>2, <1>3, <1>4, <1>5, DropLocalizedType DEF p

\* A line of a file leaves a map and a cursor.
LEMMA LineType ==
    ASSUME NEW m \in EntryMap, NEW c \in Cursor, NEW line \in Line, NEW op \in ParseOpts
    PROVE  /\ LineMap(m, c, line, op) \in EntryMap
           /\ LineCursor(m, c, line, op) \in Cursor
<1>1. CASE line.kind = "entry"
  <2>1. /\ line.name \in Names /\ Tagged(line.name, line.locale) \in Names
        /\ line.value \in Values \cup {NoValue}
    BY <1>1 DEF Line, EntryText, GroupLine
  <2>2. c.group \in Groups
    BY DEF Cursor
  <2>3. LineMap(m, c, line, op) \in EntryMap
    BY <2>1, <2>2, SetEntryType DEF LineMap, ParseDeletion, ParseValue
  <2>4. Reading(c) => [c EXCEPT !.errors = c.errors + 1] \in Cursor
    BY IniAssumption DEF Cursor, Reading
  <2>5. QED
    BY <1>1, <2>3, <2>4 DEF LineCursor
<1>2. CASE line.kind # "entry"
  <2>1. LineMap(m, c, line, op) = m
    BY <1>2 DEF LineMap
  <2>2. CASE line.kind = "group"
    <3>1. line.group \in Groups /\ line.immutable \in BOOLEAN
      BY <2>2 DEF Line, EntryText, GroupLine
    <3>2. GroupIsImmutable(m, line.group) \in BOOLEAN
      BY <3>1, MarkerType DEF GroupIsImmutable, IsImmutable, Has, EntryMap, Entry
    <3>3. HeaderCursor(m, c, line, op) \in Cursor
      <4> DEFINE locks == line.immutable /\ ~KioskException
                 own == c.fileImmutable \/ (locks /\ line.group # NoGroup)
                 file == c.fileImmutable \/ (locks /\ line.group = NoGroup)
                 skip == GroupIsImmutable(m, line.group)
                 groups == IF own /\ (~skip \/ op.default)
                           THEN c.immutableGroups \cup {line.group}
                           ELSE c.immutableGroups
      <4>1. own \in BOOLEAN /\ file \in BOOLEAN /\ skip \in BOOLEAN
        BY <3>2 DEF Cursor
      <4>2. groups \in SUBSET Groups
        BY <3>1 DEF Cursor
      <4>3. HeaderCursor(m, c, line, op) =
                [c EXCEPT !.group = line.group, !.fileImmutable = file, !.groupImmutable = own,
                          !.skip = skip, !.immutableGroups = groups]
        BY Zenon DEF HeaderCursor
      <4> HIDE DEF own, file, skip, groups
      <4>4. QED
        BY <3>1, <4>1, <4>2, <4>3 DEF Cursor
    <3>4. QED
      BY <2>1, <2>2, <3>3 DEF LineCursor
  <2>3. CASE line.kind # "group"
    <3>1. Reading(c) => [c EXCEPT !.errors = c.errors + 1] \in Cursor
      BY IniAssumption DEF Cursor, Reading
    <3>2. [c EXCEPT !.groupImmutable = c.fileImmutable] \in Cursor
      BY DEF Cursor
    <3>3. QED
      BY <2>1, <2>3, <3>1, <3>2 DEF LineCursor
  <2>4. QED
    BY <2>2, <2>3
<1>3. QED
  BY <1>1, <1>2

\* The end of a file puts locked markers into groups that are not locked, and leaves a map.
LEMMA LockGroupsShape ==
    ASSUME NEW m \in EntryMap, NEW c \in Cursor
    PROVE  /\ LockGroups(m, c) \in EntryMap
           /\ \A j \in EntryKey :
                 \/ LockGroups(m, c)[j] = m[j]
                 \/ /\ j = MarkerOf(j.group) /\ ~GroupIsImmutable(m, j.group)
                    /\ LockGroups(m, c)[j] = LockedMarker
<1> DEFINE S == IF c.errors > MaxErrors THEN {}
                ELSE {MarkerOf(g) : g \in {h \in c.immutableGroups : ~GroupIsImmutable(m, h)}}
           m2 == [j \in EntryKey |-> IF j \in S THEN LockedMarker ELSE m[j]]
<1>1. LockedMarker \in Entry
  BY DEF LockedMarker, FreshEntry, Entry
<1>2. c.immutableGroups \subseteq Groups
  BY DEF Cursor
<1>3. \A j \in S : j \in EntryKey /\ j = MarkerOf(j.group) /\ ~GroupIsImmutable(m, j.group)
  BY <1>2, MarkerType DEF MarkerOf, Slot
<1>4. DOMAIN m = EntryKey
  BY DEF EntryMap
<1>5. LockGroups(m, c) = m2
  BY <1>4 DEF LockGroups, LockedMarker
<1> HIDE DEF S
<1>6. m2 \in EntryMap
  BY <1>1 DEF EntryMap
<1>7. QED
  BY <1>3, <1>5, <1>6

\* What the entry in slot k is reverted to.
DefaultValue(m, k) ==
    LET d == Slot(k.group, k.name, k.local, TRUE) IN IF Has(m, d) THEN m[d].value ELSE NoValue

\* m2 is m with a reverted entry in slot k.
RevertedTo(m, m2, k) ==
    /\ Has(m, k)
    /\ \E e \in Entry : m2 = [m EXCEPT ![k] = e] /\ e.reverted /\ e.value = DefaultValue(m, k)

\* revertEntry() leaves the map alone or does that.
LEMMA RevertEntryShape ==
    ASSUME NEW m \in EntryMap, NEW g \in Groups, NEW n \in Names, NEW o
    PROVE  \/ RevertEntry(m, g, n, o) = m
           \/ RevertedTo(m, RevertEntry(m, g, n, o), Slot(g, n, FALSE, FALSE))
<1> DEFINE k == Slot(g, n, FALSE, FALSE)
           d == Slot(g, n, FALSE, TRUE)
           base == IF Has(m, d) THEN m[d] ELSE [m[k] EXCEPT !.value = NoValue]
<1>1. k \in EntryKey /\ d \in EntryKey
  BY SlotType
<1>2. CASE ~RevertDirties(m, g, n)
  BY <1>2 DEF RevertEntry
<1>3. CASE RevertDirties(m, g, n)
  <2>1. Has(m, k) /\ m[k] \in Entry
    BY <1>1, <1>3 DEF EntryMap, RevertDirties, Has
  <2>2. base \in Entry /\ base.value = IF Has(m, d) THEN m[d].value ELSE NoValue
    <3>1. Has(m, d) => m[d] \in Entry
      BY <1>1 DEF EntryMap, Has
    <3>2. [m[k] EXCEPT !.value = NoValue] \in Entry
      BY <2>1 DEF Entry
    <3>3. [m[k] EXCEPT !.value = NoValue].value = NoValue
      BY <2>1 DEF Entry
    <3>4. QED
      BY <3>1, <3>2, <3>3
  <2> HIDE DEF base
  <2> DEFINE b == base.notify \/ "Notify" \in o
             e == [base EXCEPT !.notify = b, !.dirty = TRUE, !.reverted = TRUE]
  <2>3. RevertEntry(m, g, n, o) = [m EXCEPT ![k] = e]
    BY <1>3 DEF RevertEntry, base
  <2>4. b \in BOOLEAN
    BY <2>2 DEF Entry
  <2> HIDE DEF b
  <2>5. e \in Entry /\ e.reverted /\ e.value = base.value
    BY <2>2, <2>4 DEF Entry
  <2> HIDE DEF e
  <2>6. DefaultValue(m, k) = IF Has(m, d) THEN m[d].value ELSE NoValue
    BY DEF DefaultValue, Slot
  <2>7. RevertedTo(m, RevertEntry(m, g, n, o), k)
    BY <2>1, <2>2, <2>3, <2>5, <2>6 DEF RevertedTo
  <2>8. QED
    BY <2>7
<1>4. QED
  BY <1>2, <1>3

\* revertEntry() leaves a map: the default it copies is an entry of the map.
LEMMA RevertEntryType ==
    ASSUME NEW m \in EntryMap, NEW g \in Groups, NEW n \in Names, NEW o
    PROVE  RevertEntry(m, g, n, o) \in EntryMap
<1>1. \A m2, k : RevertedTo(m, m2, k) => m2 \in EntryMap
  BY DEF RevertedTo, EntryMap
<1>2. QED
  BY <1>1, RevertEntryShape

\* So do the other operations of the application.
LEMMA CleanEntriesType ==
    ASSUME NEW m \in EntryMap
    PROVE  CleanEntries(m) \in EntryMap
<1>1. \A e \in Entry : [e EXCEPT !.dirty = FALSE, !.notify = FALSE] \in Entry
  BY DEF Entry
<1>2. QED
  BY <1>1 DEF CleanEntries, Has, EntryMap

\* The loop of writeConfig() leaves a map.
LEMMA AfterWriteType ==
    ASSUME NEW m \in EntryMap, NEW g \in BOOLEAN
    PROVE  AfterWrite(m, g) \in EntryMap
<1>1. \A e \in Entry : [Written(e) EXCEPT !.dirty = FALSE] \in Entry
  BY DEF Entry, Written
<1>2. QED
  BY <1>1 DEF AfterWrite, ToWrite, Has, EntryMap

\* The loops over files follow each other until the object is ready.
LEMMA FollowingType ==
    \A s \in Stage : Following[s] \in Stage
BY DEF Stage, Following

\* Every step leaves maps, cursors and flags of the right type: what the files contain and
\* the order of the application's calls do not matter.
THEOREM TypeCorrect == Spec => []TypeOK
<1> USE DEF Stage
<1>1. Init => TypeOK
  <2>1. EmptyMap \in EntryMap
    BY DEF EmptyMap, EntryMap
  <2>2. StartOfFile \in Cursor
    BY IniAssumption DEF StartOfFile, Cursor
  <2>3. [default |-> TRUE, global |-> TRUE, merging |-> FALSE] \in ParseOpts
    BY DEF ParseOpts
  <2>4. ASSUME Init PROVE TypeOK
    <3>1. entryMap \in EntryMap /\ cursor \in Cursor /\ opts \in ParseOpts
      BY <2>1, <2>2, <2>3, <2>4 DEF Init
    <3>2. QED
      BY <2>4, <3>1 DEF Init, TypeOK
  <2>5. QED
    BY <2>4
<1>2. TypeOK /\ [Next]_vars => TypeOK'
  <2> SUFFICES ASSUME TypeOK, [Next]_vars PROVE TypeOK'
    OBVIOUS
  <2> USE DEF TypeOK
  <2>1. CASE OpenFile
    <3>1. StartOfFile \in Cursor
      BY IniAssumption DEF StartOfFile, Cursor
    <3>2. opts' \in ParseOpts
      BY <2>1 DEF OpenFile, StageOpts
    <3>3. QED
      BY <2>1, <3>1, <3>2 DEF OpenFile
  <2>2. ASSUME NEW line \in scene.lines, ReadLine(line) PROVE TypeOK'
    <3>1. line \in Line
      BY CascadeAssumption
    <3>2. QED
      BY <2>2, <3>1, LineType DEF ReadLine
  <2>3. CASE CloseFile
    <3>1. entryMap' \in EntryMap
      BY <2>3, LockGroupsShape DEF CloseFile
    <3>2. stage' \in Stage
      BY <2>3, FollowingType DEF CloseFile
    <3>3. globalImmutable' \in BOOLEAN /\ bFileImmutable' \in BOOLEAN
      BY <2>3 DEF CloseFile
    <3>4. QED
      BY <2>3, <3>1, <3>2, <3>3 DEF CloseFile
  <2>4. CASE NextStage
    BY <2>4, FollowingType DEF NextStage
  <2>5. CASE Reparse
    BY <2>5 DEF Reparse, EmptyMap, EntryMap
  <2>6. ASSUME NEW t \in Touched, NEW o \in scene.options, NEW v \in Values \cup {NoValue},
               PutData(t[1], t[2], v, o)
        PROVE  TypeOK'
    <3>1. t[1] \in Groups /\ t[2] \in Names
      BY CascadeAssumption, IniAssumption
    <3>2. entryMap' \in EntryMap
      BY <2>6, <3>1, SetEntryType DEF PutData, PutMap
    <3>3. bDirty' \in BOOLEAN
      BY <2>6 DEF PutData
    <3>4. QED
      BY <2>6, <3>2, <3>3 DEF PutData, reading
  <2>7. ASSUME NEW t \in Touched, NEW o \in scene.options, RevertToDefault(t[1], t[2], o)
        PROVE  TypeOK'
    <3>1. t[1] \in Groups /\ t[2] \in Names
      BY CascadeAssumption, IniAssumption
    <3>2. entryMap' \in EntryMap
      BY <2>7, <3>1, RevertEntryType DEF RevertToDefault
    <3>3. bDirty' \in BOOLEAN
      BY <2>7 DEF RevertToDefault
    <3>4. QED
      BY <2>7, <3>2, <3>3 DEF RevertToDefault, reading
  <2>8. ASSUME NEW t \in Touched, NEW o \in scene.options, DeleteGroup(t[1], o)
        PROVE  TypeOK'
    <3> DEFINE chosen == Deletable(entryMap, bFileImmutable, t[1])
    <3>1. /\ entryMap' = [k \in EntryKey |->
                 IF k \in chosen
                 THEN SetEntry(entryMap, k.group, k.name, NoValue, o \cup {"Deleted"})[k]
                 ELSE entryMap[k]]
          /\ bDirty' = (bDirty \/ chosen # {})
      BY <2>8 DEF DeleteGroup, DeleteGroupMap, DeleteGroupDirties
    <3>2. \A k \in chosen :
             SetEntry(entryMap, k.group, k.name, NoValue, o \cup {"Deleted"}) \in EntryMap
      <4>1. \A k \in chosen : k.group \in Groups /\ k.name \in Names
        BY DEF Deletable, KeyList, EntryKey
      <4>2. QED
        BY <4>1, SetEntryType
    <3>3. entryMap' \in EntryMap
      BY <3>1, <3>2 DEF EntryMap
    <3>4. QED
      BY <2>8, <3>1, <3>3 DEF DeleteGroup, reading
  <2>9. CASE MarkAsClean
    BY <2>9, CleanEntriesType DEF MarkAsClean, reading
  <2>10. ASSUME NEW g \in BOOLEAN, Sync(g) PROVE TypeOK'
    <3>1. (IF g THEN AfterWrite(entryMap, TRUE) ELSE entryMap) \in EntryMap
      BY AfterWriteType
    <3>2. entryMap' \in EntryMap
      BY <2>10, <3>1, AfterWriteType DEF Sync
    <3>3. QED
      BY <2>10, <3>2 DEF Sync, reading
  <2>11. CASE UNCHANGED vars
    BY <2>11 DEF vars, reading
  <2>12. QED
    BY <2>1, <2>2, <2>3, <2>4, <2>5, <2>6, <2>7, <2>8, <2>9, <2>10, <2>11
       DEF Next, WriteEntry, DeleteEntry
<1>3. QED
  BY <1>1, <1>2, PTL DEF Spec

-----------------------------------------------------------------------------
(* What setEntry() keeps *)

\* The frame of every operation that respects lock-down: an immutable entry that is not
\* localized stays, a locked group gains nothing, a group that gains something has a marker,
\* and only localized entries disappear.
Kept(m, m2) ==
    \A j \in EntryKey :
        /\ IsImmutable(m, j) /\ ~j.local => m2[j] = m[j]
        /\ GroupIsImmutable(m, j.group) /\ Has(m2, j) => Has(m, j)
        /\ Has(m2, j) /\ ~Has(m, j) => Has(m2, MarkerOf(j.group))
        /\ Has(m, j) /\ ~j.local => Has(m2, j)

\* The frame composes, so one step of setEntry() may follow another.
LEMMA KeptComposes ==
    ASSUME NEW m1, NEW m2, NEW m3, Kept(m1, m2), Kept(m2, m3)
    PROVE  Kept(m1, m3)
<1> SUFFICES ASSUME NEW j \in EntryKey
             PROVE  /\ IsImmutable(m1, j) /\ ~j.local => m3[j] = m1[j]
                    /\ GroupIsImmutable(m1, j.group) /\ Has(m3, j) => Has(m1, j)
                    /\ Has(m3, j) /\ ~Has(m1, j) => Has(m3, MarkerOf(j.group))
                    /\ Has(m1, j) /\ ~j.local => Has(m3, j)
  BY DEF Kept
<1> DEFINE k == MarkerOf(j.group)
<1>1. k \in EntryKey /\ ~k.local
  BY DEF EntryKey, MarkerOf, Slot
<1>2. IsImmutable(m1, j) /\ ~j.local => m3[j] = m1[j]
  BY DEF Kept, IsImmutable, Has
<1>3. GroupIsImmutable(m1, j.group) => GroupIsImmutable(m2, j.group)
  BY <1>1 DEF Kept, GroupIsImmutable, IsImmutable, Has
<1>4. GroupIsImmutable(m1, j.group) /\ Has(m3, j) => Has(m1, j)
  BY <1>3 DEF Kept
<1>5. Has(m2, k) => Has(m3, k)
  BY <1>1 DEF Kept
<1>6. Has(m3, j) /\ ~Has(m1, j) => Has(m3, k)
  BY <1>5 DEF Kept
<1>7. Has(m1, j) /\ ~j.local => Has(m3, j)
  BY DEF Kept
<1>8. QED
  BY <1>2, <1>4, <1>6, <1>7

\* A key is no marker.
LEMMA NoMarker ==
    ASSUME NEW k \in EntryKey, k.name \in Names, NEW g
    PROVE  k # MarkerOf(g)
BY SentinelAssumption DEF MarkerOf, Slot

\* Storing one entry keeps the frame.
LEMMA AssignKept ==
    ASSUME NEW m \in EntryMap, NEW k \in EntryKey, k.name \in Names,
           NEW v \in Values \cup {NoValue}, NEW o
    PROVE  Kept(m, Assign(m, k, v, o))
<1> DEFINE out == Outcome(m, k, v, o)
           e == Stored(m, k, v, o)
           mk == MarkerOf(k.group)
           m2 == Assign(m, k, v, o)
<1>1. e # NoEntry
  BY StoredType, SentinelAssumption
<1>2. k # mk /\ mk \in EntryKey /\ FreshEntry # NoEntry
  <2>1. FreshEntry \in Entry
    BY DEF FreshEntry, Entry
  <2>2. QED
    BY <2>1, NoMarker, MarkerType, SentinelAssumption DEF EntryKey
<1>3. CASE out \in {"inserted", "insertedDeleted"}
  <2>1. ~Has(m, k) /\ ~GroupIsImmutable(m, k.group)
    BY <1>3 DEF Outcome, OutcomeOf, Refused
  <2>2. m2 = [EnsureMarker(m, k.group) EXCEPT ![k] = e]
    BY <1>3 DEF Assign, AssignAs
  <2>3. /\ m2[k] = e /\ Has(m2, mk)
        /\ \A j \in EntryKey : j # k /\ j # mk => m2[j] = m[j]
        /\ Has(m, mk) => m2[mk] = m[mk]
    BY <1>2, <2>2 DEF EnsureMarker, EntryMap, Has
  <2>4. \A j \in EntryKey : IsImmutable(m, j) => m2[j] = m[j]
    BY <2>1, <2>3 DEF IsImmutable
  <2>5. \A j \in EntryKey : Has(m, j) => Has(m2, j)
    BY <2>1, <2>3 DEF Has
  <2>6. \A j \in EntryKey : Has(m2, j) /\ ~Has(m, j) => j = k \/ j = mk
    BY <2>3 DEF Has
  <2>7. \A j \in EntryKey : GroupIsImmutable(m, j.group) /\ Has(m2, j) => Has(m, j)
    <3>1. mk.group = k.group
      BY DEF MarkerOf, Slot
    <3>2. QED
      BY <2>1, <2>6, <3>1
  <2>8. \A j \in EntryKey : Has(m2, j) /\ ~Has(m, j) => Has(m2, MarkerOf(j.group))
    <3>1. MarkerOf(mk.group) = mk
      BY DEF MarkerOf, Slot
    <3>2. QED
      BY <2>3, <2>6, <3>1
  <2> HIDE DEF m2
  <2>9. QED
    BY <2>4, <2>5, <2>7, <2>8 DEF Kept, m2
<1>4. CASE out = "changed"
  <2>1. Has(m, k) /\ ~m[k].immutable
    BY <1>4 DEF Outcome, OutcomeOf, Refused
  <2>2. m2 = [m EXCEPT ![k] = e]
    BY <1>4 DEF Assign, AssignAs
  <2>3. m2[k] = e /\ \A j \in EntryKey : j # k => m2[j] = m[j]
    BY <2>2 DEF EntryMap
  <2> HIDE DEF m2
  <2>4. QED
    BY <1>1, <2>1, <2>3 DEF Kept, Has, IsImmutable, m2
<1>5. CASE out \notin {"inserted", "insertedDeleted", "changed"}
  <2>1. m2 = m
    BY <1>5 DEF Assign, AssignAs
  <2>2. QED
    BY <2>1 DEF Kept
<1>6. QED
  BY <1>3, <1>4, <1>5

\* Dropping localized entries keeps the frame.
LEMMA DropLocalizedKept ==
    ASSUME NEW m \in EntryMap, NEW k \in EntryKey, NEW out
    PROVE  Kept(m, DropLocalized(m, k, out))
<1> DEFINE m2 == DropLocalized(m, k, out)
<1>1. \A j \in EntryKey : m2[j] = m[j] \/ (j.local /\ m2[j] = NoEntry)
  BY DropLocalizedShape
<1> HIDE DEF m2
<1>2. QED
  BY <1>1 DEF Kept, Has, m2

\* The parts of setEntry(): the slot it is called for, that slot's twin that is no default, and
\* the maps after the first and after the second of them took the value.
Target(g, n, o) == Slot(g, n, "Localized" \in o, "Default" \in o)
Twin(g, n, o)   == Slot(g, n, "Localized" \in o, FALSE)
First(m, g, n, v, o)  == Assign(m, Target(g, n, o), v, o)
Second(m, g, n, v, o) == SetPlain(First(m, g, n, v, o), Twin(g, n, o), v, o \ {"Default"})

\* setEntry() taken apart: the slot it is for, its twin that is no default, the two
\* assignments, and the localized entries dropped behind them.
LEMMA SetEntryParts ==
    ASSUME NEW m \in EntryMap, NEW g \in Groups, NEW n \in Names,
           NEW v \in Values \cup {NoValue}, NEW o
    PROVE  /\ Target(g, n, o) \in EntryKey /\ Target(g, n, o).name = n
           /\ Target(g, n, o).default <=> "Default" \in o
           /\ Twin(g, n, o) \in EntryKey /\ Twin(g, n, o).name = n
           /\ First(m, g, n, v, o) \in EntryMap
           /\ Second(m, g, n, v, o) \in EntryMap
           /\ \E out :
                \/ SetEntry(m, g, n, v, o)
                     = DropLocalized(First(m, g, n, v, o), Target(g, n, o), out)
                \/ /\ "Default" \in o
                   /\ SetEntry(m, g, n, v, o)
                        = DropLocalized(Second(m, g, n, v, o), Target(g, n, o), out)
<1> DEFINE l == "Localized" \in o
           d == "Default" \in o
           k == Slot(g, n, l, d)
           p == Slot(g, n, l, FALSE)
           out == Outcome(m, k, v, o)
<1>1. l \in BOOLEAN /\ d \in BOOLEAN
  OBVIOUS
<1>2. Target(g, n, o) = k /\ Twin(g, n, o) = p
  BY DEF Target, Twin
<1>3. SetEntry(m, g, n, v, o) =
        IF k.default /\ out \in {"inserted", "changed"}
        THEN DropLocalized(SetPlain(Assign(m, k, v, o), Slot(g, n, k.local, FALSE), v,
                                    o \ {"Default"}), k, out)
        ELSE DropLocalized(Assign(m, k, v, o), k, out)
  BY DEF SetEntry
<1> HIDE DEF l, d
<1>4. k \in EntryKey /\ k.name = n /\ k.local = l /\ k.default = d
  BY <1>1, SlotType DEF Slot
<1>5. p \in EntryKey /\ p.name = n
  BY <1>1, SlotType DEF Slot
<1>6. First(m, g, n, v, o) = Assign(m, k, v, o)
  BY <1>2 DEF First
<1>7. Second(m, g, n, v, o)
        = SetPlain(Assign(m, k, v, o), Slot(g, n, k.local, FALSE), v, o \ {"Default"})
  BY <1>2, <1>4, <1>6 DEF Second
<1> HIDE DEF k, p, out
<1>8. First(m, g, n, v, o) \in EntryMap
  BY <1>4, <1>6, AssignType
<1>9. Second(m, g, n, v, o) \in EntryMap
  BY <1>2, <1>5, <1>8, AssignType, DropLocalizedType DEF Second, SetPlain
<1>10. \/ SetEntry(m, g, n, v, o) = DropLocalized(First(m, g, n, v, o), k, out)
       \/ /\ d
          /\ SetEntry(m, g, n, v, o) = DropLocalized(Second(m, g, n, v, o), k, out)
  BY <1>3, <1>4, <1>6, <1>7
<1>11. QED
  BY <1>2, <1>4, <1>5, <1>8, <1>9, <1>10 DEF d

\* setEntry() keeps the frame, whatever its options.
LEMMA SetEntryKept ==
    ASSUME NEW m \in EntryMap, NEW g \in Groups, NEW n \in Names,
           NEW v \in Values \cup {NoValue}, NEW o
    PROVE  Kept(m, SetEntry(m, g, n, v, o))
<1> DEFINE k == Target(g, n, o)
           p == Twin(g, n, o)
           own == First(m, g, n, v, o)
           both == Second(m, g, n, v, o)
<1>1. /\ k \in EntryKey /\ k.name = n /\ p \in EntryKey /\ p.name = n
      /\ own \in EntryMap /\ both \in EntryMap
      /\ \E out : \/ SetEntry(m, g, n, v, o) = DropLocalized(own, k, out)
                  \/ SetEntry(m, g, n, v, o) = DropLocalized(both, k, out)
  BY SetEntryParts
<1>2. Kept(m, own)
  BY <1>1, AssignKept DEF First
<1>3. Kept(own, both)
  <2> DEFINE mid == Assign(own, p, v, o \ {"Default"})
  <2>1. mid \in EntryMap
    BY <1>1, AssignType
  <2>2. Kept(own, mid)
    BY <1>1, AssignKept
  <2>3. PICK out : both = DropLocalized(mid, p, out)
    BY DEF Second, SetPlain
  <2> HIDE DEF mid, own, both
  <2>4. QED
    BY <1>1, <2>1, <2>2, <2>3, DropLocalizedKept, KeptComposes
<1> HIDE DEF own, both
<1>4. \A out : Kept(m, DropLocalized(own, k, out)) /\ Kept(m, DropLocalized(both, k, out))
  BY <1>1, <1>2, <1>3, DropLocalizedKept, KeptComposes
<1>5. QED
  BY <1>1, <1>4

-----------------------------------------------------------------------------
(* What setEntry() changes *)

\* Storing one entry touches its slot and perhaps the marker of its group.
LEMMA AssignShape ==
    ASSUME NEW m \in EntryMap, NEW k \in EntryKey, NEW v \in Values \cup {NoValue}, NEW o,
           NEW j \in EntryKey
    PROVE  LET m2 == Assign(m, k, v, o)
           IN  \/ m2[j] = m[j]
               \/ j = k /\ m2[j] = Stored(m, k, v, o)
               \/ j = MarkerOf(k.group) /\ m2[j] = FreshEntry
<1>1. Stored(m, k, v, o) \in Entry
  BY StoredType
<1>2. QED
  BY <1>1 DEF Assign, AssignAs, EnsureMarker, EntryMap

\* Dropping touches localized slots, and defaults only on behalf of a default.
LEMMA DropShape ==
    ASSUME NEW m \in EntryMap, NEW k \in EntryKey, NEW out, NEW j \in EntryKey
    PROVE  \/ DropLocalized(m, k, out)[j] = m[j]
           \/ DropLocalized(m, k, out)[j] = NoEntry /\ (j.default => k.default)
BY DropLocalizedShape

\* A write of the application leaves every default alone.
LEMMA SetEntryLeavesDefaults ==
    ASSUME NEW m \in EntryMap, NEW g \in Groups, NEW n \in Names,
           NEW v \in Values \cup {NoValue}, NEW o, "Default" \notin o,
           NEW j \in EntryKey, j.default
    PROVE  SetEntry(m, g, n, v, o)[j] = m[j]
<1> DEFINE k == Target(g, n, o)
           own == First(m, g, n, v, o)
<1>1. k \in EntryKey /\ ~k.default /\ own \in EntryMap
  BY SetEntryParts
<1>2. PICK out : SetEntry(m, g, n, v, o) = DropLocalized(own, k, out)
  BY SetEntryParts
<1>3. j # k /\ j # MarkerOf(k.group)
  BY <1>1 DEF MarkerOf, Slot
<1>4. own[j] = m[j]
  BY <1>1, <1>3, AssignShape DEF First
<1> HIDE DEF own
<1>5. DropLocalized(own, k, out)[j] = own[j]
  BY <1>1, DropShape
<1>6. QED
  BY <1>2, <1>4, <1>5

\* The two ways of a flag through setEntry(): it comes with the options or was there before.
Flagged(e) == e.dirty \/ e.notify \/ e.reverted
Pristine(m) == \A j \in EntryKey : Has(m, j) => ~Flagged(m[j])

\* A marker is born without flags.
LEMMA FreshIsPristine == ~Flagged(FreshEntry) /\ FreshEntry # NoEntry
<1>1. FreshEntry \in Entry
  BY DEF FreshEntry, Entry
<1>2. QED
  BY <1>1, SentinelAssumption DEF Flagged, FreshEntry

\* An assignment that is neither Persistent nor Notify leaves no pending change.
LEMMA AssignPristine ==
    ASSUME NEW m \in EntryMap, NEW k \in EntryKey, NEW v \in Values \cup {NoValue}, NEW o,
           Pristine(m), "Dirty" \notin o, "Notify" \notin o
    PROVE  Pristine(Assign(m, k, v, o))
<1>1. ~Flagged(Stored(m, k, v, o))
  BY DEF Flagged, Stored, StoredOver, Found, Pristine, FreshEntry
<1>2. \A j \in EntryKey : LET m2 == Assign(m, k, v, o)
                          IN  \/ m2[j] = m[j]
                              \/ m2[j] = Stored(m, k, v, o)
                              \/ m2[j] = FreshEntry
  BY AssignShape
<1>3. QED
  BY <1>1, <1>2, FreshIsPristine DEF Pristine, Has

\* Dropping a localized entry leaves no pending change.
LEMMA DropPristine ==
    ASSUME NEW m \in EntryMap, NEW k \in EntryKey, NEW out, Pristine(m)
    PROVE  Pristine(DropLocalized(m, k, out))
BY DropShape DEF Pristine, Has

\* A line of a file leaves no pending change.
LEMMA SetEntryPristine ==
    ASSUME NEW m \in EntryMap, NEW g \in Groups, NEW n \in Names,
           NEW v \in Values \cup {NoValue}, NEW o,
           Pristine(m), "Dirty" \notin o, "Notify" \notin o
    PROVE  Pristine(SetEntry(m, g, n, v, o))
<1> DEFINE k == Target(g, n, o)
           p == Twin(g, n, o)
           own == First(m, g, n, v, o)
           both == Second(m, g, n, v, o)
<1>1. /\ k \in EntryKey /\ k.name = n /\ p \in EntryKey /\ p.name = n
      /\ own \in EntryMap /\ both \in EntryMap
      /\ \E out : \/ SetEntry(m, g, n, v, o) = DropLocalized(own, k, out)
                  \/ SetEntry(m, g, n, v, o) = DropLocalized(both, k, out)
  BY SetEntryParts
<1>2. Pristine(own)
  BY <1>1, AssignPristine DEF First
<1> DEFINE mid == Assign(own, p, v, o \ {"Default"})
<1>3. mid \in EntryMap /\ Pristine(mid)
  BY <1>1, <1>2, AssignType, AssignPristine
<1>4. PICK out : both = DropLocalized(mid, p, out)
  BY DEF Second, SetPlain
<1>5. Pristine(both)
  BY <1>1, <1>3, <1>4, DropPristine
<1>6. QED
  BY <1>1, <1>2, <1>5, DropPristine

\* What setEntry() changes is not reverted any more.
Unreverts(m, m2) ==
    \A j \in EntryKey : Has(m2, j) => m2[j] = m[j] \/ ~m2[j].reverted

\* A write that sets no default ends the reverted state of every entry it changes.
LEMMA SetEntryUnreverts ==
    ASSUME NEW m \in EntryMap, NEW g \in Groups, NEW n \in Names,
           NEW v \in Values \cup {NoValue}, NEW o, "Default" \notin o
    PROVE  Unreverts(m, SetEntry(m, g, n, v, o))
<1> DEFINE k == Target(g, n, o)
           own == First(m, g, n, v, o)
<1>1. k \in EntryKey /\ own \in EntryMap
  BY SetEntryParts
<1>2. ~Stored(m, k, v, o).reverted
  BY DEF Stored, StoredOver, Found
<1>3. ~FreshEntry.reverted
  BY DEF FreshEntry
<1>4. Unreverts(m, own)
  BY <1>1, <1>2, <1>3, AssignShape DEF First, Unreverts
<1>5. PICK out : SetEntry(m, g, n, v, o) = DropLocalized(own, k, out)
  BY SetEntryParts
<1> HIDE DEF own
<1>6. \A j \in EntryKey : \/ DropLocalized(own, k, out)[j] = own[j]
                        \/ ~Has(DropLocalized(own, k, out), j)
  BY <1>1, DropShape DEF Has
<1>7. QED
  BY <1>4, <1>5, <1>6 DEF Unreverts, Has

-----------------------------------------------------------------------------
(* The frame of a step *)

\* What every step but the start of a new parse keeps: like Kept, but an immutable entry may be
\* reverted, and the flags of a change may go.
Respects(m, m2) ==
    \A j \in EntryKey :
        /\ IsImmutable(m, j) /\ ~j.local /\ j.name \in Names =>
              /\ Has(m2, j)
              /\ \/ m2[j].reverted
                 \/ /\ m2[j].immutable
                    /\ m2[j].value = m[j].value
                    /\ m2[j].deleted = m[j].deleted
        /\ GroupIsImmutable(m, j.group) =>
              GroupIsImmutable(m2, j.group) /\ (Has(m2, j) => Has(m, j))
        /\ Has(m2, j) => Has(m, j) \/ Has(m2, MarkerOf(j.group))
        /\ Has(m, j) /\ ~j.local => Has(m2, j)

\* Keeping every locked entry and group is more than respecting the locks.
LEMMA KeptRespects ==
    ASSUME NEW m \in EntryMap, NEW m2, Kept(m, m2)
    PROVE  Respects(m, m2)
<1> SUFFICES ASSUME NEW j \in EntryKey
             PROVE  /\ IsImmutable(m, j) /\ ~j.local =>
                          /\ Has(m2, j) /\ m2[j].immutable
                          /\ m2[j].value = m[j].value /\ m2[j].deleted = m[j].deleted
                    /\ GroupIsImmutable(m, j.group) =>
                          GroupIsImmutable(m2, j.group) /\ (Has(m2, j) => Has(m, j))
                    /\ Has(m2, j) => Has(m, j) \/ Has(m2, MarkerOf(j.group))
                    /\ Has(m, j) /\ ~j.local => Has(m2, j)
  BY DEF Respects
<1>1. MarkerOf(j.group) \in EntryKey /\ ~MarkerOf(j.group).local
  BY DEF EntryKey, MarkerOf, Slot
<1>2. IsImmutable(m, j) /\ ~j.local => m2[j] = m[j]
  BY DEF Kept
<1>3. GroupIsImmutable(m, j.group) => GroupIsImmutable(m2, j.group)
  BY <1>1 DEF Kept, GroupIsImmutable, IsImmutable, Has
<1>4. QED
  BY <1>2, <1>3 DEF Kept, IsImmutable, Has

\* The steps that only take flags away: a written or cleaned map has the same entries.
Trims(m, m2) ==
    \A j \in EntryKey :
        /\ Has(m2, j) <=> Has(m, j)
        /\ Has(m, j) =>
              /\ m2[j].immutable = m[j].immutable
              /\ m2[j].value = m[j].value
              /\ m2[j].reverted = m[j].reverted
              /\ m2[j].deleted = m[j].deleted \/ m[j].reverted
              /\ ~Flagged(m[j]) => m2[j] = m[j]

\* markAsClean() only touches the dirty and notify flags.
LEMMA CleanEntriesTrims ==
    ASSUME NEW m \in EntryMap
    PROVE  Trims(m, CleanEntries(m))
<1> SUFFICES ASSUME NEW j \in EntryKey
             PROVE  LET m2 == CleanEntries(m)
                    IN  /\ Has(m2, j) <=> Has(m, j)
                        /\ Has(m, j) =>
                              /\ m2[j].immutable = m[j].immutable
                              /\ m2[j].value = m[j].value
                              /\ m2[j].reverted = m[j].reverted
                              /\ m2[j].deleted = m[j].deleted
                              /\ ~Flagged(m[j]) => m2[j] = m[j]
  BY DEF Trims
<1>1. CASE Has(m, j)
  <2>1. m[j] \in Entry
    BY <1>1 DEF EntryMap, Has
  <2> DEFINE e == [m[j] EXCEPT !.dirty = FALSE, !.notify = FALSE]
  <2>2. CleanEntries(m)[j] = e
    BY <1>1 DEF CleanEntries, EntryMap
  <2>3. /\ e \in Entry
        /\ e.immutable = m[j].immutable /\ e.value = m[j].value
        /\ e.reverted = m[j].reverted /\ e.deleted = m[j].deleted
        /\ ~m[j].dirty /\ ~m[j].notify => e = m[j]
    BY <2>1 DEF Entry
  <2> HIDE DEF e
  <2>4. QED
    BY <1>1, <2>2, <2>3, SentinelAssumption DEF Flagged, Has
<1>2. CASE ~Has(m, j)
  BY <1>2 DEF CleanEntries, EntryMap, Has
<1>3. QED
  BY <1>1, <1>2

\* The loop of writeConfig() only touches the flags of the entries it writes.
LEMMA AfterWriteTrims ==
    ASSUME NEW m \in EntryMap, NEW g \in BOOLEAN
    PROVE  Trims(m, AfterWrite(m, g))
<1> SUFFICES ASSUME NEW j \in EntryKey
             PROVE  LET m2 == AfterWrite(m, g)
                    IN  /\ Has(m2, j) <=> Has(m, j)
                        /\ Has(m, j) =>
                              /\ m2[j].immutable = m[j].immutable
                              /\ m2[j].value = m[j].value
                              /\ m2[j].reverted = m[j].reverted
                              /\ m2[j].deleted = m[j].deleted \/ m[j].reverted
                              /\ ~Flagged(m[j]) => m2[j] = m[j]
  BY DEF Trims
<1>1. CASE ToWrite(m, j, g)
  <2>1. Has(m, j) /\ m[j] \in Entry
    BY <1>1 DEF EntryMap, Has, ToWrite
  <2> DEFINE w == Written(m[j])
             e == [w EXCEPT !.dirty = FALSE]
  <2>2. AfterWrite(m, g)[j] = e
    BY <1>1 DEF AfterWrite, EntryMap
  <2>3. /\ w \in Entry
        /\ w.immutable = m[j].immutable /\ w.value = m[j].value /\ w.dirty = m[j].dirty
        /\ w.reverted = m[j].reverted
        /\ w.deleted = m[j].deleted \/ m[j].reverted
        /\ ~m[j].reverted => w = m[j]
    <3> DEFINE f == m[j]
    <3>1. f \in Entry
      BY <2>1
    <3> HIDE DEF f
    <3> DEFINE d == [f EXCEPT !.deleted = TRUE]
    <3>2. /\ d \in Entry
          /\ d.immutable = f.immutable /\ d.value = f.value
          /\ d.dirty = f.dirty /\ d.reverted = f.reverted
      BY <3>1 DEF Entry
    <3>3. Written(f) = f \/ (f.reverted /\ Written(f) = d)
      BY Zenon DEF Written
    <3> DEFINE r == Written(f)
    <3> HIDE DEF d, r
    <3>4. /\ r \in Entry
          /\ r.immutable = f.immutable /\ r.value = f.value
          /\ r.dirty = f.dirty /\ r.reverted = f.reverted
      BY <3>1, <3>2, <3>3 DEF r
    <3>5. r = f \/ f.reverted
      BY <3>3 DEF r
    <3>6. r.deleted = f.deleted \/ f.reverted
      BY <3>5
    <3>7. ~f.reverted => r = f
      BY <3>5
    <3>8. QED
      BY <3>4, <3>6, <3>7 DEF r, f
  <2> HIDE DEF w
  <2>4. /\ e \in Entry
        /\ e.immutable = w.immutable /\ e.value = w.value /\ e.reverted = w.reverted
        /\ e.deleted = w.deleted
        /\ ~w.dirty => e = w
    BY <2>3 DEF Entry
  <2> HIDE DEF e
  <2>5. QED
    BY <2>1, <2>2, <2>3, <2>4, SentinelAssumption DEF Flagged, Has
<1>2. CASE ~ToWrite(m, j, g)
  BY <1>2 DEF AfterWrite, EntryMap, Has
<1>3. QED
  BY <1>1, <1>2

\* What only touches flags respects the locks.
LEMMA TrimsRespects ==
    ASSUME NEW m \in EntryMap, NEW m2, Trims(m, m2)
    PROVE  Respects(m, m2)
<1> SUFFICES ASSUME NEW j \in EntryKey
             PROVE  /\ IsImmutable(m, j) =>
                          /\ Has(m2, j)
                          /\ \/ m2[j].reverted
                             \/ /\ m2[j].immutable
                                /\ m2[j].value = m[j].value
                                /\ m2[j].deleted = m[j].deleted
                    /\ GroupIsImmutable(m, j.group) =>
                          GroupIsImmutable(m2, j.group) /\ (Has(m2, j) => Has(m, j))
                    /\ Has(m2, j) => Has(m, j)
                    /\ Has(m, j) => Has(m2, j)
  BY DEF Respects
<1>1. MarkerOf(j.group) \in EntryKey
  BY DEF EntryKey, MarkerOf, Slot
<1>2. \A k \in EntryKey : IsImmutable(m, k) => IsImmutable(m2, k)
  BY DEF Trims, IsImmutable
<1>3. QED
  BY <1>1, <1>2 DEF Trims, IsImmutable, GroupIsImmutable

\* Both files of a sync().
LEMMA SyncTrims ==
    ASSUME TypeOK, NEW g \in BOOLEAN, Sync(g)
    PROVE  Trims(entryMap, entryMap')
<1> DEFINE m1 == IF g THEN AfterWrite(entryMap, TRUE) ELSE entryMap
<1>1. m1 \in EntryMap /\ Trims(entryMap, m1)
  BY AfterWriteType, AfterWriteTrims DEF TypeOK, Trims
<1>2. entryMap' = AfterWrite(m1, FALSE)
  BY DEF Sync
<1> HIDE DEF m1
<1>3. Trims(m1, entryMap')
  BY <1>1, <1>2, AfterWriteTrims
<1>4. \A j \in EntryKey : Has(entryMap, j) /\ ~Flagged(entryMap[j]) => entryMap'[j] = entryMap[j]
  BY <1>1, <1>3 DEF Trims
<1>5. QED
  BY <1>1, <1>3, <1>4 DEF Trims

\* A line of a file, and the end of one.
LEMMA LineKept ==
    ASSUME NEW m \in EntryMap, NEW c \in Cursor, NEW line \in Line, NEW op
    PROVE  Kept(m, LineMap(m, c, line, op))
<1>1. CASE line.kind = "entry"
  <2>1. /\ line.name \in Names /\ Tagged(line.name, line.locale) \in Names
        /\ line.value \in Values \cup {NoValue}
        /\ c.group \in Groups
    BY <1>1 DEF Line, EntryText, GroupLine, Cursor
  <2>2. Kept(m, m)
    BY DEF Kept
  <2>3. QED
    BY <2>1, <2>2, SetEntryKept DEF LineMap, ParseDeletion, ParseValue
<1>2. CASE line.kind # "entry"
  BY <1>2 DEF LineMap, Kept
<1>3. QED
  BY <1>1, <1>2

\* A line of a file leaves no pending change.
LEMMA LinePristine ==
    ASSUME NEW m \in EntryMap, NEW c \in Cursor, NEW line \in Line, NEW op, Pristine(m)
    PROVE  Pristine(LineMap(m, c, line, op))
<1>1. CASE line.kind = "entry"
  <2>1. /\ line.name \in Names /\ Tagged(line.name, line.locale) \in Names
        /\ line.value \in Values \cup {NoValue}
        /\ c.group \in Groups
    BY <1>1 DEF Line, EntryText, GroupLine, Cursor
  <2>2. "Dirty" \notin LineOptions(c, line, op) /\ "Notify" \notin LineOptions(c, line, op)
    BY DEF LineOptions, When
  <2>3. Pristine(ParseDeletion(m, c, line, op))
    BY <2>1, <2>2, SetEntryPristine DEF ParseDeletion
  <2>4. Pristine(ParseValue(m, c, line, op))
    <3> DEFINE o == LineOptions(c, line, op) \cup When(op.global, "Global")
                    \cup When(line.locale # "none", "Localized")
                    \cup When(line.locale = "country", "LocalizedCountry")
               n == IF IsForeign(line) THEN Tagged(line.name, line.locale) ELSE line.name
    <3>1. "Dirty" \notin o /\ "Notify" \notin o
      BY <2>2 DEF When
    <3>2. n \in Names
      BY <2>1
    <3>3. ParseValue(m, c, line, op) = SetEntry(m, c.group, n, line.value, o)
      BY DEF ParseValue
    <3> HIDE DEF o, n
    <3>4. QED
      BY <2>1, <3>1, <3>2, <3>3, SetEntryPristine
  <2>5. QED
    BY <2>3, <2>4 DEF LineMap
<1>2. CASE line.kind # "entry"
  BY <1>2 DEF LineMap
<1>3. QED
  BY <1>1, <1>2

\* The end of a file keeps the frame and brings no flags.
LEMMA LockGroupsKept ==
    ASSUME NEW m \in EntryMap, NEW c \in Cursor
    PROVE  Kept(m, LockGroups(m, c)) /\ (Pristine(m) => Pristine(LockGroups(m, c)))
<1> DEFINE e == LockedMarker
           m2 == LockGroups(m, c)
<1>1. e \in Entry /\ e # NoEntry /\ ~Flagged(e)
  <2>1. e \in Entry
    BY DEF LockedMarker, FreshEntry, Entry
  <2>2. QED
    BY <2>1, SentinelAssumption DEF Flagged, LockedMarker, FreshEntry
<1>2. \A j \in EntryKey : \/ m2[j] = m[j]
                        \/ /\ j = MarkerOf(j.group) /\ ~GroupIsImmutable(m, j.group)
                           /\ m2[j] = e
  BY LockGroupsShape
<1> HIDE DEF e, m2
<1>3. Kept(m, m2)
  BY <1>1, <1>2 DEF Kept, GroupIsImmutable, Has
<1>4. Pristine(m) => Pristine(m2)
  BY <1>1, <1>2 DEF Pristine, Has
<1>5. QED
  BY <1>3, <1>4 DEF m2

\* What deleteGroup() does to each slot.
LEMMA DeleteGroupShape ==
    ASSUME TypeOK, NEW g \in Groups, NEW o, DeleteGroup(g, o), NEW j \in EntryKey
    PROVE  \/ entryMap'[j] = entryMap[j]
           \/ /\ j.group \in Groups /\ j.name \in Names
              /\ Has(entryMap, MarkerOf(j.group))
              /\ entryMap'[j]
                   = SetEntry(entryMap, j.group, j.name, NoValue, o \cup {"Deleted"})[j]
<1> DEFINE chosen == Deletable(entryMap, bFileImmutable, g)
<1>1. entryMap' = [k \in EntryKey |->
                 IF k \in chosen
                 THEN SetEntry(entryMap, k.group, k.name, NoValue, o \cup {"Deleted"})[k]
                 ELSE entryMap[k]]
  BY DEF DeleteGroup, DeleteGroupMap
<1>2. j \in chosen => /\ j.group \in Groups /\ j.name \in Names
                      /\ Has(entryMap, MarkerOf(j.group))
  BY DEF Deletable, KeyList, EntryKey
<1> HIDE DEF chosen
<1>3. QED
  BY <1>1, <1>2

\* deleteGroup() keeps every locked entry and group: it skips the keys it may not write.
LEMMA DeleteGroupKept ==
    ASSUME TypeOK, NEW g \in Groups, NEW o, DeleteGroup(g, o)
    PROVE  Kept(entryMap, entryMap')
<1> DEFINE S(j) == SetEntry(entryMap, j.group, j.name, NoValue, o \cup {"Deleted"})
           C(j) == /\ j.group \in Groups /\ j.name \in Names
                   /\ Has(entryMap, MarkerOf(j.group))
                   /\ entryMap'[j] = S(j)[j]
<1>1. \A j \in EntryKey : entryMap'[j] = entryMap[j] \/ C(j)
  BY DeleteGroupShape
<1>2. \A j \in EntryKey : C(j) => Kept(entryMap, S(j))
  BY SetEntryKept DEF TypeOK
<1>3. \A j \in EntryKey : Has(entryMap, MarkerOf(j.group)) => Has(entryMap', MarkerOf(j.group))
  <2> SUFFICES ASSUME NEW j \in EntryKey
               PROVE  entryMap'[MarkerOf(j.group)] = entryMap[MarkerOf(j.group)]
    BY DEF Has
  <2>1. MarkerOf(j.group) \in EntryKey /\ MarkerOf(j.group).name \notin Names
    BY SentinelAssumption DEF MarkerOf, Slot, EntryKey
  <2>2. QED
    BY <1>1, <2>1
<1> HIDE DEF S
<1>4. \A j \in EntryKey : C(j) =>
        /\ IsImmutable(entryMap, j) /\ ~j.local => entryMap'[j] = entryMap[j]
        /\ GroupIsImmutable(entryMap, j.group) /\ Has(entryMap', j) => Has(entryMap, j)
        /\ Has(entryMap, j) /\ ~j.local => Has(entryMap', j)
  BY <1>2 DEF Kept, Has
<1>5. QED
  BY <1>1, <1>3, <1>4 DEF Kept, Has

\* revertToDefault(), the one call of the application that changes an immutable entry.
LEMMA RevertRespects ==
    ASSUME TypeOK, NEW g \in Groups, NEW n \in Names, NEW o
    PROVE  Respects(entryMap, RevertEntry(entryMap, g, n, o))
<1> DEFINE m == entryMap
           m2 == RevertEntry(entryMap, g, n, o)
           k == Slot(g, n, FALSE, FALSE)
<1>1. k \in EntryKey /\ k.name \in Names
  BY SlotType DEF Slot
<1>2. m2 = m \/ RevertedTo(m, m2, k)
  BY RevertEntryShape DEF TypeOK
<1>3. CASE m2 = m
  BY <1>3, KeptRespects DEF Kept, TypeOK
<1>4. CASE RevertedTo(m, m2, k)
  <2>1. PICK e \in Entry : m2 = [m EXCEPT ![k] = e] /\ e.reverted
    BY <1>4 DEF RevertedTo
  <2>2. /\ Has(m, k) /\ Has(m2, k) /\ m2[k].reverted
        /\ \A j \in EntryKey : j # k => m2[j] = m[j]
    BY <1>1, <1>4, <2>1, SentinelAssumption DEF RevertedTo, Has, TypeOK, EntryMap
  <2>3. \A j \in EntryKey : m2[MarkerOf(j.group)] = m[MarkerOf(j.group)]
    <3>1. \A j \in EntryKey : MarkerOf(j.group) \in EntryKey /\ k # MarkerOf(j.group)
      BY <1>1, NoMarker, MarkerType DEF EntryKey
    <3>2. QED
      BY <2>2, <3>1
  <2> HIDE DEF m2, k
  <2>4. QED
    BY <2>2, <2>3 DEF Respects, Has, IsImmutable, GroupIsImmutable, m2
<1>5. QED
  BY <1>2, <1>3, <1>4

\* Every step but the start of a new parse.
LEMMA StepRespects ==
    ASSUME TypeOK, Next
    PROVE  Reparse \/ Respects(entryMap, entryMap')
<1>1. Respects(entryMap, entryMap)
  BY KeptRespects DEF Kept, TypeOK
<1>2. CASE OpenFile \/ NextStage
  BY <1>1, <1>2 DEF OpenFile, NextStage
<1>3. ASSUME NEW line \in scene.lines, ReadLine(line) PROVE Respects(entryMap, entryMap')
  <2>1. line \in Line
    BY CascadeAssumption DEF TypeOK
  <2>2. Kept(entryMap, entryMap')
    BY <1>3, <2>1, LineKept DEF ReadLine, TypeOK
  <2>3. QED
    BY <2>2, KeptRespects DEF TypeOK
<1>4. CASE CloseFile
  <2>1. Kept(entryMap, entryMap')
    BY <1>4, LockGroupsKept DEF CloseFile, TypeOK
  <2>2. QED
    BY <2>1, KeptRespects DEF TypeOK
<1>5. ASSUME NEW t \in Touched, NEW o \in scene.options, NEW v \in Values \cup {NoValue},
             PutData(t[1], t[2], v, o)
      PROVE  Respects(entryMap, entryMap')
  <2>1. t[1] \in Groups /\ t[2] \in Names
    BY CascadeAssumption, IniAssumption
  <2>2. Kept(entryMap, entryMap')
    BY <1>5, <2>1, SetEntryKept DEF PutData, PutMap, TypeOK
  <2>3. QED
    BY <2>2, KeptRespects DEF TypeOK
<1>6. ASSUME NEW t \in Touched, NEW o \in scene.options, RevertToDefault(t[1], t[2], o)
      PROVE  Respects(entryMap, entryMap')
  <2>1. t[1] \in Groups /\ t[2] \in Names
    BY CascadeAssumption, IniAssumption
  <2>2. QED
    BY <1>6, <2>1, RevertRespects DEF RevertToDefault
<1>7. ASSUME NEW t \in Touched, NEW o \in scene.options, DeleteGroup(t[1], o)
      PROVE  Respects(entryMap, entryMap')
  <2>1. t[1] \in Groups
    BY CascadeAssumption
  <2>2. Kept(entryMap, entryMap')
    BY <1>7, <2>1, DeleteGroupKept
  <2>3. QED
    BY <2>2, KeptRespects DEF TypeOK
<1>8. CASE MarkAsClean
  BY <1>8, CleanEntriesTrims, TrimsRespects DEF MarkAsClean, TypeOK
<1>9. ASSUME NEW g \in BOOLEAN, Sync(g) PROVE Respects(entryMap, entryMap')
  <2>1. Trims(entryMap, entryMap')
    BY <1>9, SyncTrims
  <2>2. QED
    BY <2>1, TrimsRespects DEF TypeOK
<1>10. QED
  BY <1>2, <1>3, <1>4, <1>5, <1>6, <1>7, <1>8, <1>9 DEF Next, WriteEntry, DeleteEntry

-----------------------------------------------------------------------------
(* Lock-down *)

\* Lock-down of entries, for every cascade and every sequence of calls (KEntryMap::setEntry()
\* turns the write away, whatever file or call it comes from).
THEOREM EntryLockdown == Spec => LockedEntryKept
<1>1. ASSUME TypeOK, [Next]_vars
      PROVE  [SameParse => \A g \in Groups, n \in Names, d \in BOOLEAN :
                LET k == Slot(g, n, FALSE, d)
                IN  IsImmutable(entryMap, k) =>
                      /\ Has(entryMap', k)
                      /\ \/ entryMap'[k].reverted
                         \/ /\ entryMap'[k].immutable
                            /\ entryMap'[k].value = entryMap[k].value
                            /\ entryMap'[k].deleted = entryMap[k].deleted]_vars
  <2> SUFFICES ASSUME Next, SameParse, NEW g \in Groups, NEW n \in Names, NEW d \in BOOLEAN,
                      IsImmutable(entryMap, Slot(g, n, FALSE, d))
               PROVE  LET k == Slot(g, n, FALSE, d)
                      IN  /\ Has(entryMap', k)
                          /\ \/ entryMap'[k].reverted
                             \/ /\ entryMap'[k].immutable
                                /\ entryMap'[k].value = entryMap[k].value
                                /\ entryMap'[k].deleted = entryMap[k].deleted
    BY <1>1
  <2>1. Respects(entryMap, entryMap')
    BY <1>1, StepRespects DEF Reparse, SameParse
  <2> DEFINE k == Slot(g, n, FALSE, d)
  <2>2. k \in EntryKey /\ ~k.local /\ k.name \in Names
    BY SlotType DEF Slot
  <2> HIDE DEF k
  <2>3. IsImmutable(entryMap, k)
    BY DEF k
  <2>4. /\ Has(entryMap', k)
        /\ \/ entryMap'[k].reverted
           \/ /\ entryMap'[k].immutable
              /\ entryMap'[k].value = entryMap[k].value
              /\ entryMap'[k].deleted = entryMap[k].deleted
    BY <2>1, <2>2, <2>3 DEF Respects
  <2>5. QED
    BY <2>4 DEF k
<1>2. QED
  BY <1>1, TypeCorrect, PTL DEF Spec, LockedEntryKept

\* Lock-down of groups, likewise.
THEOREM GroupLockdown == Spec => LockedGroupGainsNoKey
<1>1. ASSUME TypeOK, [Next]_vars
      PROVE  [SameParse => \A k \in EntryKey :
                GroupIsImmutable(entryMap, k.group) =>
                    /\ GroupIsImmutable(entryMap', k.group)
                    /\ Has(entryMap', k) => Has(entryMap, k)]_vars
  <2> SUFFICES ASSUME Next, SameParse
               PROVE  \A k \in EntryKey :
                        GroupIsImmutable(entryMap, k.group) =>
                            /\ GroupIsImmutable(entryMap', k.group)
                            /\ Has(entryMap', k) => Has(entryMap, k)
    BY <1>1
  <2>1. Respects(entryMap, entryMap')
    BY <1>1, StepRespects DEF Reparse, SameParse
  <2>2. QED
    BY <2>1 DEF Respects
<1>2. QED
  BY <1>1, TypeCorrect, PTL DEF Spec, LockedGroupGainsNoKey

\* No key is ever out of reach of keyList(), entryMap() and deleteGroup().
THEOREM MarkedGroups == Spec => []GroupsAreMarked
<1>1. Init => GroupsAreMarked
  BY DEF Init, GroupsAreMarked, EmptyMap, Has
<1>2. TypeOK /\ GroupsAreMarked /\ [Next]_vars => GroupsAreMarked'
  <2> SUFFICES ASSUME TypeOK, GroupsAreMarked, [Next]_vars PROVE GroupsAreMarked'
    OBVIOUS
  <2>1. CASE Reparse
    BY <2>1 DEF Reparse, GroupsAreMarked, EmptyMap, Has
  <2>2. CASE UNCHANGED vars
    BY <2>2 DEF vars, GroupsAreMarked
  <2>3. CASE Respects(entryMap, entryMap')
    <3>1. \A k \in EntryKey : MarkerOf(k.group) \in EntryKey /\ ~MarkerOf(k.group).local
      BY DEF EntryKey, MarkerOf, Slot
    <3>2. \A k \in EntryKey : Has(entryMap', k) => Has(entryMap', MarkerOf(k.group))
      BY <2>3, <3>1 DEF Respects, GroupsAreMarked
    <3>3. QED
      BY <3>2 DEF GroupsAreMarked
  <2>4. QED
    BY <2>1, <2>2, <2>3, StepRespects
<1>3. QED
  BY <1>1, <1>2, TypeCorrect, PTL DEF Spec

-----------------------------------------------------------------------------
(* Defaults and reverted entries *)

\* A file is only open while the cascade is read.
OpenInStage == open => stage # "ready"

\* No file is open once the object is ready: CloseFile comes before every NextStage.
LEMMA FilesInStages == Spec => []OpenInStage
<1>1. Init => OpenInStage
  BY DEF Init, OpenInStage
<1>2. OpenInStage /\ [Next]_vars => OpenInStage'
  BY DEF OpenInStage, Next, vars, reading, OpenFile, ReadLine, CloseFile, NextStage, Reparse,
         WriteEntry, DeleteEntry, PutData, RevertToDefault, DeleteGroup, MarkAsClean, Sync
<1>3. QED
  BY <1>1, <1>2, PTL DEF Spec

\* What the calls of the application make of a map: defaults stay, and what is reverted has the
\* value of its default.
AppStep(m, m2) ==
    \A j \in EntryKey :
        /\ j.default => m2[j] = m[j]
        /\ Has(m2, j) /\ m2[j].reverted =>
              \/ m2[j] = m[j]
              \/ Has(m, j) /\ m[j].reverted /\ m2[j].value = m[j].value
              \/ m2[j].value = DefaultValue(m, j)

\* writeEntry() and deleteEntry() are steps of that kind.
LEMMA WriteIsAppStep ==
    ASSUME NEW m \in EntryMap, NEW g \in Groups, NEW n \in Names,
           NEW v \in Values \cup {NoValue}, NEW o, "Default" \notin o
    PROVE  AppStep(m, SetEntry(m, g, n, v, o))
<1> DEFINE m2 == SetEntry(m, g, n, v, o)
<1>1. \A j \in EntryKey : j.default => m2[j] = m[j]
  BY SetEntryLeavesDefaults
<1>2. Unreverts(m, m2)
  BY SetEntryUnreverts
<1> HIDE DEF m2
<1>3. AppStep(m, m2)
  BY <1>1, <1>2 DEF AppStep, Unreverts
<1>4. QED
  BY <1>3 DEF m2

\* revertToDefault() is a step of that kind: it leaves the value of the default.
LEMMA RevertIsAppStep ==
    ASSUME NEW m \in EntryMap, NEW g \in Groups, NEW n \in Names, NEW o
    PROVE  AppStep(m, RevertEntry(m, g, n, o))
<1> DEFINE m2 == RevertEntry(m, g, n, o)
           k == Slot(g, n, FALSE, FALSE)
<1>1. k \in EntryKey /\ ~k.default
  BY SlotType DEF Slot
<1>2. m2 = m \/ RevertedTo(m, m2, k)
  BY RevertEntryShape
<1> HIDE DEF k, m2
<1>3. ASSUME m2 = m PROVE AppStep(m, m2)
  BY <1>3 DEF AppStep
<1>4. ASSUME RevertedTo(m, m2, k) PROVE AppStep(m, m2)
  <2>1. PICK e \in Entry : m2 = [m EXCEPT ![k] = e] /\ e.value = DefaultValue(m, k)
    BY <1>4 DEF RevertedTo
  <2>2. m2[k] = e /\ \A j \in EntryKey : j # k => m2[j] = m[j]
    BY <1>1, <2>1 DEF EntryMap
  <2>3. \A j \in EntryKey : j.default => m2[j] = m[j]
    BY <1>1, <2>2
  <2>4. \A j \in EntryKey : m2[j] = m[j] \/ m2[j].value = DefaultValue(m, j)
    BY <2>1, <2>2
  <2>5. QED
    BY <1>1, <2>3, <2>4 DEF AppStep
<1>5. AppStep(m, m2)
  BY <1>2, <1>3, <1>4
<1>6. QED
  BY <1>5 DEF m2

\* Cleaning and writing spare what has no flags, and defaults have none.
LEMMA TrimsIsAppStep ==
    ASSUME ReadIsClean, NEW m2, Trims(entryMap, m2)
    PROVE  AppStep(entryMap, m2)
<1>1. \A j \in EntryKey : j.default => m2[j] = entryMap[j]
  BY DEF ReadIsClean, Trims, Flagged, Has
<1>2. \A j \in EntryKey : Has(m2, j) /\ m2[j].reverted =>
        Has(entryMap, j) /\ entryMap[j].reverted /\ m2[j].value = entryMap[j].value
  BY DEF Trims
<1>3. QED
  BY <1>1, <1>2 DEF AppStep

\* deleteGroup() is a step of that kind.
LEMMA DeleteGroupIsAppStep ==
    ASSUME TypeOK, NEW g \in Groups, NEW o, DeleteGroup(g, o), "Default" \notin o
    PROVE  AppStep(entryMap, entryMap')
<1> DEFINE S(j) == SetEntry(entryMap, j.group, j.name, NoValue, o \cup {"Deleted"})
<1>1. \A j \in EntryKey : \/ entryMap'[j] = entryMap[j]
                        \/ /\ j.group \in Groups /\ j.name \in Names
                           /\ entryMap'[j] = S(j)[j]
  BY DeleteGroupShape
<1>2. \A j \in EntryKey : j.group \in Groups /\ j.name \in Names => AppStep(entryMap, S(j))
  BY WriteIsAppStep DEF TypeOK
<1> HIDE DEF S
<1>3. \A j \in EntryKey : j.default => entryMap'[j] = entryMap[j]
  BY <1>1, <1>2 DEF AppStep
<1>4. \A j \in EntryKey : Has(entryMap', j) /\ entryMap'[j].reverted =>
              \/ entryMap'[j] = entryMap[j]
              \/ /\ Has(entryMap, j) /\ entryMap[j].reverted
                 /\ entryMap'[j].value = entryMap[j].value
              \/ entryMap'[j].value = DefaultValue(entryMap, j)
  BY <1>1, <1>2 DEF AppStep, Has
<1>5. QED
  BY <1>3, <1>4 DEF AppStep

\* No flag of the application asks for a default to be written (convertToOptions()).
LEMMA AppOptionsHaveNoDefault ==
    ASSUME TypeOK, NEW o \in scene.options
    PROVE  "Default" \notin o
BY CascadeAssumption DEF TypeOK, AppOptions

\* Every step of the application.
LEMMA ReadyStep ==
    ASSUME TypeOK, ReadIsClean, OpenInStage, Next, stage = "ready", stage' = "ready"
    PROVE  AppStep(entryMap, entryMap')
<1>1. ASSUME NEW t \in Touched, NEW o \in scene.options, NEW v \in Values \cup {NoValue},
             PutData(t[1], t[2], v, o)
      PROVE  AppStep(entryMap, entryMap')
  <2>1. t[1] \in Groups /\ t[2] \in Names
    BY CascadeAssumption, IniAssumption
  <2>2. "Default" \notin PutOptions(v, o)
    BY AppOptionsHaveNoDefault DEF PutOptions, When
  <2>3. QED
    BY <1>1, <2>1, <2>2, WriteIsAppStep DEF PutData, PutMap, TypeOK
<1>2. ASSUME NEW t \in Touched, NEW o \in scene.options, RevertToDefault(t[1], t[2], o)
      PROVE  AppStep(entryMap, entryMap')
  <2>1. t[1] \in Groups /\ t[2] \in Names
    BY CascadeAssumption, IniAssumption
  <2>2. QED
    BY <1>2, <2>1, RevertIsAppStep DEF RevertToDefault, TypeOK
<1>3. ASSUME NEW t \in Touched, NEW o \in scene.options, DeleteGroup(t[1], o)
      PROVE  AppStep(entryMap, entryMap')
  BY <1>3, AppOptionsHaveNoDefault, DeleteGroupIsAppStep, CascadeAssumption
<1>4. CASE MarkAsClean
  BY <1>4, CleanEntriesTrims, TrimsIsAppStep DEF MarkAsClean, TypeOK
<1>5. ASSUME NEW g \in BOOLEAN, Sync(g) PROVE AppStep(entryMap, entryMap')
  BY <1>5, SyncTrims, TrimsIsAppStep
<1>6. ~OpenFile /\ ~NextStage /\ ~CloseFile /\ ~Reparse /\ \A line \in scene.lines : ~ReadLine(line)
  BY DEF OpenInStage, OpenFile, NextStage, CloseFile, Reparse, ReadLine
<1>7. QED
  BY <1>1, <1>2, <1>3, <1>4, <1>5, <1>6 DEF Next, WriteEntry, DeleteEntry

\* The steps of the application leave the object ready.
LEMMA StepKinds ==
    Next => \/ OpenFile \/ NextStage \/ CloseFile \/ Reparse
            \/ \E line \in scene.lines : ReadLine(line)
            \/ stage = "ready" /\ stage' = "ready"
<1> DEFINE Ready == stage = "ready" /\ stage' = "ready"
<1>1. \A g, n, v, o : PutData(g, n, v, o) => Ready
  BY DEF PutData, reading
<1>2. \A g, n, o : RevertToDefault(g, n, o) => Ready
  BY DEF RevertToDefault, reading
<1>3. \A g, o : DeleteGroup(g, o) => Ready
  BY DEF DeleteGroup, reading
<1>4. MarkAsClean => Ready
  BY DEF MarkAsClean, reading
<1>5. \A g : Sync(g) => Ready
  BY DEF Sync, reading
<1>6. QED
  BY <1>1, <1>2, <1>3, <1>4, <1>5 DEF Next, WriteEntry, DeleteEntry

\* What was read carries no flag until the application changes it, and a default never does, so
\* writeConfig() can tell changes by their dirty flag.
THEOREM CleanWhenRead == Spec => []ReadIsClean
<1>1. Init => ReadIsClean
  BY DEF Init, ReadIsClean, EmptyMap, Has
<1>2. TypeOK /\ OpenInStage /\ ReadIsClean /\ [Next]_vars => ReadIsClean'
  <2> SUFFICES ASSUME TypeOK, OpenInStage, ReadIsClean, [Next]_vars PROVE ReadIsClean'
    OBVIOUS
  <2>1. ASSUME stage # "ready", Pristine(entryMap') PROVE ReadIsClean'
    BY <2>1 DEF Pristine, Flagged, ReadIsClean
  <2>2. stage # "ready" => Pristine(entryMap)
    BY DEF ReadIsClean, Pristine, Flagged
  <2>3. CASE OpenFile \/ NextStage
    BY <2>1, <2>2, <2>3 DEF OpenFile, NextStage
  <2>4. ASSUME NEW line \in scene.lines, ReadLine(line) PROVE ReadIsClean'
    <3>1. line \in Line /\ stage # "ready"
      BY <2>4, CascadeAssumption DEF TypeOK, ReadLine, OpenInStage
    <3>2. Pristine(entryMap')
      BY <2>2, <2>4, <3>1, LinePristine DEF ReadLine, TypeOK
    <3>3. QED
      BY <2>1, <3>1, <3>2
  <2>5. CASE CloseFile
    <3>1. stage # "ready"
      BY <2>5 DEF CloseFile, OpenInStage
    <3>2. Pristine(entryMap')
      BY <2>2, <2>5, <3>1, LockGroupsKept DEF CloseFile, TypeOK
    <3>3. QED
      BY <2>1, <3>1, <3>2
  <2>6. CASE Reparse
    BY <2>6 DEF Reparse, ReadIsClean, EmptyMap, Has
  <2>7. CASE Next /\ stage = "ready" /\ stage' = "ready"
    <3>1. \A j \in EntryKey : j.default => entryMap'[j] = entryMap[j]
      BY <2>7, ReadyStep DEF AppStep
    <3>2. QED
      BY <2>7, <3>1 DEF ReadIsClean, Has
  <2>8. CASE UNCHANGED vars
    BY <2>8 DEF vars, reading, ReadIsClean
  <2>9. QED
    BY <2>3, <2>4, <2>5, <2>6, <2>7, <2>8, StepKinds
<1>3. QED
  BY <1>1, <1>2, TypeCorrect, FilesInStages, PTL DEF Spec

\* No call of the application changes what the files gave as a default, so hasDefault() and a
\* later revertToDefault() answer for the files.
THEOREM DefaultsSurvive == Spec => DefaultsKept
<1>1. ASSUME TypeOK, OpenInStage, ReadIsClean, [Next]_vars
      PROVE  [stage = "ready" /\ stage' = "ready" =>
                \A k \in EntryKey : k.default => entryMap'[k] = entryMap[k]]_vars
  BY <1>1, ReadyStep DEF AppStep
<1>2. QED
  BY <1>1, TypeCorrect, FilesInStages, CleanWhenRead, PTL DEF Spec, DefaultsKept

\* An entry that counts as reverted has the value it would have without the user's file.
THEOREM RevertedEntries == Spec => []RevertedIsDefault
<1> DEFINE Reads(m, k) == Has(m, k) /\ m[k].reverted => m[k].value = DefaultValue(m, k)
           All(m) == \A g \in Groups, n \in Names : Reads(m, Slot(g, n, FALSE, FALSE))
<1>1. RevertedIsDefault <=> All(entryMap)
  BY DEF RevertedIsDefault, DefaultValue, Slot
<1>2. RevertedIsDefault' <=> All(entryMap')
  BY DEF RevertedIsDefault, DefaultValue, Slot
<1>3. Init => RevertedIsDefault
  BY SlotType DEF Init, RevertedIsDefault, EmptyMap, Has
<1>4. ASSUME TypeOK, OpenInStage, ReadIsClean, ReadIsClean', RevertedIsDefault, [Next]_vars
      PROVE  RevertedIsDefault'
  <2> SUFFICES ASSUME NEW g \in Groups, NEW n \in Names
               PROVE  Reads(entryMap', Slot(g, n, FALSE, FALSE))
    BY <1>2
  <2> DEFINE k == Slot(g, n, FALSE, FALSE)
             d == Slot(g, n, FALSE, TRUE)
  <2>1. k \in EntryKey /\ d \in EntryKey /\ d.default
    BY SlotType DEF Slot
  <2>2. \A m : DefaultValue(m, k) = IF Has(m, d) THEN m[d].value ELSE NoValue
    BY DEF DefaultValue, Slot
  <2>3. Reads(entryMap, k)
    BY <1>1, <1>4
  <2> SUFFICES Reads(entryMap', k)
    OBVIOUS
  <2> HIDE DEF k, d
  <2>4. CASE stage' # "ready"
    BY <1>4, <2>1, <2>4 DEF ReadIsClean
  <2>5. CASE Next /\ stage # "ready" /\ stage' = "ready"
    <3>1. Pristine(entryMap)
      BY <1>4, <2>5 DEF ReadIsClean, Pristine, Flagged
    <3>2. CASE \E line \in scene.lines : ReadLine(line)
      BY <2>5, <3>2 DEF ReadLine
    <3>3. CASE CloseFile
      BY <1>4, <2>1, <3>1, <3>3, LockGroupsKept DEF CloseFile, TypeOK, Pristine, Flagged
    <3>4. CASE OpenFile \/ NextStage
      BY <2>1, <3>1, <3>4 DEF OpenFile, NextStage, Pristine, Flagged
    <3>5. ~Reparse
      BY <2>5 DEF Reparse
    <3>6. QED
      BY <2>5, <3>2, <3>3, <3>4, <3>5, StepKinds
  <2>6. CASE Next /\ stage = "ready" /\ stage' = "ready"
    <3>1. AppStep(entryMap, entryMap')
      BY <1>4, <2>6, ReadyStep
    <3>2. DefaultValue(entryMap', k) = DefaultValue(entryMap, k)
      BY <2>1, <2>2, <3>1 DEF AppStep, Has
    <3>3. QED
      BY <2>1, <2>3, <3>1, <3>2 DEF AppStep, Has
  <2>7. CASE UNCHANGED vars
    BY <2>3, <2>7 DEF vars
  <2>8. QED
    BY <1>4, <2>4, <2>5, <2>6, <2>7
<1>5. QED
  BY <1>3, <1>4, TypeCorrect, FilesInStages, CleanWhenRead, PTL DEF Spec

-----------------------------------------------------------------------------
(* Reading back *)

\* The entry setEntry() leaves in an unlocalized slot that was held and may be changed has the
\* value written, and no localized entry hides it.
LEMMA WriteLands ==
    ASSUME NEW m \in EntryMap, NEW g \in Groups, NEW n \in Names, NEW v \in Values,
           Has(m, Slot(g, n, FALSE, FALSE)), ~m[Slot(g, n, FALSE, FALSE)].immutable
    PROVE  GetEntry(SetEntry(m, g, n, v, {"Dirty"}), g, n, TRUE, FALSE) = v
<1> DEFINE k == Slot(g, n, FALSE, FALSE)
           j == Slot(g, n, TRUE, FALSE)
           o == {"Dirty"}
           e == Stored(m, k, v, o)
           out == Outcome(m, k, v, o)
           own == Assign(m, k, v, o)
           m2 == DropLocalized(own, k, out)
<1>1. /\ k \in EntryKey /\ ~k.local /\ ~k.default /\ k.group = g /\ k.name = n
      /\ j \in EntryKey /\ j.local /\ ~j.default /\ j.group = g /\ j.name = n
  BY SlotType DEF Slot
<1>2. SetEntry(m, g, n, v, o) = m2
  <2>1. ("Localized" \in o) = FALSE /\ ("Default" \in o) = FALSE
    OBVIOUS
  <2>2. QED
    BY <1>1, <2>1 DEF SetEntry
<1>3. Has(m, k) /\ ~m[k].immutable /\ m[k] \in Entry
  BY <1>1 DEF Has, EntryMap
<1>4. e \in Entry /\ e.value = v /\ ~e.deleted /\ e # NoEntry
  <2>1. e \in Entry
    BY <1>1, StoredType
  <2>2. e.value = v /\ ~e.deleted
    BY SentinelAssumption DEF Stored, StoredOver, Found
  <2>3. QED
    BY <2>1, <2>2, SentinelAssumption
<1> HIDE DEF k, j, e
<1>5. out = IF SameEntry(m[k], e) THEN "unchanged" ELSE "changed"
  BY <1>1, <1>3 DEF Outcome, OutcomeOf, Refused, e
<1>6. own \in EntryMap
  BY <1>1, AssignType
<1>7. own[k].value = v /\ ~own[k].deleted /\ own[k] # NoEntry
  <2>1. CASE out = "unchanged"
    BY <1>3, <1>4, <1>5, <2>1 DEF Assign, AssignAs, SameEntry, Has
  <2>2. CASE out = "changed"
    <3>1. own = [m EXCEPT ![k] = e]
      BY <2>2 DEF Assign, AssignAs, e
    <3>2. QED
      BY <1>1, <1>4, <3>1 DEF EntryMap
  <2>3. QED
    BY <1>5, <2>1, <2>2
<1> HIDE DEF own
<1>8. m2[k] = own[k] /\ m2[j] = NoEntry
  <2>1. out \in {"changed", "unchanged"}
    BY <1>5
  <2>2. ~k.local /\ j = Slot(k.group, k.name, TRUE, FALSE)
    BY DEF Slot, k, j
  <2>3. m2[Slot(k.group, k.name, TRUE, FALSE)] = NoEntry
    BY <1>1, <1>6, <2>1, <2>2, DropLocalizedDrops
  <2>4. m2[k] = own[k]
    BY <1>1, <1>6, <2>2, DropLocalizedShape
  <2>5. QED
    BY <2>2, <2>3, <2>4
<1> HIDE DEF m2
<1>9. FindEntry(m2, g, n, TRUE, FALSE) = k
  BY <1>8 DEF FindEntry, Has, k, j
<1>10. GetEntry(m2, g, n, TRUE, FALSE) = v
  BY <1>7, <1>8, <1>9 DEF GetEntry, Has
<1>11. QED
  BY <1>2, <1>10

\* In every reachable state an unlocalized write to an existing entry is what the next read of
\* the key gives, whatever localized entries the files brought.
THEOREM WritesAreRead == Spec => []WriteIsRead
<1>1. TypeOK => WriteIsRead
  BY WriteLands, IniAssumption DEF TypeOK, WriteIsRead
<1>2. QED
  BY <1>1, TypeCorrect, PTL
=============================================================================
