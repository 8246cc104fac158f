------------------------- MODULE KConfigCopyProofs -------------------------
(***************************************************************************)
(* Proofs about KConfigCopy, for any objects, groups, names and values,    *)
(* any files without localized entries, and any number of calls.           *)
(***************************************************************************)
EXTENDS KConfigCopy, KConfigIniProofs

-----------------------------------------------------------------------------
(* Maps without localized entries *)

\* What an object's map and an entry in it are like: nothing is localized, global or reverted,
\* and every group with an entry has its marker.
SoundEntry(e) ==
    /\ e \in Entry
    /\ ~e.global /\ ~e.reverted /\ ~e.overridesGlobal
    /\ e.deleted => e.value = NoValue

Sound(m) ==
    /\ m = [k \in EntryKey |-> m[k]]
    /\ \A k \in EntryKey : Has(m, k) => /\ SoundEntry(m[k]) /\ k.local = FALSE
                                        /\ Has(m, MarkerOf(k.group))
                                        /\ k.name = Marker => ~m[k].deleted

\* The slot of a key.
At(g, n) == Slot(g, n, FALSE, FALSE)

\* The slots of keys.
Keys == {k \in EntryKey : k.local = FALSE /\ k.default = FALSE /\ k.name # Marker}

\* A key's slot is one of a map.
LEMMA AtIsKey ==
    ASSUME NEW g \in Groups, NEW n \in Names
    PROVE  At(g, n) \in Keys /\ At(g, n).group = g /\ At(g, n).name = n
<1> DEFINE k == At(g, n)
<1>1. k.group = g /\ k.name = n /\ k.local = FALSE /\ k.default = FALSE
  BY DEF At, Slot
<1>2. k \in EntryKey
  BY DEF At, Slot, EntryKey
<1> HIDE DEF k
<1>3. k \in Keys
  BY <1>1, <1>2, SentinelAssumption DEF Keys
<1>4. QED
  BY <1>1, <1>3 DEF k

\* Every key's slot is of that kind.
LEMMA KeyIsAt ==
    ASSUME NEW k \in Keys
    PROVE  k.group \in Groups /\ k.name \in Names /\ k = At(k.group, k.name) /\ k \in EntryKey
BY DEF At, Slot, Keys, EntryKey

\* A group's marker is a slot, and no key's.
LEMMA MarkerIsSlot ==
    ASSUME NEW g \in Groups
    PROVE  MarkerOf(g) \in EntryKey /\ MarkerOf(g) \notin Keys /\ MarkerOf(g).group = g
           /\ MarkerOf(g).name = Marker /\ MarkerOf(g).local = FALSE
BY DEF MarkerOf, Slot, Keys, EntryKey

\* What a key reads as in a map without localized entries.
LEMMA ReadsOf ==
    ASSUME NEW m, Sound(m), NEW t \in Groups \X Names
    PROVE  Reads(m, t) = IF Has(m, At(t[1], t[2])) THEN m[At(t[1], t[2])].value ELSE NoValue
<1> DEFINE k == At(t[1], t[2])
           j == Slot(t[1], t[2], TRUE, FALSE)
<1>1. j \in EntryKey /\ j.local = TRUE
  BY DEF Slot, EntryKey
<1>2. ~Has(m, j)
  <2> HIDE DEF j
  <2> QED
    BY <1>1 DEF Sound
<1>3. FindEntry(m, t[1], t[2], TRUE, FALSE) = k
  BY <1>2 DEF FindEntry, At
<1>4. k \in EntryKey
  <2>1. k \in Keys
    BY AtIsKey
  <2> HIDE DEF k
  <2>2. QED
    BY <2>1 DEF Keys
<1>5. Has(m, k) => (m[k].deleted => m[k].value = NoValue)
  BY <1>4 DEF Sound, SoundEntry
<1> HIDE DEF k
<1>6. QED
  BY <1>3, <1>5 DEF Reads, GetEntry, k

\* insert_or_assign(), by its outcomes.
LEMMA AssignAsIs ==
    ASSUME NEW m, NEW k, NEW e, NEW out
    PROVE  /\ out \in {"inserted", "insertedDeleted"} =>
                  AssignAs(m, k, e, out) = [EnsureMarker(m, k.group) EXCEPT ![k] = e]
           /\ out = "changed" => AssignAs(m, k, e, out) = [m EXCEPT ![k] = e]
           /\ out \notin {"inserted", "insertedDeleted", "changed"} => AssignAs(m, k, e, out) = m
<1>1. ASSUME out \in {"inserted", "insertedDeleted"}
      PROVE  AssignAs(m, k, e, out) = [EnsureMarker(m, k.group) EXCEPT ![k] = e]
  BY <1>1, Zenon DEF AssignAs
<1>2. ASSUME out = "changed"
      PROVE  AssignAs(m, k, e, out) = [m EXCEPT ![k] = e]
  BY <1>2 DEF AssignAs
<1>3. ASSUME out \notin {"inserted", "insertedDeleted", "changed"}
      PROVE  AssignAs(m, k, e, out) = m
  BY <1>3 DEF AssignAs
<1>4. QED
  BY <1>1, <1>2, <1>3

\* A slot's new entry, and perhaps its group's marker, is all there is new.
SetOnly(m, m2, k) ==
    /\ m2 = [i \in EntryKey |-> m2[i]]
    /\ \A i \in EntryKey : i # k =>
           m2[i] = m[i] \/ (i = MarkerOf(k.group) /\ ~Has(m, i) /\ m2[i] = FreshEntry)
    /\ Has(m2, k) => Has(m, k) \/ Has(m2, MarkerOf(k.group))

\* m2 is what insert_or_assign() makes of m for slot k, e what setEntry() wants there.
Assigned(m, m2, k, e, out) ==
    /\ SetOnly(m, m2, k)
    /\ Refused(m, k) => m2 = m /\ out = "refused"
    /\ ~Refused(m, k) => \/ m2[k] = e /\ out \in {"inserted", "insertedDeleted", "changed"}
                         \/ Has(m, k) /\ m2 = m /\ SameEntry(m[k], e) /\ out = "unchanged"
    /\ out = "insertedDeleted" => ~Has(m, k) /\ e.deleted
    /\ out \in {"inserted", "changed"} => ~Refused(m, k)

\* insert_or_assign() on behalf of setEntry().
LEMMA AssignGives ==
    ASSUME NEW m, m = [i \in EntryKey |-> m[i]],
           NEW k \in EntryKey, k.name # Marker, k.local = FALSE, NEW v, NEW o
    PROVE  Assigned(m, Assign(m, k, v, o), k, Stored(m, k, v, o), Outcome(m, k, v, o))
<1> DEFINE m2 == Assign(m, k, v, o)
           e  == Stored(m, k, v, o)
           out == Outcome(m, k, v, o)
           j == MarkerOf(k.group)
<1>1. m2 = AssignAs(m, k, e, out)
  BY DEF Assign
<1>2. out = IF Refused(m, k) THEN "refused"
            ELSE IF ~Has(m, k) THEN (IF e.deleted THEN "insertedDeleted" ELSE "inserted")
            ELSE IF SameEntry(m[k], e) THEN "unchanged" ELSE "changed"
  BY DEF Outcome, OutcomeOf
<1>3. j \in EntryKey /\ j # k
  BY MarkerIsSlot DEF EntryKey
<1> HIDE DEF m2, e, out, j
<1>4. EnsureMarker(m, k.group) = IF Has(m, j) THEN m ELSE [m EXCEPT ![j] = FreshEntry]
  BY DEF EnsureMarker, j
<1>5. FreshEntry # NoEntry
  BY FreshIsKEntry, SentinelAssumption DEF IsKEntry
<1>6. CASE out \in {"inserted", "insertedDeleted"}
  <2>1. m2 = [EnsureMarker(m, k.group) EXCEPT ![k] = e]
    BY <1>1, <1>6, AssignAsIs
  <2>2. ~Refused(m, k) /\ ~Has(m, k) /\ (out = "insertedDeleted" => e.deleted)
    BY <1>2, <1>6
  <2>3. m2 = [i \in EntryKey |-> IF i = k THEN e
                                 ELSE IF i = j /\ ~Has(m, j) THEN FreshEntry ELSE m[i]]
    BY <1>3, <1>4, <2>1
  <2>4. SetOnly(m, m2, k)
    BY <1>3, <1>5, <2>3 DEF SetOnly, Has, j
  <2>5. QED
    BY <1>6, <2>2, <2>3, <2>4 DEF Assigned, m2, e, out
<1>7. CASE out = "changed"
  <2>1. m2 = [m EXCEPT ![k] = e]
    BY <1>1, <1>7, AssignAsIs
  <2>2. ~Refused(m, k) /\ Has(m, k)
    BY <1>2, <1>7
  <2>3. QED
    BY <1>7, <2>1, <2>2 DEF SetOnly, Assigned, m2, e, out
<1>8. CASE out = "unchanged" \/ out = "refused"
  <2>1. m2 = m
    BY <1>1, <1>8, AssignAsIs
  <2>2. /\ Refused(m, k) => out = "refused"
        /\ ~Refused(m, k) => Has(m, k) /\ SameEntry(m[k], e) /\ out = "unchanged"
    BY <1>2, <1>8
  <2>3. QED
    BY <1>8, <2>1, <2>2 DEF SetOnly, Assigned, m2, e, out
<1>9. QED
  BY <1>2, <1>6, <1>7, <1>8 DEF m2, e, out

\* There is no localized entry to remove.
LEMMA DropNone ==
    ASSUME NEW m, Sound(m), NEW k \in EntryKey, k.local = FALSE, NEW out
    PROVE  DropLocalized(m, k, out) = m
<1> DEFINE i == Slot(k.group, k.name, TRUE, FALSE)
           j == Slot(k.group, k.name, TRUE, TRUE)
<1>1. i \in EntryKey /\ j \in EntryKey /\ i.local = TRUE /\ j.local = TRUE
  BY DEF Slot, EntryKey
<1>2. DropLocalized(m, k, out) =
          IF out \in {"changed", "unchanged"}
          THEN [m EXCEPT ![i] = NoEntry, ![j] = IF k.default THEN NoEntry ELSE @] ELSE m
  BY DEF DropLocalized
<1> HIDE DEF i, j
<1>3. m[i] = NoEntry /\ m[j] = NoEntry
  BY <1>1 DEF Sound, Has
<1>4. m = [x \in EntryKey |-> m[x]]
  BY DEF Sound
<1>5. [m EXCEPT ![i] = NoEntry, ![j] = IF k.default THEN NoEntry ELSE @] = m
  BY <1>1, <1>3, <1>4
<1>6. QED
  BY <1>2, <1>5

\* What is stored over such an entry, or over a fresh one, is such an entry.
LEMMA SoundStored ==
    ASSUME NEW old, SoundEntry(old), NEW k, NEW v \in Values \cup {NoValue}, NEW o,
           "Global" \notin o
    PROVE  SoundEntry(StoredOver(old, k, v, o))
BY DEF SoundEntry, StoredOver, Entry

\* A fresh entry and a group's lock are such entries, and entries that are none of a map.
LEMMA SoundFresh ==
    /\ SoundEntry(FreshEntry) /\ ~FreshEntry.deleted /\ FreshEntry # NoEntry
    /\ SoundEntry(LockedMarker) /\ ~LockedMarker.deleted /\ LockedMarker # NoEntry
<1>1. FreshEntry \in Entry
  BY FreshIsKEntry DEF IsKEntry
<1>2. /\ ~FreshEntry.global /\ ~FreshEntry.reverted /\ ~FreshEntry.overridesGlobal
      /\ ~FreshEntry.deleted
  BY DEF FreshEntry
<1>3. LockedMarker = [FreshEntry EXCEPT !.immutable = TRUE]
  BY DEF LockedMarker
<1> HIDE DEF FreshEntry, LockedMarker
<1>4. /\ LockedMarker \in Entry
      /\ ~LockedMarker.global /\ ~LockedMarker.reverted /\ ~LockedMarker.overridesGlobal
      /\ ~LockedMarker.deleted
  BY <1>1, <1>2, <1>3 DEF Entry
<1>5. QED
  BY <1>1, <1>2, <1>4, SentinelAssumption DEF SoundEntry

\* Maps stay that way when a key is written that is not localized.
LEMMA SoundAssign ==
    ASSUME NEW m, Sound(m), NEW k \in EntryKey, k.name # Marker, k.local = FALSE,
           NEW v \in Values \cup {NoValue}, NEW o, "Global" \notin o
    PROVE  Sound(Assign(m, k, v, o))
<1> DEFINE m2 == Assign(m, k, v, o)
           e  == Stored(m, k, v, o)
<1>1. m = [i \in EntryKey |-> m[i]]
  BY DEF Sound
<1>2. SoundEntry(Found(m, k))
  BY SoundFresh DEF Found, Sound
<1>3. SoundEntry(e)
  BY <1>2, SoundStored DEF Stored
<1> DEFINE out == Outcome(m, k, v, o)
<1>4. Assigned(m, m2, k, e, out)
  BY <1>1, AssignGives
<1> HIDE DEF m2, e, out
<1>5. CASE m2 = m
  BY <1>5 DEF m2
<1>6. CASE m2[k] = e
  <2>1. e # NoEntry
    BY <1>3, SentinelAssumption DEF SoundEntry
  <2>2. MarkerOf(k.group) \in EntryKey /\ MarkerOf(k.group) # k /\ MarkerOf(k.group).local = FALSE
        /\ MarkerOf(k.group).group = k.group
    BY MarkerIsSlot DEF EntryKey
  <2>3. Has(m2, MarkerOf(k.group))
    <3>1. CASE Has(m, k)
      <4>1. Has(m, MarkerOf(k.group))
        BY <3>1 DEF Sound
      <4>2. QED
        BY <4>1, <1>4, <2>2 DEF Assigned, SetOnly, Has
    <3>2. CASE ~Has(m, k)
      BY <3>2, <1>4, <1>6, <2>1 DEF Assigned, SetOnly, Has
    <3>3. QED
      BY <3>1, <3>2
  <2>4. ASSUME NEW i \in EntryKey, Has(m2, i)
        PROVE  SoundEntry(m2[i]) /\ i.local = FALSE /\ Has(m2, MarkerOf(i.group))
               /\ (i.name = Marker => ~m2[i].deleted)
    <3>1. CASE i = k
      BY <3>1, <1>3, <1>6, <2>3
    <3>2. CASE i # k /\ m2[i] = m[i]
      <4>1. SoundEntry(m2[i]) /\ i.local = FALSE /\ Has(m, MarkerOf(i.group))
            /\ (i.name = Marker => ~m2[i].deleted)
        BY <3>2, <2>4 DEF Sound, Has
      <4>2. MarkerOf(i.group) \in EntryKey /\ MarkerOf(i.group) # k
        BY MarkerIsSlot DEF EntryKey
      <4>3. Has(m2, MarkerOf(i.group))
        BY <4>1, <4>2, <1>4, SoundFresh DEF Assigned, SetOnly, Has
      <4>4. QED
        BY <4>1, <4>3
    <3>3. CASE i # k /\ m2[i] # m[i]
      <4>1. i = MarkerOf(k.group) /\ m2[i] = FreshEntry
        BY <3>3, <1>4 DEF Assigned, SetOnly
      <4>2. QED
        BY <4>1, <2>2, <2>3, SoundFresh
    <3>4. QED
      BY <3>1, <3>2, <3>3
  <2>5. m2 = [i \in EntryKey |-> m2[i]]
    BY <1>4 DEF Assigned, SetOnly
  <2>6. QED
    BY <2>4, <2>5 DEF Sound, m2
<1>7. QED
  BY <1>4, <1>5, <1>6 DEF Assigned

\* setEntry() for a key that is neither localized nor a default is what insert_or_assign() does.
LEMMA SetPlainEntry ==
    ASSUME NEW m, Sound(m), NEW g \in Groups, NEW n \in Names, NEW v \in Values \cup {NoValue},
           NEW o, {"Global", "Localized", "Default"} \cap o = {}
    PROVE  /\ SetEntry(m, g, n, v, o) = Assign(m, At(g, n), v, o)
           /\ Sound(SetEntry(m, g, n, v, o))
           /\ SetEntryDirties(m, g, n, v, o) <=>
                  Outcome(m, At(g, n), v, o) \in {"inserted", "changed"}
<1> DEFINE k == At(g, n)
           out == Outcome(m, k, v, o)
           m1 == Assign(m, k, v, o)
           l == Slot(g, n, TRUE, FALSE)
<1>1. k \in EntryKey /\ k.local = FALSE /\ k.default = FALSE /\ k.name # Marker
  <2>1. k \in Keys
    BY AtIsKey
  <2> HIDE DEF k
  <2>2. QED
    BY <2>1 DEF Keys
<1>2. l \in EntryKey /\ l.local = TRUE
  BY DEF Slot, EntryKey
<1>3. k = Slot(g, n, "Localized" \in o, "Default" \in o)
  <2>1. ("Localized" \in o) = FALSE /\ ("Default" \in o) = FALSE
    OBVIOUS
  <2>2. QED
    BY <2>1 DEF At
<1>4. SetEntry(m, g, n, v, o) = DropLocalized(m1, k, out)
  BY <1>1, <1>3 DEF SetEntry
<1>5. SetEntryDirties(m, g, n, v, o) <=> out \in {"inserted", "changed"}
                                         \/ (out = "unchanged" /\ Has(m, l))
  BY <1>1, <1>3 DEF SetEntryDirties
<1> HIDE DEF k, out, l
<1>6. Sound(m1)
  BY <1>1, SoundAssign
<1> HIDE DEF m1
<1>7. DropLocalized(m1, k, out) = m1
  BY <1>1, <1>6, DropNone
<1>8. ~Has(m, l)
  BY <1>2 DEF Sound
<1>9. QED
  BY <1>4, <1>5, <1>6, <1>7, <1>8 DEF k, out, m1

\* Maps stay that way when setEntry() writes a default, too.
LEMMA SoundSet ==
    ASSUME NEW m, Sound(m), NEW g \in Groups, NEW n \in Names, NEW v \in Values \cup {NoValue},
           NEW o, {"Global", "Localized"} \cap o = {}
    PROVE  Sound(SetEntry(m, g, n, v, o))
<1> DEFINE k == Slot(g, n, FALSE, "Default" \in o)
           j == Slot(g, n, k.local, FALSE)
           out == Outcome(m, k, v, o)
           m1 == Assign(m, k, v, o)
           o2 == o \ {"Default"}
           out2 == Outcome(m1, j, v, o2)
           m2 == Assign(m1, j, v, o2)
<1>1. /\ k \in EntryKey /\ k.local = FALSE /\ k.name # Marker
      /\ j \in EntryKey /\ j.local = FALSE /\ j.name # Marker
  BY SentinelAssumption DEF EntryKey, Slot
<1>2. k = Slot(g, n, "Localized" \in o, "Default" \in o)
  <2>1. ("Localized" \in o) = FALSE
    OBVIOUS
  <2>2. QED
    BY <2>1, Zenon
<1>3. SetEntry(m, g, n, v, o) = IF k.default /\ out \in {"inserted", "changed"}
                                THEN DropLocalized(DropLocalized(m2, j, out2), k, out)
                                ELSE DropLocalized(m1, k, out)
  BY <1>2 DEF SetEntry, SetPlain
<1>4. Sound(m1)
  <2> HIDE DEF k
  <2> QED
    BY <1>1, SoundAssign
<1> HIDE DEF k, j, out, m1, out2
<1>5. Sound(m2)
  BY <1>1, <1>4, SoundAssign
<1> HIDE DEF m2
<1>6. /\ DropLocalized(m1, k, out) = m1
      /\ DropLocalized(m2, j, out2) = m2
      /\ DropLocalized(m2, k, out) = m2
  BY <1>1, <1>4, <1>5, DropNone
<1>7. QED
  BY <1>3, <1>4, <1>5, <1>6

-----------------------------------------------------------------------------
(* Files without localized entries *)

PlainLine(line) ==
    /\ line.kind = "group" => line.group \in Groups
    /\ line.kind = "entry" => line.name \in Names /\ line.locale = "none"
                              /\ line.value \in Values \cup {NoValue}

PlainFile(f) == Len(f) \in Nat /\ \A i \in 1 .. Len(f) : PlainLine(f[i])

\* What a file is parsed for when it is not kdeglobals.
PlainOpts(opts) == opts.global = FALSE /\ opts.default \in BOOLEAN

\* What such a line has for setEntry().
TextOf(line) == IF IsDeletion(line) THEN NoValue ELSE line.value

OptionsOf(c, line, opts) == LineOptions(c, line, opts) \cup When(IsDeletion(line), "Deleted")

\* Whether a line is for an entry that is read.
IsTurn(c, line, opts) == line.kind = "entry" /\ Reading(c) /\ ~Skipped(c, opts)

\* What the options of a line are, and are not.
LEMMA OptionsOfGives ==
    ASSUME NEW c, NEW line, NEW opts, PlainOpts(opts)
    PROVE  /\ {"Global", "Localized", "Dirty", "Notify"} \cap OptionsOf(c, line, opts) = {}
           /\ "Default" \in OptionsOf(c, line, opts) <=> opts.default
           /\ "Deleted" \in OptionsOf(c, line, opts) <=> IsDeletion(line)
           /\ "Immutable" \in OptionsOf(c, line, opts) <=>
                  c.groupImmutable \/ ("i" \in Seen(line) /\ ~KioskException)
BY DEF OptionsOf, LineOptions, When, PlainOpts

\* What such a line does to the map.
LEMMA PlainLineMap ==
    ASSUME NEW m, NEW c, NEW line, PlainLine(line), NEW opts, PlainOpts(opts)
    PROVE  /\ IsTurn(c, line, opts) =>
                  LineMap(m, c, line, opts) =
                      SetEntry(m, c.group, line.name, TextOf(line), OptionsOf(c, line, opts))
           /\ ~IsTurn(c, line, opts) => LineMap(m, c, line, opts) = m
<1>1. CASE ~IsTurn(c, line, opts)
  BY <1>1 DEF LineMap, IsTurn
<1>2. CASE IsTurn(c, line, opts)
  <2>1. line.locale = "none" /\ line.kind = "entry"
    BY <1>2 DEF IsTurn, PlainLine
  <2>2. ~IsForeign(line) /\ Tagged(line.name, line.locale) = line.name
        /\ ~IsIgnored(c, line, opts)
    BY <2>1, <1>2 DEF IsForeign, Tagged, IsIgnored, IsTurn
  <2>3. LineMap(m, c, line, opts) = IF IsDeletion(line) THEN ParseDeletion(m, c, line, opts)
                                    ELSE ParseValue(m, c, line, opts)
    BY <1>2, <2>2 DEF LineMap, IsTurn
  <2>4. When(opts.global, "Global") = {} /\ When(line.locale # "none", "Localized") = {}
        /\ When(line.locale = "country", "LocalizedCountry") = {}
    BY <2>1 DEF When, PlainOpts
  <2>5. CASE IsDeletion(line)
    <3>1. When(IsDeletion(line), "Deleted") = {"Deleted"}
      BY <2>5 DEF When
    <3>2. QED
      BY <1>2, <2>2, <2>3, <2>5, <3>1 DEF ParseDeletion, TextOf, OptionsOf
  <2>6. CASE ~IsDeletion(line)
    <3>1. When(IsDeletion(line), "Deleted") = {}
      BY <2>6 DEF When
    <3> DEFINE all == LineOptions(c, line, opts)
    <3>2. ParseValue(m, c, line, opts) =
              SetEntry(m, c.group, line.name, line.value, all \cup {} \cup {} \cup {})
      BY <2>2, <2>4, Zenon DEF ParseValue
    <3>3. all \cup {} \cup {} \cup {} = all \cup {}
      OBVIOUS
    <3>4. TextOf(line) = line.value /\ OptionsOf(c, line, opts) = all \cup {}
      BY <2>6, <3>1 DEF TextOf, OptionsOf
    <3>5. QED
      BY <1>2, <2>3, <2>6, <3>2, <3>3, <3>4, Zenon
  <2>7. QED
    BY <2>5, <2>6
<1>3. QED
  BY <1>1, <1>2

\* The group that a parser is in is one.
LEMMA CursorGroup ==
    ASSUME NEW m, NEW c, c.group \in Groups, DOMAIN c = DOMAIN StartOfFile,
           NEW line, PlainLine(line), NEW opts
    PROVE  LET d == LineCursor(m, c, line, opts)
           IN  d.group \in Groups /\ DOMAIN d = DOMAIN StartOfFile
BY DEF LineCursor, HeaderCursor, PlainLine, StartOfFile

\* The map of a parser in a file that has no localized entries.
ParsesSound(s) == Sound(s.map) /\ s.cursor.group \in Groups /\ DOMAIN s.cursor = DOMAIN StartOfFile

\* A line keeps it so.
LEMMA LineSound ==
    ASSUME NEW s, ParsesSound(s), NEW line, PlainLine(line), NEW opts, PlainOpts(opts)
    PROVE  ParsesSound(ParseLine(s, line, opts))
<1> DEFINE o == OptionsOf(s.cursor, line, opts)
           v == TextOf(line)
<1>1. {"Global", "Localized"} \cap o = {}
  BY OptionsOfGives
<1>2. /\ IsTurn(s.cursor, line, opts) =>
             LineMap(s.map, s.cursor, line, opts) =
                 SetEntry(s.map, s.cursor.group, line.name, v, o)
      /\ ~IsTurn(s.cursor, line, opts) => LineMap(s.map, s.cursor, line, opts) = s.map
  BY PlainLineMap
<1>3. IsTurn(s.cursor, line, opts) => line.name \in Names /\ v \in Values \cup {NoValue}
  BY DEF IsTurn, PlainLine, TextOf
<1> HIDE DEF o, v
<1>4. Sound(LineMap(s.map, s.cursor, line, opts))
  BY <1>1, <1>2, <1>3, SoundSet DEF ParsesSound
<1>5. QED
  BY <1>4, CursorGroup, ParseLineGives DEF ParsesSound

\* So does the loop over the lines.
LEMMA LinesSound ==
    ASSUME NEW s, ParsesSound(s), NEW f, PlainFile(f), NEW opts, PlainOpts(opts)
    PROVE  \A i \in 0 .. Len(f) : ParsesSound(Parses(s, f, opts)[i])
<1> DEFINE p == Parses(s, f, opts)
           T == {i \in 0 .. Len(f) : ParsesSound(p[i])}
<1>1. Len(f) \in Nat
  BY DEF PlainFile
<1>2. p[0] = s /\ \A i \in 1 .. Len(f) : p[i] = ParseLine(p[i - 1], f[i], opts)
  BY <1>1, ParsesStep
<1> HIDE DEF p
<1>3. 0 \in T
  BY <1>1, <1>2
<1>4. ASSUME NEW i \in 1 .. Len(f), i - 1 \in T
      PROVE  i \in T
  <2>1. ParsesSound(p[i - 1]) /\ PlainLine(f[i])
    BY <1>4 DEF PlainFile
  <2>2. ParsesSound(ParseLine(p[i - 1], f[i], opts))
    BY <2>1, LineSound
  <2>3. QED
    BY <1>1, <1>2, <2>2
<1>5. \A i \in 0 .. Len(f) : i \in T
  <2> HIDE DEF T
  <2> QED
    BY <1>1, <1>3, <1>4, CountUp
<1>6. QED
  BY <1>5 DEF p

\* The groups that a file locks have a locked marker behind it, and nothing else changes.
LEMMA LockGroupsSound ==
    ASSUME NEW m, Sound(m), NEW c
    PROVE  Sound(LockGroups(m, c)) /\ \A k \in EntryKey : k.name # Marker =>
                                          LockGroups(m, c)[k] = m[k]
<1> DEFINE M == LockGroups(m, c)
<1>1. DOMAIN m = EntryKey
  BY DEF Sound
<1>2. /\ M = [k \in EntryKey |-> M[k]]
      /\ \A k \in EntryKey : M[k] = m[k] \/ (M[k] = LockedMarker /\ \E g : k = MarkerOf(g))
  BY <1>1 DEF LockGroups
<1> HIDE DEF M
<1>3. ASSUME NEW k \in EntryKey, Has(M, k)
      PROVE  SoundEntry(M[k]) /\ k.local = FALSE /\ Has(M, MarkerOf(k.group))
             /\ (k.name = Marker => ~M[k].deleted)
  <2>1. MarkerOf(k.group) \in EntryKey
    BY MarkerIsSlot DEF EntryKey
  <2>2. CASE M[k] = m[k]
    BY <1>2, <1>3, <2>1, <2>2, SoundFresh DEF Sound, Has
  <2>3. CASE M[k] = LockedMarker /\ \E g : k = MarkerOf(g)
    <3>1. k = MarkerOf(k.group) /\ k.local = FALSE
      BY <2>3 DEF MarkerOf, Slot
    <3>2. QED
      BY <2>3, <3>1, SoundFresh, <1>3
  <2>4. QED
    BY <1>2, <2>2, <2>3
<1>4. ASSUME NEW k \in EntryKey, k.name # Marker
      PROVE  M[k] = m[k]
  BY <1>2, <1>4 DEF MarkerOf, Slot
<1>5. QED
  BY <1>2, <1>3, <1>4 DEF Sound, M

\* A file without localized entries leaves a map without them.
LEMMA SoundParse ==
    ASSUME NEW m, Sound(m), NEW f, PlainFile(f), NEW opts, PlainOpts(opts)
    PROVE  Sound(ParseConfig(m, f, opts).map)
<1> DEFINE s == AtStart(m)
           z == EndOf(s, f, opts)
<1>1. ParsesSound(s)
  BY IniAssumption DEF AtStart, ParsesSound, StartOfFile
<1>2. Len(f) \in 0 .. Len(f)
  BY DEF PlainFile
<1>3. ParsesSound(z)
  <2> HIDE DEF s
  <2> QED
    BY <1>1, <1>2, LinesSound DEF EndOf
<1>4. ParseConfig(m, f, opts).map = LockGroups(z.map, z.cursor)
  BY DEF ParseConfig, AtEnd, EndOf
<1> HIDE DEF z
<1>5. QED
  BY <1>3, <1>4, LockGroupsSound DEF ParsesSound

\* There is nothing localized in a map that is empty.
LEMMA SoundEmpty == Sound(EmptyMap)
BY DEF Sound, EmptyMap, Has

-----------------------------------------------------------------------------
(* What sync() writes of a map without localized entries *)

Clean(e) == [e EXCEPT !.dirty = FALSE]

\* An entry that is no longer dirty differs in that alone.
LEMMA CleanSound ==
    ASSUME NEW e, SoundEntry(e)
    PROVE  /\ SoundEntry(Clean(e)) /\ ~Clean(e).dirty /\ Clean(e) # NoEntry
           /\ Clean(e).value = e.value /\ Clean(e).deleted = e.deleted
           /\ Clean(e).immutable = e.immutable
BY SentinelAssumption DEF SoundEntry, Entry, Clean

\* Which entries sync() writes to a file of its own.
Writes(em, k) == Has(em, k) /\ (k.name = Marker \/ em[k].dirty)

\* What sync() leaves in memory.
LEMMA SoundAfterWrite ==
    ASSUME NEW em, Sound(em)
    PROVE  /\ Sound(AfterWrite(em, FALSE))
           /\ \A k \in EntryKey :
                  /\ AfterWrite(em, FALSE)[k] = IF Writes(em, k) THEN Clean(em[k]) ELSE em[k]
                  /\ Has(AfterWrite(em, FALSE), k) <=> Has(em, k)
<1> DEFINE m == AfterWrite(em, FALSE)
<1>1. DOMAIN em = EntryKey
  BY DEF Sound
<1>2. m = [k \in EntryKey |-> IF ToWrite(em, k, FALSE)
                              THEN [Written(em[k]) EXCEPT !.dirty = FALSE] ELSE em[k]]
  BY <1>1 DEF AfterWrite
<1> HIDE DEF m
<1>3. ASSUME NEW k \in EntryKey
      PROVE  m[k] = IF Writes(em, k) THEN Clean(em[k]) ELSE em[k]
  <2>1. Has(em, k) => Written(em[k]) = em[k] /\ em[k].global = FALSE
    BY DEF Sound, SoundEntry, Written, Entry
  <2>2. ToWrite(em, k, FALSE) <=> Writes(em, k)
    BY <2>1 DEF ToWrite, Writes
  <2>3. QED
    BY <1>2, <2>1, <2>2 DEF Clean, Writes
<1>4. ASSUME NEW k \in EntryKey
      PROVE  /\ Has(m, k) <=> Has(em, k)
             /\ Has(em, k) => SoundEntry(m[k]) /\ m[k].deleted = em[k].deleted
  <2>1. CASE Writes(em, k)
    <3>1. SoundEntry(em[k]) /\ Has(em, k)
      BY <2>1 DEF Sound, Writes
    <3>2. m[k] = Clean(em[k])
      BY <2>1, <1>3
    <3>3. QED
      BY <3>1, <3>2, CleanSound DEF Has
  <2>2. CASE ~Writes(em, k)
    BY <2>2, <1>3 DEF Sound, Has
  <2>3. QED
    BY <2>1, <2>2
<1>5. Sound(m)
  <2>1. ASSUME NEW k \in EntryKey, Has(m, k)
        PROVE  SoundEntry(m[k]) /\ k.local = FALSE /\ Has(m, MarkerOf(k.group))
               /\ (k.name = Marker => ~m[k].deleted)
    <3>1. Has(em, k) /\ SoundEntry(m[k]) /\ m[k].deleted = em[k].deleted
      BY <1>4, <2>1
    <3>2. k.local = FALSE /\ Has(em, MarkerOf(k.group)) /\ (k.name = Marker => ~em[k].deleted)
      BY <3>1 DEF Sound
    <3>3. MarkerOf(k.group) \in EntryKey
      BY MarkerIsSlot DEF EntryKey
    <3>4. QED
      BY <3>1, <3>2, <3>3, <1>4
  <2>2. m = [k \in EntryKey |-> m[k]]
    BY <1>2
  <2>3. QED
    BY <2>1, <2>2 DEF Sound
<1>6. QED
  BY <1>3, <1>4, <1>5 DEF m

\* Whether sync() takes an entry out of the file.
Removes(em, k) == em[k].deleted /\ ~Has(em, [k EXCEPT !.default = TRUE])

\* What sync() writes over a file without localized entries, and over one that it reads as disk.
LEMMA SoundMerge ==
    ASSUME NEW em, Sound(em), NEW disk, Sound(disk)
    PROVE  /\ Sound(Merge(em, disk, FALSE))
           /\ \A k \in EntryKey :
                  Merge(em, disk, FALSE)[k] = IF ~Writes(em, k) THEN disk[k]
                                              ELSE IF Removes(em, k) THEN NoEntry ELSE em[k]
<1> DEFINE m == Merge(em, disk, FALSE)
<1>1. m = [k \in EntryKey |-> IF ~ToWrite(em, k, FALSE) THEN disk[k]
                              ELSE IF Erases(em, k) THEN NoEntry ELSE Written(em[k])]
  BY DEF Merge, Sound
<1> HIDE DEF m
<1>2. ASSUME NEW k \in EntryKey
      PROVE  m[k] = IF ~Writes(em, k) THEN disk[k]
                    ELSE IF Removes(em, k) THEN NoEntry ELSE em[k]
  <2>1. Has(em, k) => /\ Written(em[k]) = em[k] /\ em[k].global = FALSE
                      /\ Erases(em, k) <=> Removes(em, k)
    BY DEF Sound, SoundEntry, Written, Entry, Erases, Removes
  <2>2. ToWrite(em, k, FALSE) <=> Writes(em, k)
    BY <2>1 DEF ToWrite, Writes
  <2>3. QED
    BY <1>1, <2>1, <2>2 DEF Writes
<1>3. ASSUME NEW k \in EntryKey, Has(m, k)
      PROVE  SoundEntry(m[k]) /\ k.local = FALSE /\ Has(m, MarkerOf(k.group))
             /\ (k.name = Marker => ~m[k].deleted)
  <2> DEFINE j == MarkerOf(k.group)
  <2>1. j \in EntryKey /\ j.name = Marker /\ j.group = k.group
    BY MarkerIsSlot DEF EntryKey
  <2> HIDE DEF j
  <2>2. Has(em, j) \/ Has(disk, j) => Has(m, j)
    <3>1. Has(em, j) => Writes(em, j) /\ ~Removes(em, j)
      BY <2>1 DEF Sound, Writes, Removes
    <3>2. QED
      BY <1>2, <2>1, <3>1 DEF Has, Writes
  <2>3. m[k] = em[k] \/ m[k] = disk[k]
    BY <1>2, <1>3 DEF Has
  <2>4. QED
    BY <1>3, <2>2, <2>3 DEF Sound, Has, j
<1>4. QED
  BY <1>1, <1>2, <1>3 DEF Sound, m

\* The file that is written has no localized entries.
LEMMA WrittenIsPlain ==
    ASSUME NEW m, Sound(m)
    PROVE  PlainFile(WriteEntries(m))
<1>1. ASSUME NEW k \in EntryKey, k.name # Marker, Has(m, k)
      PROVE  PlainLine(EntryLine(m, k))
  <2>1. k.local = FALSE /\ k.name \in Names
    BY <1>1 DEF Sound, EntryKey
  <2>2. m[k].value \in Values \cup {NoValue}
    BY <1>1 DEF Sound, SoundEntry, Entry
  <2>3. /\ EntryLine(m, k).kind = "entry" /\ EntryLine(m, k).name = k.name
        /\ EntryLine(m, k).locale = "none" /\ EntryLine(m, k).value \in {NoValue, m[k].value}
    BY <2>1 DEF EntryLine
  <2>4. QED
    BY <2>1, <2>2, <2>3 DEF PlainLine
<1>2. ASSUME NEW i \in DOMAIN GroupOrder
      PROVE  PlainLine([kind |-> "group", group |-> GroupOrder[i], immutable |-> HeaderLock(m, i)])
  BY <1>2, Orders DEF PlainLine
<1>3. \A line \in WrittenLines(m) : PlainLine(line)
  BY <1>1, <1>2 DEF WrittenLines
<1>4. QED
  BY <1>3, WriteEntriesSeq DEF PlainFile

-----------------------------------------------------------------------------
(* The calls on maps without localized entries *)

\* The options of the calls, and those putData() and moveValue() add.
KeyOptions == SUBSET {"Dirty", "Notify", "Deleted", "Expansion"}

\* Only the key in slot k is another than before, which is v unless it is locked.
SetsKey(m, m2, k, v) ==
    /\ Sound(m2)
    /\ \A i \in Keys : /\ i # k => m2[i] = m[i]
                       /\ Refused(m2, i) <=> Refused(m, i)
                       /\ Has(m, i) => Has(m2, i)
    /\ Refused(m, k) => m2 = m
    /\ ~Refused(m, k) => Has(m2, k) /\ m2[k].value = v

\* A value is written.
LEMMA SetKeyGives ==
    ASSUME NEW m, Sound(m), NEW g \in Groups, NEW n \in Names, NEW v \in Values \cup {NoValue},
           NEW o \in KeyOptions
    PROVE  SetsKey(m, SetEntry(m, g, n, v, o), At(g, n), v)
<1> DEFINE k == At(g, n)
           m2 == SetEntry(m, g, n, v, o)
           e == Stored(m, k, v, o)
           out == Outcome(m, k, v, o)
<1>1. {"Global", "Localized", "Default"} \cap o = {} /\ "Immutable" \notin o
  BY DEF KeyOptions
<1>2. Sound(m2) /\ m2 = Assign(m, k, v, o)
  BY <1>1, SetPlainEntry
<1>3. k \in EntryKey /\ k.local = FALSE /\ k.default = FALSE /\ k.name # Marker /\ k \in Keys
  <2>1. k \in Keys
    BY AtIsKey
  <2> HIDE DEF k
  <2>2. QED
    BY <2>1 DEF Keys
<1>4. m = [i \in EntryKey |-> m[i]]
  BY DEF Sound
<1>5. Assigned(m, Assign(m, k, v, o), k, e, out)
  <2> HIDE DEF k
  <2> QED
    BY <1>3, <1>4, AssignGives
<1>6. e.value = v /\ (e.immutable <=> Has(m, k) /\ m[k].immutable)
  <2>1. e.value = v /\ (e.immutable <=> Found(m, k).immutable)
    BY <1>1 DEF Stored, StoredOver, Found, FreshEntry
  <2>2. Found(m, k).immutable <=> Has(m, k) /\ m[k].immutable
    BY DEF Found, FreshEntry
  <2>3. QED
    BY <2>1, <2>2
<1>7. SetOnly(m, m2, k)
  BY <1>2, <1>5 DEF Assigned
<1>8. /\ Refused(m, k) => m2 = m
      /\ ~Refused(m, k) => m2[k] = e \/ (Has(m, k) /\ m2 = m /\ SameEntry(m[k], e))
  BY <1>2, <1>5 DEF Assigned
<1> HIDE DEF k, m2, e, out
<1>9. \A i \in Keys : i # k => m2[i] = m[i]
  BY <1>7 DEF SetOnly, MarkerOf, Slot, Keys
<1>10. ~Refused(m, k) => Has(m2, k) /\ m2[k].value = v /\ (m2[k].immutable <=> e.immutable)
  <2>1. ASSUME m2[k] = e
        PROVE  Has(m2, k)
    <3>1. SoundEntry(Found(m, k))
      BY <1>3, SoundFresh DEF Found, Sound
    <3>2. SoundEntry(e)
      BY <1>1, <3>1, SoundStored DEF Stored, e
    <3>3. QED
      BY <2>1, <3>2, SentinelAssumption DEF SoundEntry, Has
  <2>2. SameEntry(m[k], e) => m[k].value = e.value /\ (m[k].immutable = e.immutable)
    BY DEF SameEntry
  <2>3. QED
    BY <1>6, <1>8, <2>1, <2>2
<1>11. \A h \in Groups : GroupIsImmutable(m2, h) <=> GroupIsImmutable(m, h)
  <2> TAKE h \in Groups
  <2>1. MarkerOf(h) \in EntryKey /\ MarkerOf(h) # k
    BY <1>3, MarkerIsSlot DEF EntryKey
  <2>2. m2[MarkerOf(h)] = m[MarkerOf(h)]
        \/ (~Has(m, MarkerOf(h)) /\ m2[MarkerOf(h)] = FreshEntry)
    BY <1>7, <2>1 DEF SetOnly
  <2>3. QED
    BY <2>2 DEF GroupIsImmutable, IsImmutable, Has, FreshEntry
<1>12. \A i \in Keys : Refused(m2, i) <=> Refused(m, i)
  <2> TAKE i \in Keys
  <2>1. i.group \in Groups
    BY KeyIsAt
  <2>2. CASE i # k
    BY <2>1, <2>2, <1>9, <1>11 DEF Refused, Has
  <2>3. CASE i = k /\ Refused(m, k)
    BY <2>3, <1>8
  <2>4. CASE i = k /\ ~Refused(m, k)
    <3>1. Has(m2, k) /\ (m2[k].immutable <=> Has(m, k) /\ m[k].immutable)
      BY <2>4, <1>6, <1>10
    <3>2. ~(Has(m, k) /\ m[k].immutable)
      BY <2>4 DEF Refused
    <3>3. QED
      BY <2>4, <3>1, <3>2 DEF Refused
  <2>5. QED
    BY <2>2, <2>3, <2>4
<1>13. \A i \in Keys : Has(m, i) => Has(m2, i)
  BY <1>8, <1>9, <1>10 DEF Has
<1>14. QED
  BY <1>2, <1>8, <1>9, <1>10, <1>12, <1>13 DEF SetsKey, k, m2

\* m2 is what copyGroup() makes of target: group h of it has the entries of group g of source.
CopiesGroup(m2, source, g, target, h, o) ==
    /\ Sound(m2)
    /\ \A n \in Names \cup {Marker}, d \in BOOLEAN :
          LET i == Slot(h, n, FALSE, d)
              j == Slot(g, n, FALSE, d)
          IN  IF Has(source, j) THEN /\ Has(m2, i)
                                     /\ m2[i] = CopiedEntry(source[j], o)
                                     /\ m2[i].value = source[j].value
                                     /\ m2[i].immutable = source[j].immutable
              ELSE m2[i] = target[i]
    /\ \A i \in EntryKey : i.group # h => m2[i] = target[i]

LEMMA CopyMapGives ==
    ASSUME NEW source, Sound(source), NEW target, Sound(target), NEW g \in Groups,
           NEW h \in Groups, NEW o \in SUBSET {"Dirty", "Notify"}
    PROVE  CopiesGroup(CopyMap(source, g, target, h, o), source, g, target, h, o)
<1> DEFINE m2 == CopyMap(source, g, target, h, o)
           From(k) == [k EXCEPT !.group = g]
<1>1. m2 = [k \in EntryKey |-> IF k.group = h /\ Has(source, From(k))
                               THEN CopiedEntry(source[From(k)], o) ELSE target[k]]
  BY DEF CopyMap
<1>0. \A k \in EntryKey : From(k) = Slot(g, k.name, k.local, k.default)
  BY DEF EntryKey, Slot
<1>2. \A k \in EntryKey : /\ From(k) \in EntryKey /\ From(k).group = g /\ From(k).name = k.name
                          /\ From(k).local = k.local
                          /\ MarkerOf(k.group) \in EntryKey /\ MarkerOf(k.group).group = k.group
                          /\ From(MarkerOf(k.group)) = MarkerOf(From(k).group)
  <2> TAKE k \in EntryKey
  <2>1. From(k) = Slot(g, k.name, k.local, k.default)
    BY <1>0
  <2>2. MarkerOf(k.group) \in EntryKey /\ MarkerOf(k.group).group = k.group
        /\ MarkerOf(g) \in EntryKey
    BY MarkerIsSlot DEF EntryKey
  <2>3. From(MarkerOf(k.group)) = MarkerOf(g)
    <3>1. From(MarkerOf(k.group)) = Slot(g, Marker, FALSE, FALSE)
      BY <1>0, <2>2 DEF MarkerOf, Slot
    <3>2. QED
      BY <3>1 DEF MarkerOf
  <2> HIDE DEF From
  <2>4. From(k) \in EntryKey /\ From(k).group = g /\ From(k).name = k.name
        /\ From(k).local = k.local
    BY <2>1 DEF EntryKey, Slot
  <2>5. QED
    BY <2>2, <2>3, <2>4
<1>3. ASSUME NEW e, SoundEntry(e)
      PROVE  /\ SoundEntry(CopiedEntry(e, o)) /\ CopiedEntry(e, o) # NoEntry
             /\ CopiedEntry(e, o).value = e.value
             /\ CopiedEntry(e, o).immutable = e.immutable
             /\ CopiedEntry(e, o).deleted = e.deleted
  <2>1. SoundEntry(CopiedEntry(e, o))
    <3> DEFINE x == "Dirty" \in o
               y == e.notify \/ "Notify" \in o
    <3>1. x \in BOOLEAN /\ y \in BOOLEAN
      OBVIOUS
    <3>2. CopiedEntry(e, o) = [e EXCEPT !.dirty = x, !.notify = y]
      BY DEF CopiedEntry
    <3> HIDE DEF x, y
    <3>3. QED
      BY <3>1, <3>2, <1>3 DEF SoundEntry, Entry
  <2>2. /\ CopiedEntry(e, o).value = e.value
        /\ CopiedEntry(e, o).immutable = e.immutable
        /\ CopiedEntry(e, o).deleted = e.deleted
    BY <1>3 DEF SoundEntry, Entry, CopiedEntry
  <2>3. QED
    BY <2>1, <2>2, SentinelAssumption DEF SoundEntry
<1> HIDE DEF m2
<1>4. ASSUME NEW k \in EntryKey, Has(m2, k)
      PROVE  SoundEntry(m2[k]) /\ k.local = FALSE /\ Has(m2, MarkerOf(k.group))
             /\ (k.name = Marker => ~m2[k].deleted)
  <2> DEFINE j == MarkerOf(k.group)
  <2>1. CASE k.group = h /\ Has(source, From(k))
    <3>1. /\ SoundEntry(source[From(k)]) /\ From(k).local = FALSE
          /\ Has(source, MarkerOf(From(k).group))
          /\ From(k).name = Marker => ~source[From(k)].deleted
      BY <2>1, <1>2 DEF Sound
    <3>2. j \in EntryKey /\ j.group = h /\ From(j) \in EntryKey /\ Has(source, From(j))
      BY <2>1, <3>1, <1>2
    <3>3. SoundEntry(source[From(j)])
      BY <3>2 DEF Sound
    <3>4. m2[k] = CopiedEntry(source[From(k)], o)
      BY <2>1, <1>1
    <3>5. m2[j] = CopiedEntry(source[From(j)], o)
      BY <3>2, <1>1
    <3>6. Has(m2, j)
      BY <3>5, <3>3, <1>3 DEF Has
    <3>7. SoundEntry(m2[k]) /\ m2[k].deleted = source[From(k)].deleted
      BY <3>1, <3>4, <1>3
    <3>8. QED
      BY <3>1, <3>6, <3>7, <1>2
  <2>2. CASE ~(k.group = h /\ Has(source, From(k)))
    <3>1. m2[k] = target[k]
      BY <2>2, <1>1
    <3>2. /\ SoundEntry(target[k]) /\ k.local = FALSE /\ Has(target, j)
          /\ k.name = Marker => ~target[k].deleted
      BY <3>1, <1>4 DEF Sound, Has
    <3>3. j \in EntryKey /\ From(j) \in EntryKey
      BY <1>2
    <3>4. Has(m2, j)
      <4>1. CASE j.group = h /\ Has(source, From(j))
        <5>1. SoundEntry(source[From(j)])
          BY <4>1, <3>3 DEF Sound
        <5>2. m2[j] = CopiedEntry(source[From(j)], o)
          BY <4>1, <3>3, <1>1
        <5>3. QED
          BY <5>1, <5>2, <1>3 DEF Has
      <4>2. CASE ~(j.group = h /\ Has(source, From(j)))
        <5>1. m2[j] = target[j]
          BY <4>2, <3>3, <1>1
        <5>2. QED
          BY <5>1, <3>2 DEF Has
      <4>3. QED
        BY <4>1, <4>2
    <3>5. QED
      BY <3>1, <3>2, <3>4
  <2>3. QED
    BY <2>1, <2>2
<1>5. Sound(m2)
  BY <1>1, <1>4 DEF Sound
<1>6. ASSUME NEW n \in Names \cup {Marker}, NEW d \in BOOLEAN
      PROVE  LET i == Slot(h, n, FALSE, d)
                 j == Slot(g, n, FALSE, d)
             IN  IF Has(source, j) THEN /\ Has(m2, i)
                                        /\ m2[i] = CopiedEntry(source[j], o)
                                        /\ m2[i].value = source[j].value
                                        /\ m2[i].immutable = source[j].immutable
                 ELSE m2[i] = target[i]
  <2> DEFINE i == Slot(h, n, FALSE, d)
             j == Slot(g, n, FALSE, d)
  <2>1. i \in EntryKey /\ j \in EntryKey /\ i.group = h
    BY DEF Slot, EntryKey
  <2>1a. From(i) = j
    <3>1. From(i) = Slot(g, i.name, i.local, i.default)
      <4> HIDE DEF From
      <4> QED
        BY <2>1, <1>0
    <3>2. QED
      BY <3>1 DEF Slot
  <2> HIDE DEF i, j
  <2>2. CASE Has(source, j)
    <3>1. SoundEntry(source[j])
      BY <2>1, <2>2 DEF Sound
    <3>2. m2[i] = CopiedEntry(source[j], o)
      BY <2>1, <2>1a, <2>2, <1>1
    <3>3. QED
      BY <2>2, <3>1, <3>2, <1>3 DEF Has, i, j
  <2>3. CASE ~Has(source, j)
    BY <2>1, <2>1a, <2>3, <1>1 DEF i, j
  <2>4. QED
    BY <2>2, <2>3
<1>7. \A i \in EntryKey : i.group # h => m2[i] = target[i]
  BY <1>1
<1>8. QED
  BY <1>5, <1>6, <1>7 DEF m2, CopiesGroup

\* A key that was deleted by deleteGroup(), and what there is where it was not.
DeletesKeys(m, m2, g) ==
    /\ Sound(m2)
    /\ \A k \in EntryKey : k \notin Keys \/ k.group \notin SubGroups[g] => m2[k] = m[k]
    /\ \A k \in Keys : m2[k] # m[k] => /\ ~Refused(m, k) /\ DeleteGroupDirties(m, FALSE, g)
                                       /\ Has(m2, k) /\ m2[k].dirty /\ m2[k].value = NoValue
                                       /\ m2[k].deleted /\ ~m2[k].immutable
    /\ \A k \in Keys : k.group \in SubGroups[g] /\ Has(m, k) /\ ~m[k].immutable =>
                           m2[k].value = NoValue

\* What deleteGroup() makes of an object.
LEMMA DeleteGroupGives ==
    ASSUME NEW m, Sound(m), NEW g \in Groups
    PROVE  DeletesKeys(m, DeleteGroupMap(m, FALSE, g, {"Dirty"}), g)
<1> DEFINE chosen == Deletable(m, FALSE, g)
           o == {"Dirty"} \cup {"Deleted"}
           One(k) == SetEntry(m, k.group, k.name, NoValue, o)
           m2 == DeleteGroupMap(m, FALSE, g, {"Dirty"})
<1>1. m2 = [k \in EntryKey |-> IF k \in chosen THEN One(k)[k] ELSE m[k]]
  BY DEF DeleteGroupMap
<1>2. \A k \in chosen : k \in EntryKey /\ k.group \in SubGroups[g] /\ k.group \in Groups
                        /\ k.name \in Names
                        /\ ~IsImmutable(m, FindEntry(m, k.group, k.name, TRUE, FALSE))
  BY DEF Deletable, KeyList, EntryKey
<1>3. DeleteGroupDirties(m, FALSE, g) <=> chosen # {}
  BY DEF DeleteGroupDirties
<1> HIDE DEF m2, chosen
<1>4. ASSUME NEW k \in EntryKey, m2[k] # m[k]
      PROVE  /\ k \in Keys /\ k.group \in SubGroups[g] /\ ~Refused(m, k) /\ chosen # {}
             /\ m2[k] = Stored(m, k, NoValue, o)
  <2>1. k \in chosen /\ m2[k] = One(k)[k]
    BY <1>1, <1>4
  <2>2. k.group \in SubGroups[g] /\ k.group \in Groups /\ k.name \in Names
    BY <1>2, <2>1
  <2> DEFINE j == At(k.group, k.name)
  <2>3. j \in Keys /\ j \in EntryKey /\ j.local = FALSE /\ j.default = FALSE /\ j.name # Marker
    <3>1. j \in Keys
      BY <2>2, AtIsKey
    <3> HIDE DEF j
    <3>2. QED
      BY <3>1 DEF Keys
  <2>4. {"Global", "Localized", "Default"} \cap o = {}
    OBVIOUS
  <2>5. One(k) = Assign(m, j, NoValue, o)
    <3> HIDE DEF o
    <3> QED
      BY <2>2, <2>4, SetPlainEntry
  <2>6. m = [i \in EntryKey |-> m[i]]
    BY DEF Sound
  <2>7. Assigned(m, One(k), j, Stored(m, j, NoValue, o), Outcome(m, j, NoValue, o))
    <3> HIDE DEF j, o
    <3> QED
      BY <2>3, <2>5, <2>6, AssignGives
  <2>8. k.name # Marker
    BY <2>2, SentinelAssumption
  <2>9. j = k
    <3>1. k # MarkerOf(j.group)
      BY <2>8 DEF MarkerOf, Slot
    <3> HIDE DEF j, One
    <3>2. QED
      BY <2>1, <2>7, <3>1, <1>4 DEF Assigned, SetOnly
  <2> HIDE DEF o, One, j
  <2>10. QED
    BY <2>1, <2>2, <2>3, <2>7, <2>9, <1>4 DEF Assigned
<1>5. ASSUME NEW k \in Keys, ~Refused(m, k)
      PROVE  LET e == Stored(m, k, NoValue, o)
             IN  /\ SoundEntry(e) /\ e # NoEntry /\ e.dirty /\ e.value = NoValue
                 /\ e.deleted /\ ~e.immutable
  <2> DEFINE e == Stored(m, k, NoValue, o)
  <2>1. k \in EntryKey
    BY DEF Keys
  <2>2. SoundEntry(Found(m, k)) /\ ~Found(m, k).immutable
    BY <1>5, <2>1, SoundFresh DEF Found, Sound, Refused, FreshEntry
  <2>3. e = StoredOver(Found(m, k), k, NoValue, o)
    BY DEF Stored
  <2>4. SoundEntry(e)
    <3> HIDE DEF e
    <3> QED
      BY <2>2, <2>3, SoundStored
  <2>5. e.dirty /\ e.value = NoValue /\ e.deleted /\ (e.immutable <=> Found(m, k).immutable)
    <3>1. "Dirty" \in o /\ "Deleted" \in o /\ "Immutable" \notin o
      OBVIOUS
    <3> HIDE DEF e, o
    <3>2. QED
      BY <2>2, <2>3, <3>1 DEF StoredOver, SoundEntry, Entry
  <2>6. QED
    BY <2>2, <2>4, <2>5, SentinelAssumption DEF SoundEntry
<1> HIDE DEF o
<1>6. ASSUME NEW k \in EntryKey
      PROVE  m2[k] = m[k] \/ (k \in Keys /\ SoundEntry(m2[k]) /\ m2[k] # NoEntry)
  BY <1>4, <1>5
<1>7. Sound(m2)
  <2>1. ASSUME NEW k \in EntryKey, Has(m2, k)
        PROVE  SoundEntry(m2[k]) /\ k.local = FALSE /\ Has(m2, MarkerOf(k.group))
               /\ (k.name = Marker => ~m2[k].deleted)
    <3> DEFINE j == MarkerOf(k.group)
    <3>1. j \in EntryKey /\ j \notin Keys
      BY MarkerIsSlot DEF EntryKey
    <3>2. m2[j] = m[j]
      BY <1>6, <3>1
    <3>3. Has(m, j)
      <4>1. CASE Has(m, k)
        BY <4>1 DEF Sound
      <4>2. CASE ~Has(m, k)
        <5>1. m2[k] # m[k]
          BY <4>2, <2>1 DEF Has
        <5>2. k \in chosen
          BY <5>1, <1>1
        <5>3. k.name \in KeyList(m, k.group)
          BY <5>2 DEF chosen, Deletable
        <5>4. QED
          BY <5>3 DEF KeyList
      <4>3. QED
        BY <4>1, <4>2
    <3> HIDE DEF j
    <3>4. QED
      BY <1>6, <2>1, <3>2, <3>3 DEF Sound, Has, Keys, j
  <2>2. QED
    BY <1>1, <2>1 DEF Sound
<1>8. ASSUME NEW k \in Keys, k.group \in SubGroups[g], Has(m, k), ~m[k].immutable
      PROVE  m2[k].value = NoValue
  <2>1. k \in EntryKey /\ k.group \in Groups /\ k.name \in Names /\ k = At(k.group, k.name)
    BY KeyIsAt
  <2>2. CASE m2[k] # m[k]
    BY <2>1, <2>2, <1>4, <1>5
  <2>3. CASE m2[k] = m[k] /\ m[k].deleted
    BY <1>8, <2>1, <2>3 DEF Sound, SoundEntry
  <2>4. CASE m2[k] = m[k] /\ ~m[k].deleted
    <3>1. k.name \in KeyList(m, k.group)
      <4>1. Has(m, MarkerOf(k.group))
        BY <1>8, <2>1 DEF Sound
      <4>2. Slot(k.group, k.name, FALSE, FALSE) = k
        BY <2>1 DEF At
      <4>3. QED
        BY <1>8, <2>1, <2>4, <4>1, <4>2 DEF KeyList
    <3>2. FindEntry(m, k.group, k.name, TRUE, FALSE) = k
      <4> DEFINE l == Slot(k.group, k.name, TRUE, FALSE)
      <4>1. l \in EntryKey /\ l.local = TRUE
        BY <2>1 DEF Slot, EntryKey
      <4>2. ~Has(m, l)
        <5> HIDE DEF l
        <5> QED
          BY <4>1 DEF Sound
      <4>3. QED
        BY <2>1, <4>2 DEF FindEntry, At
    <3>3. k \in chosen
      BY <1>8, <2>1, <3>1, <3>2 DEF chosen, Deletable, IsImmutable
    <3>4. m2[k] = One(k)[k]
      BY <2>1, <3>3, <1>1
    <3>5. o \in KeyOptions
      BY DEF o, KeyOptions
    <3>6. SetsKey(m, One(k), k, NoValue)
      <4>1. SetsKey(m, SetEntry(m, k.group, k.name, NoValue, o), At(k.group, k.name), NoValue)
        BY <2>1, <3>5, SetKeyGives
      <4>2. QED
        BY <2>1, <4>1
    <3>7. ~Refused(m, k)
      BY <1>8 DEF Refused
    <3>8. QED
      BY <3>4, <3>6, <3>7 DEF SetsKey
  <2>5. QED
    BY <2>2, <2>3, <2>4
<1>9. QED
  <2>1. \A k \in EntryKey : k \notin Keys \/ k.group \notin SubGroups[g] => m2[k] = m[k]
    BY <1>4
  <2>2. \A k \in Keys : m2[k] # m[k] => /\ ~Refused(m, k) /\ DeleteGroupDirties(m, FALSE, g)
                                        /\ Has(m2, k) /\ m2[k].dirty /\ m2[k].value = NoValue
                                        /\ m2[k].deleted /\ ~m2[k].immutable
    BY <1>3, <1>4, <1>5 DEF Has, Keys
  <2>3. QED
    BY <1>7, <1>8, <2>1, <2>2 DEF DeletesKeys, m2

\* What KConfig::copyTo() makes of the other object.
CopiedAll(m) == [k \in EntryKey |-> IF Has(m, k) THEN [m[k] EXCEPT !.dirty = TRUE] ELSE NoEntry]

LEMMA CopiedAllGives ==
    ASSUME NEW m, Sound(m)
    PROVE  /\ Sound(CopiedAll(m))
           /\ \A k \in EntryKey :
                  /\ Has(CopiedAll(m), k) <=> Has(m, k)
                  /\ Has(m, k) => /\ CopiedAll(m)[k].value = m[k].value
                                  /\ CopiedAll(m)[k].immutable = m[k].immutable
                                  /\ CopiedAll(m)[k].dirty
<1> DEFINE M == CopiedAll(m)
<1>1. M = [k \in EntryKey |-> IF Has(m, k) THEN [m[k] EXCEPT !.dirty = TRUE] ELSE NoEntry]
  BY DEF CopiedAll
<1> HIDE DEF M
<1>2. ASSUME NEW e, SoundEntry(e)
      PROVE  LET f == [e EXCEPT !.dirty = TRUE]
             IN  SoundEntry(f) /\ f # NoEntry /\ f.value = e.value /\ f.immutable = e.immutable
                 /\ f.dirty /\ f.deleted = e.deleted
  BY <1>2, SentinelAssumption DEF SoundEntry, Entry
<1>3. ASSUME NEW k \in EntryKey
      PROVE  /\ Has(M, k) <=> Has(m, k)
             /\ Has(m, k) => /\ SoundEntry(M[k]) /\ M[k].value = m[k].value
                             /\ M[k].immutable = m[k].immutable
                             /\ M[k].dirty /\ M[k].deleted = m[k].deleted
  <2>1. CASE Has(m, k)
    <3>1. SoundEntry(m[k])
      BY <2>1 DEF Sound
    <3>2. M[k] = [m[k] EXCEPT !.dirty = TRUE]
      BY <1>1, <2>1
    <3>3. QED
      BY <2>1, <3>1, <3>2, <1>2 DEF Has
  <2>2. CASE ~Has(m, k)
    BY <2>2, <1>1 DEF Has
  <2>3. QED
    BY <2>1, <2>2
<1>4. \A k \in EntryKey : MarkerOf(k.group) \in EntryKey
  BY MarkerIsSlot DEF EntryKey
<1>5. Sound(M)
  BY <1>1, <1>3, <1>4 DEF Sound
<1>6. QED
  BY <1>3, <1>5 DEF M

-----------------------------------------------------------------------------
(* What is moved or copied arrives *)

\* No file of the setup has a localized entry.
Unlocalized ==
    \A o \in Objects : \A f \in {SystemFile[o]} \cup OwnFiles[o] :
        \A i \in DOMAIN f : f[i].kind = "entry" => f[i].locale = "none"

\* The slot of a key that is looked at.
KeyOf(p) == At(p[2][1], p[2][2])

\* An object's map has the key, with that value.
Shows(m, k, v) == Has(m, k) /\ m[k].value = v

ArrivesInv ==
    /\ entryMap = [o \in Objects |-> entryMap[o]] /\ file = [o \in Objects |-> file[o]]
    /\ \A o \in Objects : Sound(entryMap[o]) /\ PlainFile(file[o])
    /\ promised = [p \in Objects \X Places |-> promised[p]]
    /\ \A p \in Objects \X Places :
          promised[p] # Unknown => Shows(entryMap[p[1]], KeyOf(p), promised[p])

\* The files of a setup are read line by line.
LEMMA FilesArePlain ==
    ASSUME Unlocalized, NEW o \in Objects, NEW f \in {SystemFile[o]} \cup OwnFiles[o]
    PROVE  PlainFile(f)
<1>1. f \in Seq(Line)
  BY CopyAssumption
<1>2. ASSUME NEW i \in 1 .. Len(f)
      PROVE  PlainLine(f[i])
  <2>1. f[i] \in Line /\ i \in DOMAIN f
    BY <1>1
  <2>2. f[i].kind = "entry" => f[i].locale = "none"
    BY <2>1 DEF Unlocalized
  <2> DEFINE line == f[i]
  <2>3. line \in Line /\ (line.kind = "entry" => line.locale = "none")
    BY <2>1, <2>2
  <2> HIDE DEF line
  <2>4. PlainLine(line)
    BY <2>3 DEF PlainLine, Line, GroupLine, EntryText
  <2>5. QED
    BY <2>4 DEF line
<1>3. QED
  BY <1>1, <1>2 DEF PlainFile

\* The objects as they are opened.
LEMMA RereadSound ==
    ASSUME Unlocalized, NEW o \in Objects, NEW f, PlainFile(f)
    PROVE  Sound(SystemMap(o)) /\ Sound(Reread(o, f))
<1>1. PlainFile(SystemFile[o])
  BY FilesArePlain
<1>2. /\ PlainOpts([default |-> TRUE, global |-> FALSE, merging |-> FALSE])
      /\ PlainOpts([default |-> FALSE, global |-> FALSE, merging |-> FALSE])
  BY DEF PlainOpts
<1>3. Sound(SystemMap(o))
  BY <1>1, <1>2, SoundEmpty, SoundParse DEF SystemMap
<1>4. Sound(Reread(o, f))
  BY <1>2, <1>3, SoundParse DEF Reread
<1>5. QED
  BY <1>3, <1>4

LEMMA ArrivesInit ==
    ASSUME Unlocalized, Init
    PROVE  ArrivesInv
<1>1. file = [o \in Objects |-> file[o]] /\ \A o \in Objects : file[o] \in OwnFiles[o]
  BY DEF Init
<1>2. ASSUME NEW o \in Objects
      PROVE  PlainFile(file[o]) /\ Sound(Reread(o, file[o]))
  BY <1>1, FilesArePlain, RereadSound
<1>3. /\ entryMap = [o \in Objects |-> Reread(o, file[o])]
      /\ promised = [p \in Objects \X Places |-> Unknown]
  BY DEF Init
<1>4. QED
  BY <1>1, <1>2, <1>3 DEF ArrivesInv

\* The keys that are looked at are keys, and told apart by their slots.
LEMMA KeysOfPlaces ==
    ASSUME NEW p \in Objects \X Places
    PROVE  /\ p[1] \in Objects /\ p[2] \in Places /\ KeyOf(p) \in Keys /\ KeyOf(p) \in EntryKey
           /\ p[2][1] \in Groups /\ p[2][2] \in Names
           /\ KeyOf(p).group = p[2][1] /\ KeyOf(p).name = p[2][2]
           /\ \A x, g, n : p = <<x, <<g, n>> >> <=> p[1] = x /\ KeyOf(p) = At(g, n)
<1>1. p[1] \in Objects /\ p[2] \in Places
  OBVIOUS
<1>2. p[2] \in Groups \X Names
  BY <1>1, CopyAssumption, IniAssumption
<1>3. p[2][1] \in Groups /\ p[2][2] \in Names /\ p[2] = <<p[2][1], p[2][2]>>
  BY <1>2
<1>4. KeyOf(p) \in Keys /\ KeyOf(p) \in EntryKey
      /\ KeyOf(p).group = p[2][1] /\ KeyOf(p).name = p[2][2]
  BY <1>3, AtIsKey DEF KeyOf, Keys
<1>5. ASSUME NEW x, NEW g, NEW n
      PROVE  p = <<x, <<g, n>> >> <=> p[1] = x /\ KeyOf(p) = At(g, n)
  <2>1. At(g, n).group = g /\ At(g, n).name = n
    BY DEF At, Slot
  <2>2. ASSUME p[1] = x, KeyOf(p) = At(g, n)
        PROVE  p = <<x, <<g, n>> >>
    <3>1. p[2] = <<g, n>>
      BY <2>1, <2>2, <1>3, <1>4
    <3>2. p = <<p[1], p[2]>>
      OBVIOUS
    <3>3. QED
      BY <2>2, <3>1, <3>2
  <2>3. ASSUME p = <<x, <<g, n>> >>
        PROVE  p[1] = x /\ KeyOf(p) = At(g, n)
    BY <2>3 DEF KeyOf
  <2>4. QED
    BY <2>2, <2>3
<1>6. QED
  BY <1>1, <1>3, <1>4, <1>5

\* The groups and options of the calls.
LEMMA CallsAre ==
    /\ PlaceGroups \subseteq Groups /\ PlainNames \subseteq Names
    /\ \A o \in CallOptions : o \in SUBSET {"Dirty", "Notify"}
    /\ \A g, h \in PlaceGroups : h \in SubGroups[g] => h = g
    /\ \A p \in Objects \X Places : p[2][1] \in PlaceGroups
BY CopyAssumption, IniAssumption DEF PlaceGroups

\* What a promise is.
LEMMA PromiseGives ==
    ASSUME NEW x, NEW t, NEW v, NEW o, Promise(x, t, v, o) # Unknown
    PROVE  Promise(x, t, v, o) = v /\ "Dirty" \in o /\ ~Refused(entryMap[x], At(t[1], t[2]))
BY DEF Promise, At

\* moveValue() keeps the promises, its own included.
LEMMA MoveArrives ==
    ASSUME ArrivesInv, NEW from \in Objects, NEW to \in Objects, NEW g \in PlaceGroups,
           NEW h \in PlaceGroups, NEW n \in PlainNames, NEW o \in CallOptions,
           MoveValue(from, g, n, to, h, o)
    PROVE  ArrivesInv'
<1> DEFINE a == At(g, n)
           b == At(h, n)
<1>1. g \in Groups /\ h \in Groups /\ n \in Names /\ o \in SUBSET {"Dirty", "Notify"}
  BY CallsAre
<1>2. a \in Keys /\ b \in Keys
  BY <1>1, AtIsKey
<1>3. PICK e \in Movable(entryMap[from], g, n) :
          LET deleted == DeleteEntry(Of(from), g, n, o)
              There(x) == SetEntryData(x, h, n, e.value, MovedOptions(e))
          IN  /\ Leave(IF from = to THEN [x \in {to} |-> There(deleted)]
                       ELSE [x \in {from, to} |-> IF x = from THEN deleted ELSE There(Of(to))])
              /\ Promises([p \in {<<from, <<g, n>> >>, <<to, <<h, n>> >>} |->
                              IF p = <<to, <<h, n>> >>
                              THEN Promise(to, <<h, n>>, e.value, {"Dirty"})
                              ELSE Promise(from, <<g, n>>, NoValue, o)])
  BY DEF MoveValue
<1>4. e.value \in Values \cup {NoValue}
  <2>1. PICK k : e = entryMap[from][k] /\ Has(entryMap[from], k)
                 /\ k = FindEntry(entryMap[from], g, n, TRUE, FALSE)
    BY <1>3 DEF Movable
  <2>2. k \in EntryKey
    BY <1>1, <2>1 DEF FindEntry, Slot, EntryKey
  <2>3. Sound(entryMap[from])
    BY DEF ArrivesInv
  <2>4. QED
    BY <2>1, <2>2, <2>3 DEF Sound, SoundEntry, Entry
<1> DEFINE m1 == SetEntry(entryMap[from], g, n, NoValue, PutOptions(NoValue, o))
           base == IF from = to THEN m1 ELSE entryMap[to]
           m2 == SetEntry(base, h, n, e.value, MovedOptions(e))
<1>5. entryMap' = [x \in Objects |-> IF x = to THEN m2 ELSE IF x = from THEN m1 ELSE entryMap[x]]
  <2>1. /\ DeleteEntry(Of(from), g, n, o).map = m1
        /\ SetEntryData(DeleteEntry(Of(from), g, n, o), h, n, e.value, MovedOptions(e)).map =
               SetEntry(m1, h, n, e.value, MovedOptions(e))
        /\ SetEntryData(Of(to), h, n, e.value, MovedOptions(e)).map =
               SetEntry(entryMap[to], h, n, e.value, MovedOptions(e))
    BY DEF DeleteEntry, SetEntryData, Of, Object, PutMap
  <2> DEFINE deleted == DeleteEntry(Of(from), g, n, o)
             There(x) == SetEntryData(x, h, n, e.value, MovedOptions(e))
             changed == IF from = to THEN [x \in {to} |-> There(deleted)]
                        ELSE [x \in {from, to} |-> IF x = from THEN deleted ELSE There(Of(to))]
  <2>2. entryMap' = [x \in Objects |-> IF x \in DOMAIN changed THEN changed[x].map
                                       ELSE entryMap[x]]
    BY <1>3 DEF Leave
  <2> HIDE DEF deleted, There
  <2>3. CASE from = to
    BY <2>1, <2>2, <2>3 DEF deleted, There
  <2>4. CASE from # to
    BY <2>1, <2>2, <2>4 DEF deleted, There
  <2>5. QED
    BY <2>3, <2>4
<1>6. promised' = [p \in Objects \X Places |->
                      IF p = <<to, <<h, n>> >> THEN Promise(to, <<h, n>>, e.value, {"Dirty"})
                      ELSE IF p = <<from, <<g, n>> >> THEN Promise(from, <<g, n>>, NoValue, o)
                      ELSE promised[p]]
  BY <1>3 DEF Promises
<1>7. SetsKey(entryMap[from], m1, a, NoValue)
  <2>1. PutOptions(NoValue, o) \in KeyOptions
    BY <1>1 DEF PutOptions, KeyOptions, When
  <2>2. Sound(entryMap[from])
    BY DEF ArrivesInv
  <2>3. QED
    BY <1>1, <2>1, <2>2, SetKeyGives
<1>8. SetsKey(base, m2, b, e.value)
  <2>1. MovedOptions(e) \in KeyOptions
    BY DEF MovedOptions, KeyOptions, When
  <2>2. Sound(base)
    BY <1>7 DEF ArrivesInv, SetsKey
  <2> HIDE DEF base
  <2>3. QED
    BY <1>1, <1>4, <2>1, <2>2, SetKeyGives
<1> HIDE DEF m1, m2, a, b
<1>9. ASSUME NEW p \in Objects \X Places, promised'[p] # Unknown
      PROVE  Shows(entryMap'[p[1]], KeyOf(p), promised'[p])
  <2> DEFINE k == KeyOf(p)
  <2>1. /\ p[1] \in Objects /\ k \in Keys
        /\ p = <<to, <<h, n>> >> <=> p[1] = to /\ k = b
        /\ p = <<from, <<g, n>> >> <=> p[1] = from /\ k = a
    <3>1. p[1] \in Objects /\ k \in Keys
          /\ \A x, i, j : p = <<x, <<i, j>> >> <=> p[1] = x /\ k = At(i, j)
      BY KeysOfPlaces
    <3> HIDE DEF k
    <3>2. QED
      BY <3>1, Zenon DEF a, b
  <2> HIDE DEF k
  <2>2. CASE p = <<to, <<h, n>> >>
    <3>1. promised'[p] = Promise(to, <<h, n>>, e.value, {"Dirty"})
      BY <1>6, <2>2
    <3>2. promised'[p] = e.value /\ ~Refused(entryMap[to], b)
      BY <3>1, <1>9, PromiseGives DEF b
    <3>3. ~Refused(base, b)
      BY <3>2, <1>2, <1>7 DEF SetsKey
    <3>4. Has(m2, b) /\ m2[b].value = e.value
      BY <3>3, <1>8 DEF SetsKey
    <3>5. QED
      BY <1>5, <2>1, <2>2, <3>2, <3>4 DEF Shows, k
  <2>3. CASE p # <<to, <<h, n>> >> /\ p = <<from, <<g, n>> >>
    <3>1. promised'[p] = Promise(from, <<g, n>>, NoValue, o)
      BY <1>6, <2>3
    <3>2. promised'[p] = NoValue /\ ~Refused(entryMap[from], a)
      BY <3>1, <1>9, PromiseGives DEF a
    <3>3. Has(m1, a) /\ m1[a].value = NoValue
      BY <3>2, <1>7 DEF SetsKey
    <3>4. from = to => m2[a] = m1[a]
      BY <2>1, <2>3, <1>2, <1>8 DEF SetsKey
    <3>5. QED
      BY <1>5, <2>1, <2>3, <3>2, <3>3, <3>4 DEF Shows, Has, k
  <2>4. CASE p # <<to, <<h, n>> >> /\ p # <<from, <<g, n>> >>
    <3>1. promised'[p] = promised[p]
      BY <1>6, <2>4
    <3>2. Shows(entryMap[p[1]], k, promised[p])
      BY <3>1, <1>9 DEF ArrivesInv, k
    <3>3. p[1] = to => m2[k] = base[k]
      BY <2>1, <2>4, <1>8 DEF SetsKey
    <3>4. p[1] = from => m1[k] = entryMap[from][k]
      BY <2>1, <2>4, <1>7 DEF SetsKey
    <3>5. entryMap'[p[1]][k] = entryMap[p[1]][k]
      BY <1>5, <2>1, <3>3, <3>4
    <3>6. QED
      BY <3>1, <3>2, <3>5 DEF Shows, Has, k
  <2>5. QED
    BY <2>2, <2>3, <2>4
<1>10. \A x \in Objects : Sound(entryMap'[x])
  BY <1>5, <1>7, <1>8 DEF SetsKey, ArrivesInv
<1>11. file' = file
  BY DEF MoveValue, Call
<1>12. QED
  BY <1>5, <1>6, <1>9, <1>10, <1>11 DEF ArrivesInv

\* Whether there is an entry for a key, in a map without localized entries.
LEMMA HasEntryOf ==
    ASSUME NEW m, Sound(m), NEW t, t[1] \in Groups, t[2] \in Names
    PROVE  /\ HasEntry(m, t) <=> Has(m, At(t[1], t[2]))
           /\ HasEntry(m, t) => Reads(m, t) = m[At(t[1], t[2])].value
<1> DEFINE k == At(t[1], t[2])
           j == Slot(t[1], t[2], TRUE, FALSE)
<1>1. j \in EntryKey /\ j.local = TRUE
  BY DEF Slot, EntryKey
<1>2. ~Has(m, j)
  <2> HIDE DEF j
  <2> QED
    BY <1>1 DEF Sound
<1>3. FindEntry(m, t[1], t[2], TRUE, FALSE) = k
  BY <1>2 DEF FindEntry, At
<1>4. k \in EntryKey
  <2>1. k \in Keys
    BY AtIsKey
  <2> HIDE DEF k
  <2>2. QED
    BY <2>1 DEF Keys
<1>5. Has(m, k) => (m[k].deleted => m[k].value = NoValue)
  BY <1>4 DEF Sound, SoundEntry
<1> HIDE DEF k
<1>6. QED
  BY <1>3, <1>5 DEF Reads, GetEntry, HasEntry, k

\* What a copy of a group promises, and what there is in the copy.
LEMMA CopyKeepsPromises ==
    ASSUME ArrivesInv, NEW from \in Objects, NEW to \in Objects, NEW g \in PlaceGroups,
           NEW h \in PlaceGroups, NEW o \in CallOptions, NEW p \in Objects \X Places
    PROVE  LET m2 == CopyMap(entryMap[from], g, entryMap[to], h, o)
               new == CopyPromises(from, g, to, h, o)
               k == KeyOf(p)
           IN  /\ Sound(m2)
               /\ p \in DOMAIN new <=>
                      p[1] = to /\ p[2][1] = h /\ Has(entryMap[from], At(g, p[2][2]))
               /\ p \in DOMAIN new /\ new[p] # Unknown => Shows(m2, k, new[p])
               /\ p[1] = to /\ p \notin DOMAIN new => m2[k] = entryMap[to][k]
               /\ from = to /\ p[2][1] = g /\ Has(entryMap[to], k) =>
                      Has(m2, k) /\ m2[k].immutable = entryMap[to][k].immutable
<1> DEFINE m2 == CopyMap(entryMap[from], g, entryMap[to], h, o)
           new == CopyPromises(from, g, to, h, o)
           k == KeyOf(p)
           n == p[2][2]
           j == At(g, n)
<1>1. g \in Groups /\ h \in Groups /\ o \in SUBSET {"Dirty", "Notify"}
  BY CallsAre
<1>2. /\ p[1] \in Objects /\ p[2] \in Places /\ k \in Keys /\ k \in EntryKey
      /\ p[2][1] \in Groups /\ n \in Names /\ k.group = p[2][1] /\ k.name = n
  BY KeysOfPlaces
<1>3. p = <<p[1], p[2]>>
  OBVIOUS
<1>4. Sound(entryMap[from]) /\ Sound(entryMap[to])
  BY DEF ArrivesInv
<1>5. /\ HasEntry(entryMap[from], <<g, n>>) <=> Has(entryMap[from], j)
      /\ HasEntry(entryMap[from], <<g, n>>) =>
             Reads(entryMap[from], <<g, n>>) = entryMap[from][j].value
  <2> DEFINE t == <<g, n>>
  <2>1. t[1] = g /\ t[2] = n
    OBVIOUS
  <2> HIDE DEF t, n
  <2>2. /\ HasEntry(entryMap[from], t) <=> Has(entryMap[from], At(t[1], t[2]))
        /\ HasEntry(entryMap[from], t) =>
               Reads(entryMap[from], t) = entryMap[from][At(t[1], t[2])].value
    BY <1>1, <1>2, <1>4, <2>1, HasEntryOf
  <2>3. QED
    BY <2>1, <2>2 DEF t
<1>6. p \in DOMAIN new <=> p[1] = to /\ p[2][1] = h /\ HasEntry(entryMap[from], <<g, n>>)
  <2> DEFINE S == {t \in Places : t[1] = h /\ HasEntry(entryMap[from], <<g, t[2]>>)}
  <2>1. DOMAIN new = {<<to, t>> : t \in S}
    BY DEF CopyPromises
  <2>2. p[2] \in S <=> p[2][1] = h /\ HasEntry(entryMap[from], <<g, n>>)
    BY <1>2
  <2> HIDE DEF S, new
  <2>3. p \in {<<to, t>> : t \in S} <=> p[1] = to /\ p[2] \in S
    BY <1>3
  <2>4. QED
    BY <2>1, <2>2, <2>3
<1>7. p \in DOMAIN new => new[p] = Promise(to, p[2], Reads(entryMap[from], <<g, n>>), o)
  BY DEF CopyPromises
<1>8. CopiesGroup(m2, entryMap[from], g, entryMap[to], h, o)
  BY <1>1, <1>4, CopyMapGives
<1>9. p[2][1] = h => k = Slot(h, n, FALSE, FALSE)
  BY DEF KeyOf, At
<1>10. j = Slot(g, n, FALSE, FALSE)
  BY DEF At
<1> HIDE DEF m2, new, k, n, j
<1>11. p[2][1] = h => IF Has(entryMap[from], j) THEN /\ Has(m2, k)
                                                     /\ m2[k].value = entryMap[from][j].value
                                                     /\ m2[k].immutable = entryMap[from][j].immutable
                      ELSE m2[k] = entryMap[to][k]
  <2> DEFINE x == Slot(h, n, FALSE, FALSE)
             y == Slot(g, n, FALSE, FALSE)
  <2>1. IF Has(entryMap[from], y) THEN /\ Has(m2, x)
                                       /\ m2[x] = CopiedEntry(entryMap[from][y], o)
                                       /\ m2[x].value = entryMap[from][y].value
                                       /\ m2[x].immutable = entryMap[from][y].immutable
        ELSE m2[x] = entryMap[to][x]
    BY <1>2, <1>8 DEF CopiesGroup
  <2>2. QED
    BY <1>9, <1>10, <2>1
<1>12. p[2][1] # h => m2[k] = entryMap[to][k]
  BY <1>2, <1>8 DEF CopiesGroup
<1>13. from = to /\ p[2][1] = g /\ Has(entryMap[to], k) =>
           Has(m2, k) /\ m2[k].immutable = entryMap[to][k].immutable
  <2>1. p[2][1] = g => k = j
    BY DEF k, j, n, KeyOf
  <2>2. QED
    BY <1>11, <1>12, <2>1 DEF Has
<1>14. p \in DOMAIN new /\ new[p] # Unknown => Shows(m2, k, new[p])
  <2>1. SUFFICES ASSUME p \in DOMAIN new, new[p] # Unknown
                 PROVE  Shows(m2, k, new[p])
    OBVIOUS
  <2>2. new[p] = Reads(entryMap[from], <<g, n>>)
    BY <2>1, <1>7, PromiseGives
  <2>3. QED
    BY <2>1, <2>2, <1>5, <1>6, <1>11 DEF Shows
<1>15. p \in DOMAIN new <=> p[1] = to /\ p[2][1] = h /\ Has(entryMap[from], j)
  BY <1>5, <1>6
<1>16. p[1] = to /\ p \notin DOMAIN new => m2[k] = entryMap[to][k]
  BY <1>11, <1>12, <1>15
<1>17. QED
  BY <1>8, <1>13, <1>14, <1>15, <1>16 DEF CopiesGroup, m2, new, k, n, j

\* copyTo() keeps the promises, its own included.
LEMMA CopyArrives ==
    ASSUME ArrivesInv, NEW from \in Objects, NEW to \in Objects, NEW g \in PlaceGroups,
           NEW h \in PlaceGroups, NEW o \in CallOptions, CopyTo(from, g, to, h, o)
    PROVE  ArrivesInv'
<1> DEFINE m2 == CopyMap(entryMap[from], g, entryMap[to], h, o)
           new == CopyPromises(from, g, to, h, o)
<1>1. file' = file
  BY DEF CopyTo, Call
<1>2. entryMap' = [x \in Objects |-> IF x = to THEN m2 ELSE entryMap[x]]
  <2>1. CopyGroup(from, g, Of(to), h, o).map = m2
    BY DEF CopyGroup, Of, Object
  <2> DEFINE changed == [x \in {to} |-> CopyGroup(from, g, Of(to), h, o)]
  <2>2. entryMap' = [x \in Objects |-> IF x \in DOMAIN changed THEN changed[x].map
                                       ELSE entryMap[x]]
    BY DEF CopyTo, Leave
  <2>3. QED
    BY <2>1, <2>2
<1>3. promised' = [p \in Objects \X Places |-> IF p \in DOMAIN new THEN new[p] ELSE promised[p]]
  BY DEF CopyTo, Promises
<1>4. ASSUME NEW p \in Objects \X Places
      PROVE  /\ Sound(m2)
             /\ p \in DOMAIN new => p[1] = to
             /\ p \in DOMAIN new /\ new[p] # Unknown => Shows(m2, KeyOf(p), new[p])
             /\ p[1] = to /\ p \notin DOMAIN new => m2[KeyOf(p)] = entryMap[to][KeyOf(p)]
  BY CopyKeepsPromises
<1>5. Sound(m2)
  <2>1. g \in Groups /\ h \in Groups /\ o \in SUBSET {"Dirty", "Notify"}
    BY CallsAre
  <2>2. QED
    BY <2>1, CopyMapGives DEF ArrivesInv, CopiesGroup
<1> HIDE DEF m2, new
<1>6. ASSUME NEW p \in Objects \X Places, promised'[p] # Unknown
      PROVE  Shows(entryMap'[p[1]], KeyOf(p), promised'[p])
  <2>1. p[1] \in Objects
    BY KeysOfPlaces
  <2>2. CASE p \in DOMAIN new
    BY <1>2, <1>3, <1>4, <1>6, <2>1, <2>2
  <2>3. CASE p \notin DOMAIN new
    <3>1. promised'[p] = promised[p] /\ Shows(entryMap[p[1]], KeyOf(p), promised[p])
      BY <1>3, <1>6, <2>3 DEF ArrivesInv
    <3>2. entryMap'[p[1]][KeyOf(p)] = entryMap[p[1]][KeyOf(p)]
      BY <1>2, <1>4, <2>1, <2>3
    <3>3. QED
      BY <3>1, <3>2 DEF Shows, Has
  <2>4. QED
    BY <2>2, <2>3
<1>7. QED
  BY <1>1, <1>2, <1>3, <1>5, <1>6 DEF ArrivesInv

\* reparent() keeps the promises, its own included.
LEMMA ReparentArrives ==
    ASSUME ArrivesInv, NEW from \in Objects, NEW to \in Objects, NEW g \in PlaceGroups,
           NEW h \in PlaceGroups, NEW o \in CallOptions, Reparent(from, g, to, h, o)
    PROVE  ArrivesInv'
<1> DEFINE m2 == CopyMap(entryMap[from], g, entryMap[to], h, o)
           new == CopyPromises(from, g, to, h, o)
           gone == DeletePromises(from, g)
           base == IF from = to THEN m2 ELSE entryMap[from]
           m3 == DeleteGroupMap(base, FALSE, g, {"Dirty"})
<1>1. file' = file
  BY DEF Reparent, Call
<1>2. entryMap' = [x \in Objects |-> IF x = from THEN m3 ELSE IF x = to THEN m2 ELSE entryMap[x]]
  <2> DEFINE copied == CopyGroup(from, g, Of(to), h, o)
             changed == IF from = to THEN [x \in {to} |-> DeleteGroup(copied, g)]
                        ELSE [x \in {from, to} |-> IF x = from THEN DeleteGroup(Of(from), g)
                                                   ELSE copied]
  <2>1. copied.map = m2 /\ DeleteGroup(copied, g).map = DeleteGroupMap(m2, FALSE, g, {"Dirty"})
        /\ DeleteGroup(Of(from), g).map = DeleteGroupMap(entryMap[from], FALSE, g, {"Dirty"})
    BY DEF CopyGroup, DeleteGroup, Of, Object
  <2>2. entryMap' = [x \in Objects |-> IF x \in DOMAIN changed THEN changed[x].map
                                       ELSE entryMap[x]]
    BY DEF Reparent, Leave
  <2> HIDE DEF copied, m2
  <2>3. CASE from = to
    BY <2>1, <2>2, <2>3
  <2>4. CASE from # to
    BY <2>1, <2>2, <2>4
  <2>5. QED
    BY <2>3, <2>4
<1>3. promised' = [p \in Objects \X Places |-> IF p \in DOMAIN gone THEN gone[p]
                                               ELSE IF p \in DOMAIN new THEN new[p]
                                               ELSE promised[p]]
  <2>1. Promises([p \in DOMAIN gone \cup DOMAIN new |->
                     IF p \in DOMAIN gone THEN gone[p] ELSE new[p]])
    BY DEF Reparent, ReparentPromises
  <2> HIDE DEF gone, new
  <2>2. QED
    BY <2>1 DEF Promises
<1>4. g \in Groups /\ h \in Groups /\ o \in SUBSET {"Dirty", "Notify"} /\ g \in SubGroups[g]
  BY CallsAre, CallsAssumption
<1>5. Sound(m2)
  BY <1>4, CopyMapGives DEF ArrivesInv, CopiesGroup
<1>6. Sound(base)
  BY <1>5 DEF ArrivesInv
<1>7. DeletesKeys(base, m3, g)
  <2> HIDE DEF base
  <2> QED
    BY <1>4, <1>6, DeleteGroupGives
<1>8. ASSUME NEW p \in Objects \X Places
      PROVE  /\ p \in DOMAIN new <=>
                    p[1] = to /\ p[2][1] = h /\ Has(entryMap[from], At(g, p[2][2]))
             /\ p \in DOMAIN new /\ new[p] # Unknown => Shows(m2, KeyOf(p), new[p])
             /\ p[1] = to /\ p \notin DOMAIN new => m2[KeyOf(p)] = entryMap[to][KeyOf(p)]
             /\ from = to /\ p[2][1] = g /\ Has(entryMap[to], KeyOf(p)) =>
                    Has(m2, KeyOf(p)) /\ m2[KeyOf(p)].immutable = entryMap[to][KeyOf(p)].immutable
  BY CopyKeepsPromises
<1>9. ASSUME NEW p \in Objects \X Places
      PROVE  /\ p \in DOMAIN gone <=> p[1] = from /\ p[2][1] = g /\ Has(entryMap[from], KeyOf(p))
             /\ p \in DOMAIN gone => gone[p] = Promise(from, p[2], NoValue, {"Dirty"})
  <2>1. p = <<p[1], p[2]>> /\ p[2] \in Places /\ p[2][1] \in Groups /\ p[2][2] \in Names
    BY KeysOfPlaces
  <2>2. HasEntry(entryMap[from], p[2]) <=> Has(entryMap[from], KeyOf(p))
    BY <2>1, HasEntryOf DEF ArrivesInv, KeyOf
  <2>3. QED
    BY <2>1, <2>2 DEF DeletePromises
<1> HIDE DEF m2, new, gone, base, m3
<1>10. ASSUME NEW p \in Objects \X Places, promised'[p] # Unknown
       PROVE  Shows(entryMap'[p[1]], KeyOf(p), promised'[p])
  <2> DEFINE k == KeyOf(p)
  <2>1. p[1] \in Objects /\ k \in Keys /\ k \in EntryKey /\ k.group = p[2][1] /\ k.name = p[2][2]
        /\ k = At(p[2][1], p[2][2])
    BY KeysOfPlaces DEF KeyOf
  <2>2. k.group \in SubGroups[g] => k.group = g
    BY <2>1, CallsAre
  <2> HIDE DEF k
  <2>3. CASE p \in DOMAIN gone
    <3>1. promised'[p] = Promise(from, p[2], NoValue, {"Dirty"})
      BY <1>3, <1>9, <2>3
    <3>2. promised'[p] = NoValue /\ ~Refused(entryMap[from], k)
      BY <3>1, <1>10, <2>1, PromiseGives
    <3>3. p[1] = from /\ k.group = g /\ Has(entryMap[from], k)
      BY <1>9, <2>1, <2>3 DEF k
    <3>4. ~entryMap[from][k].immutable
      BY <3>2, <3>3 DEF Refused
    <3>5. Has(base, k) /\ ~base[k].immutable
      BY <1>8, <2>1, <3>3, <3>4 DEF base, k
    <3>6. m3[k].value = NoValue /\ Has(m3, k)
      BY <1>4, <1>7, <2>1, <3>3, <3>5 DEF DeletesKeys, Has
    <3>7. QED
      BY <1>2, <2>1, <3>2, <3>3, <3>6 DEF Shows, k
  <2>4. CASE p \notin DOMAIN gone /\ p \in DOMAIN new
    <3>1. promised'[p] = new[p] /\ Shows(m2, k, new[p])
      BY <1>3, <1>8, <1>10, <2>4 DEF k
    <3>2. p[1] = to /\ k.group = h
      BY <1>8, <2>1, <2>4
    <3>3. CASE from # to
      BY <1>2, <2>1, <3>1, <3>2, <3>3 DEF k
    <3>4. CASE from = to
      <4>1. h # g
        <5>1. Has(entryMap[from], At(g, p[2][2])) /\ p[2][1] = h
          BY <1>8, <2>4
        <5>2. QED
          BY <5>1, <1>9, <2>1, <2>4, <3>2, <3>4 DEF k
      <4>2. m3[k] = base[k]
        BY <4>1, <1>7, <2>1, <2>2, <3>2 DEF DeletesKeys
      <4>3. QED
        BY <4>2, <1>2, <2>1, <3>1, <3>2, <3>4 DEF Shows, Has, base, k
    <3>5. QED
      BY <3>3, <3>4
  <2>5. CASE p \notin DOMAIN gone /\ p \notin DOMAIN new
    <3>1. promised'[p] = promised[p] /\ Shows(entryMap[p[1]], k, promised[p])
      BY <1>3, <1>10, <2>5 DEF ArrivesInv, k
    <3>2. p[1] = to => m2[k] = entryMap[to][k]
      BY <1>8, <2>5 DEF k
    <3>3. p[1] = from => m3[k] = base[k]
      <4>1. p[1] = from => k.group # g
        BY <3>1, <1>9, <2>1, <2>5 DEF Shows, k
      <4>2. QED
        BY <4>1, <1>7, <2>1, <2>2 DEF DeletesKeys
    <3>4. entryMap'[p[1]][k] = entryMap[p[1]][k]
      BY <1>2, <2>1, <3>2, <3>3 DEF base
    <3>5. QED
      BY <3>1, <3>4 DEF Shows, Has, k
  <2>6. QED
    BY <2>3, <2>4, <2>5
<1>11. \A x \in Objects : Sound(entryMap'[x])
  BY <1>2, <1>5, <1>7 DEF DeletesKeys, ArrivesInv
<1>12. QED
  BY <1>1, <1>2, <1>3, <1>10, <1>11 DEF ArrivesInv

\* KConfig::copyTo() keeps the promises, its own included.
LEMMA CopyAllArrives ==
    ASSUME ArrivesInv, NEW from \in Objects, NEW to \in Objects, CopyAll(from, to)
    PROVE  ArrivesInv'
<1> DEFINE m2 == CopiedAll(entryMap[from])
<1>1. file' = file
  BY DEF CopyAll, Call
<1>2. entryMap' = [x \in Objects |-> IF x = to THEN m2 ELSE entryMap[x]]
  <2> DEFINE all == Object(m2, TRUE)
             changed == [x \in {to} |-> all]
  <2>1. entryMap' = [x \in Objects |-> IF x \in DOMAIN changed THEN changed[x].map
                                       ELSE entryMap[x]]
    BY DEF CopyAll, Leave, CopiedAll
  <2>2. all.map = m2
    BY DEF Object
  <2> HIDE DEF all, m2
  <2>3. QED
    BY <2>1, <2>2
<1>3. promised' = [p \in Objects \X Places |->
                      IF p \in {to} \X Places
                      THEN IF HasEntry(entryMap[from], p[2])
                           THEN Promise(to, p[2], Reads(entryMap[from], p[2]), {"Dirty"})
                           ELSE Unknown
                      ELSE promised[p]]
  BY DEF CopyAll, Promises
<1>4. /\ Sound(m2)
      /\ \A k \in EntryKey : /\ Has(m2, k) <=> Has(entryMap[from], k)
                             /\ Has(entryMap[from], k) => m2[k].value = entryMap[from][k].value
  BY CopiedAllGives DEF ArrivesInv
<1> HIDE DEF m2
<1>5. ASSUME NEW p \in Objects \X Places, promised'[p] # Unknown
      PROVE  Shows(entryMap'[p[1]], KeyOf(p), promised'[p])
  <2> DEFINE k == KeyOf(p)
  <2>1. /\ p[1] \in Objects /\ k \in EntryKey
        /\ p[2] \in Places /\ p[2][1] \in Groups /\ p[2][2] \in Names
    BY KeysOfPlaces
  <2>2. CASE p[1] = to
    <3>1. p \in {to} \X Places
      BY <2>1, <2>2
    <3>2. /\ HasEntry(entryMap[from], p[2])
          /\ promised'[p] = Reads(entryMap[from], p[2])
      BY <3>1, <1>3, <1>5, PromiseGives
    <3>3. Has(entryMap[from], k) /\ promised'[p] = entryMap[from][k].value
      BY <3>2, <2>1, HasEntryOf DEF ArrivesInv, KeyOf
    <3> HIDE DEF k
    <3>4. QED
      BY <3>3, <1>2, <1>4, <2>1, <2>2 DEF Shows, k
  <2>3. CASE p[1] # to
    <3>1. promised'[p] = promised[p]
      BY <1>3, <2>3
    <3>2. QED
      BY <3>1, <1>2, <1>5, <2>1, <2>3 DEF ArrivesInv
  <2>4. QED
    BY <2>2, <2>3
<1>6. QED
  BY <1>1, <1>2, <1>3, <1>4, <1>5 DEF ArrivesInv

\* sync() keeps the promises.
LEMMA SyncArrives ==
    ASSUME ArrivesInv, NEW o \in Objects, Sync(o)
    PROVE  ArrivesInv'
<1> DEFINE w == WriteConfig(entryMap[o], file[o], FALSE)
           merging == [default |-> FALSE, global |-> FALSE, merging |-> TRUE]
           disk == ParseConfig(EmptyMap, file[o], merging)
<1>1. promised' = promised
  BY DEF Sync
<1>2. CASE ~bDirty[o]
  <2>1. entryMap' = entryMap /\ file' = file
    BY <1>2 DEF Sync
  <2>2. QED
    BY <1>1, <2>1 DEF ArrivesInv
<1>3. CASE bDirty[o]
  <2>1. /\ entryMap' = [x \in Objects |-> IF x = o THEN w.map ELSE entryMap[x]]
        /\ file' = [file EXCEPT ![o] = w.file]
    <3> DEFINE all == Object(w.map, ~w.ok)
               changed == [x \in {o} |-> all]
    <3>1. /\ entryMap' = [x \in Objects |-> IF x \in DOMAIN changed THEN changed[x].map
                                            ELSE entryMap[x]]
          /\ file' = [file EXCEPT ![o] = w.file]
      BY <1>3 DEF Sync, Leave
    <3>2. all.map = w.map
      BY DEF Object
    <3> HIDE DEF all, w
    <3>3. QED
      BY <3>1, <3>2
  <2>2. Sound(entryMap[o]) /\ PlainFile(file[o])
    BY DEF ArrivesInv
  <2>3. Sound(disk.map)
    <3>1. PlainOpts(merging)
      BY DEF PlainOpts
    <3> HIDE DEF merging
    <3>2. QED
      BY <2>2, <3>1, SoundEmpty, SoundParse
  <2>4. \/ /\ w.map = AfterWrite(entryMap[o], FALSE)
           /\ w.file = WriteEntries(Merge(entryMap[o], disk.map, FALSE))
        \/ w.map = entryMap[o] /\ w.file = file[o]
    <3>1. w = MergeWith(entryMap[o], file[o], disk, FALSE)
      BY DEF WriteConfig
    <3> HIDE DEF w, disk
    <3>2. QED
      BY <3>1 DEF MergeWith
  <2> HIDE DEF w, disk
  <2>5. Sound(w.map) /\ PlainFile(w.file)
    <3>1. Sound(AfterWrite(entryMap[o], FALSE))
      BY <2>2, SoundAfterWrite
    <3>2. PlainFile(WriteEntries(Merge(entryMap[o], disk.map, FALSE)))
      BY <2>2, <2>3, SoundMerge, WrittenIsPlain
    <3>3. QED
      BY <2>2, <2>4, <3>1, <3>2
  <2>6. ASSUME NEW k \in EntryKey, NEW v, Shows(entryMap[o], k, v)
        PROVE  Shows(w.map, k, v)
    <3>1. CASE w.map = entryMap[o]
      BY <3>1, <2>6
    <3>2. CASE w.map = AfterWrite(entryMap[o], FALSE)
      <4> DEFINE m == entryMap[o]
                 m2 == w.map
      <4>1. Sound(m) /\ m2 = AfterWrite(m, FALSE) /\ Has(m, k) /\ m[k].value = v
        BY <2>2, <2>6, <3>2 DEF Shows
      <4> HIDE DEF m, m2
      <4>2. /\ m2[k] = IF Writes(m, k) THEN Clean(m[k]) ELSE m[k]
            /\ Has(m2, k)
        BY <4>1, SoundAfterWrite
      <4>3. SoundEntry(m[k])
        BY <4>1 DEF Sound
      <4>4. Clean(m[k]).value = m[k].value
        BY <4>3, CleanSound
      <4>5. m2[k].value = v
        BY <4>1, <4>2, <4>4
      <4>6. QED
        BY <4>2, <4>5 DEF Shows, m2
    <3>3. QED
      BY <2>4, <3>1, <3>2
  <2>7. ASSUME NEW p \in Objects \X Places, promised'[p] # Unknown
        PROVE  Shows(entryMap'[p[1]], KeyOf(p), promised'[p])
    <3>1. p[1] \in Objects /\ KeyOf(p) \in EntryKey
      BY KeysOfPlaces
    <3>2. Shows(entryMap[p[1]], KeyOf(p), promised'[p])
      BY <1>1, <2>7 DEF ArrivesInv
    <3>3. QED
      BY <2>1, <2>6, <3>1, <3>2
  <2>8. QED
    BY <1>1, <2>1, <2>5, <2>7 DEF ArrivesInv
<1>4. QED
  BY <1>2, <1>3

\* Every step keeps the promises.
LEMMA ArrivesNext ==
    ASSUME ArrivesInv, [Next]_vars
    PROVE  ArrivesInv'
<1>1. CASE UNCHANGED vars
  BY <1>1 DEF vars, ArrivesInv
<1>2. ASSUME NEW from \in Objects, NEW to \in Objects, NEW g \in PlaceGroups,
             NEW h \in PlaceGroups, NEW o \in CallOptions,
             \/ \E n \in PlainNames : MoveValue(from, g, n, to, h, o)
             \/ CopyTo(from, g, to, h, o)
             \/ Reparent(from, g, to, h, o)
      PROVE  ArrivesInv'
  BY <1>2, MoveArrives, CopyArrives, ReparentArrives
<1>3. ASSUME NEW from \in Objects, NEW to \in Objects, CopyAll(from, to)
      PROVE  ArrivesInv'
  BY <1>3, CopyAllArrives
<1>4. ASSUME NEW o \in Objects, Sync(o)
      PROVE  ArrivesInv'
  BY <1>4, SyncArrives
<1>5. QED
  BY <1>1, <1>2, <1>3, <1>4 DEF Next

\* What is moved or copied reads there as it is to, whatever other calls and writes of the files
\* come between (moveValuesTo(), copyTo() and reparent() of KConfigGroup, copyTo() of KConfig).
THEOREM EverythingArrives ==
    ASSUME Unlocalized
    PROVE  Spec => []Arrives
<1>1. Init => ArrivesInv
  BY ArrivesInit
<1>2. ArrivesInv /\ [Next]_vars => ArrivesInv'
  BY ArrivesNext
<1>3. ArrivesInv => Arrives
  <2>1. SUFFICES ASSUME ArrivesInv, NEW p \in Objects \X Places, promised[p] # Unknown
                 PROVE  Reads(entryMap[p[1]], p[2]) = promised[p]
    BY DEF Arrives
  <2>2. p[1] \in Objects /\ p[2] \in Groups \X Names
    <3>1. p[2] \in Places /\ p[1] \in Objects
      OBVIOUS
    <3>2. QED
      BY <3>1, CopyAssumption, IniAssumption
  <2>3. Sound(entryMap[p[1]]) /\ Shows(entryMap[p[1]], KeyOf(p), promised[p])
    BY <2>1, <2>2 DEF ArrivesInv
  <2>4. QED
    BY <2>2, <2>3, ReadsOf DEF Shows, KeyOf
<1>4. QED
  BY <1>1, <1>2, <1>3, PTL DEF Spec

-----------------------------------------------------------------------------
(* What setEntry() does to a key, and to nothing else *)

\* m2 has v in slot k, unless the slot is locked, with the options o.
SetsSlot(m, m2, k, v, o) ==
    /\ Sound(m2)
    /\ \A i \in EntryKey : m2[i] = m[i] \/ i = k \/ (i.name = Marker /\ m2[i] = FreshEntry)
    /\ \A g \in Groups : GroupIsImmutable(m2, g) <=> GroupIsImmutable(m, g)
    /\ Refused(m, k) => m2 = m
    /\ ~Refused(m, k) => /\ Has(m2, k) /\ m2[k].value = v
                         /\ m2[k].immutable <=> "Immutable" \in o
    /\ m2[k] = m[k] \/ (~Refused(m, k) /\ Has(m2, k) /\ ("Dirty" \in o => m2[k].dirty))

\* A value is written, by a call or by the parser.
LEMMA SetSlotGives ==
    ASSUME NEW m, Sound(m), NEW g \in Groups, NEW n \in Names, NEW v \in Values \cup {NoValue},
           NEW o, {"Global", "Localized", "Default"} \cap o = {}
    PROVE  /\ SetsSlot(m, SetEntry(m, g, n, v, o), At(g, n), v, o)
           /\ \/ SetEntry(m, g, n, v, o)[At(g, n)] = m[At(g, n)]
              \/ SetEntryDirties(m, g, n, v, o)
              \/ ~Has(m, At(g, n)) /\ v = NoValue
<1> DEFINE k == At(g, n)
           m2 == SetEntry(m, g, n, v, o)
           e == Stored(m, k, v, o)
           out == Outcome(m, k, v, o)
<1>1. /\ Sound(m2) /\ m2 = Assign(m, k, v, o)
      /\ SetEntryDirties(m, g, n, v, o) <=> out \in {"inserted", "changed"}
  BY SetPlainEntry
<1>2. k \in EntryKey /\ k.local = FALSE /\ k.default = FALSE /\ k.name # Marker /\ k \in Keys
  <2>1. k \in Keys
    BY AtIsKey
  <2> HIDE DEF k
  <2>2. QED
    BY <2>1 DEF Keys
<1>3. m = [i \in EntryKey |-> m[i]]
  BY DEF Sound
<1>4. Assigned(m, Assign(m, k, v, o), k, e, out)
  <2> HIDE DEF k
  <2> QED
    BY <1>2, <1>3, AssignGives
<1>5. SoundEntry(Found(m, k)) /\ SoundEntry(e) /\ e # NoEntry
  <2>1. SoundEntry(Found(m, k))
    BY <1>2, SoundFresh DEF Found, Sound
  <2>2. SoundEntry(e)
    BY <2>1, SoundStored DEF Stored
  <2> HIDE DEF e
  <2>3. QED
    BY <2>1, <2>2, SentinelAssumption DEF SoundEntry
<1>6. /\ e.value = v /\ (e.immutable <=> Found(m, k).immutable \/ "Immutable" \in o)
      /\ "Dirty" \in o => e.dirty
      /\ e.deleted => v = NoValue
  BY <1>5 DEF Stored, StoredOver, SoundEntry
<1>7. /\ SetOnly(m, m2, k)
      /\ Refused(m, k) => m2 = m /\ out = "refused"
      /\ ~Refused(m, k) => \/ m2[k] = e /\ out \in {"inserted", "insertedDeleted", "changed"}
                           \/ Has(m, k) /\ m2 = m /\ SameEntry(m[k], e)
      /\ out = "insertedDeleted" => ~Has(m, k) /\ e.deleted
  BY <1>1, <1>4 DEF Assigned
<1>8. ~Refused(m, k) => ~Found(m, k).immutable
  BY DEF Refused, Found, FreshEntry
<1> HIDE DEF k, m2, e, out
<1>9. \A i \in EntryKey : m2[i] = m[i] \/ i = k \/ (i.name = Marker /\ m2[i] = FreshEntry)
  BY <1>7 DEF SetOnly, MarkerOf, Slot
<1>10. \A h \in Groups : GroupIsImmutable(m2, h) <=> GroupIsImmutable(m, h)
  <2> TAKE h \in Groups
  <2>1. MarkerOf(h) \in EntryKey /\ MarkerOf(h) # k
    BY <1>2, MarkerIsSlot DEF EntryKey
  <2>2. m2[MarkerOf(h)] = m[MarkerOf(h)]
        \/ (~Has(m, MarkerOf(h)) /\ m2[MarkerOf(h)] = FreshEntry)
    BY <1>7, <2>1 DEF SetOnly
  <2>3. QED
    BY <2>2 DEF GroupIsImmutable, IsImmutable, Has, FreshEntry
<1>11. ~Refused(m, k) => /\ Has(m2, k) /\ m2[k].value = v
                         /\ m2[k].immutable <=> "Immutable" \in o
  <2>1. CASE m2[k] = e
    BY <2>1, <1>5, <1>6, <1>8 DEF Has
  <2>2. CASE Has(m, k) /\ m2 = m /\ SameEntry(m[k], e)
    BY <2>2, <1>6, <1>8 DEF SameEntry
  <2>3. QED
    BY <1>7, <2>1, <2>2
<1>12. m2[k] = m[k] \/ (~Refused(m, k) /\ Has(m2, k) /\ ("Dirty" \in o => m2[k].dirty))
  BY <1>5, <1>6, <1>7 DEF Has
<1>13. m2[k] = m[k] \/ SetEntryDirties(m, g, n, v, o) \/ (~Has(m, k) /\ v = NoValue)
  BY <1>1, <1>6, <1>7
<1>14. QED
  BY <1>1, <1>7, <1>9, <1>10, <1>11, <1>12, <1>13 DEF SetsSlot, k, m2

-----------------------------------------------------------------------------
(* A file read over the system's defaults, and the same file read alone *)

\* The default of a key.
DefaultOf(k) == Slot(k.group, k.name, FALSE, TRUE)

LEMMA DefaultIsSlot ==
    ASSUME NEW k \in Keys
    PROVE  /\ DefaultOf(k) \in EntryKey /\ DefaultOf(k) \notin Keys /\ DefaultOf(k).name # Marker
           /\ DefaultOf(k).group = k.group /\ DefaultOf(k).name = k.name
           /\ DefaultOf(k).local = FALSE /\ DefaultOf(k).default = TRUE
           /\ DefaultOf(k) = [k EXCEPT !.default = TRUE]
<1>1. k \in EntryKey /\ k.local = FALSE
  BY DEF Keys
<1>2. ASSUME NEW x
      PROVE  \A j \in EntryKey : [j EXCEPT !.default = x] = Slot(j.group, j.name, j.local, x)
  BY DEF EntryKey, Slot
<1>3. [k EXCEPT !.default = TRUE] = DefaultOf(k)
  BY <1>1, <1>2, Zenon DEF DefaultOf
<1>4. QED
  BY <1>3 DEF DefaultOf, Keys, EntryKey, Slot

\* How writeConfig() parses a file that is not kdeglobals, and how an object parses its own.
DiskOpts == [default |-> FALSE, global |-> FALSE, merging |-> TRUE]
OwnOpts == [default |-> FALSE, global |-> FALSE, merging |-> FALSE]

\* The keys of a group that the system locks are locked with it.
LocksWhole(S) == \A k \in Keys : GroupIsImmutable(S, k.group) => Refused(S, k)

\* The parser of the file alone has read P, the one that began with S has R.
KeyFollows(S, P, R, k) ==
    /\ Refused(S, k) => R[k] = S[k]
    /\ ~Refused(S, k) /\ Has(P, k) => /\ Has(R, k) /\ R[k].value = P[k].value
                                      /\ R[k].immutable <=> P[k].immutable
    /\ ~Refused(S, k) /\ ~Has(P, k) => R[k] = S[k]

MapFollows(S, P, R) ==
    /\ Sound(P) /\ Sound(R)
    /\ \A g \in Groups : /\ ~GroupIsImmutable(P, g)
                         /\ GroupIsImmutable(R, g) <=> GroupIsImmutable(S, g)
    /\ \A k \in Keys : /\ KeyFollows(S, P, R, k)
                       /\ ~Has(P, DefaultOf(k)) /\ R[DefaultOf(k)] = S[DefaultOf(k)]

CursorFollows(S, c, d) ==
    /\ DOMAIN c = DOMAIN StartOfFile /\ DOMAIN d = DOMAIN StartOfFile
    /\ c.group \in Groups /\ d.group = c.group
    /\ d.groupImmutable = c.groupImmutable /\ d.fileImmutable = c.fileImmutable
    /\ ~c.skip /\ (d.skip => GroupIsImmutable(S, c.group))
    /\ c.errors \in Nat /\ d.errors \in Nat /\ d.errors <= c.errors

Follows(S, p, r) == MapFollows(S, p.map, r.map) /\ CursorFollows(S, p.cursor, r.cursor)

\* The two parsers stay at the same place.
LEMMA CursorsFollow ==
    ASSUME NEW S, NEW p, NEW r, Follows(S, p, r), Reading(p.cursor), NEW line, PlainLine(line)
    PROVE  CursorFollows(S, LineCursor(p.map, p.cursor, line, DiskOpts),
                         LineCursor(r.map, r.cursor, line, OwnOpts))
<1> DEFINE c == p.cursor
           d == r.cursor
           c2 == LineCursor(p.map, c, line, DiskOpts)
           d2 == LineCursor(r.map, d, line, OwnOpts)
<1>1. CursorFollows(S, c, d) /\ MapFollows(S, p.map, r.map)
  BY DEF Follows
<1>2. Reading(c) /\ Reading(d)
  BY <1>1, IniAssumption DEF CursorFollows, Reading
<1>3. DiskOpts.default = FALSE /\ DiskOpts.merging = TRUE
      /\ OwnOpts.default = FALSE /\ OwnOpts.merging = FALSE
  BY DEF DiskOpts, OwnOpts
<1>4. ~Skipped(c, DiskOpts) /\ (Skipped(d, OwnOpts) <=> d.skip)
  BY <1>1, <1>3 DEF Skipped, CursorFollows
<1> HIDE DEF c, d
<1>5. CASE line.kind = "group"
  <2>1. c2 = HeaderCursor(p.map, c, line, DiskOpts)
        /\ d2 = HeaderCursor(r.map, d, line, OwnOpts)
    BY <1>2, <1>5 DEF LineCursor
  <2>2. line.group \in Groups
    BY <1>5 DEF PlainLine
  <2>3. ~GroupIsImmutable(p.map, line.group)
        /\ (GroupIsImmutable(r.map, line.group) <=> GroupIsImmutable(S, line.group))
    BY <1>1, <2>2 DEF MapFollows
  <2> HIDE DEF c2, d2
  <2>4. /\ DOMAIN c2 = DOMAIN StartOfFile /\ c2.group = line.group
        /\ c2.fileImmutable = (c.fileImmutable \/ (line.immutable /\ ~KioskException
                                                   /\ line.group = NoGroup))
        /\ c2.groupImmutable = (c.fileImmutable \/ (line.immutable /\ ~KioskException
                                                    /\ line.group # NoGroup))
        /\ c2.skip = GroupIsImmutable(p.map, line.group) /\ c2.errors = c.errors
    BY <1>1, <2>1 DEF HeaderCursor, CursorFollows, StartOfFile
  <2>5. /\ DOMAIN d2 = DOMAIN StartOfFile /\ d2.group = line.group
        /\ d2.fileImmutable = (d.fileImmutable \/ (line.immutable /\ ~KioskException
                                                   /\ line.group = NoGroup))
        /\ d2.groupImmutable = (d.fileImmutable \/ (line.immutable /\ ~KioskException
                                                    /\ line.group # NoGroup))
        /\ d2.skip = GroupIsImmutable(r.map, line.group) /\ d2.errors = d.errors
    BY <1>1, <2>1 DEF HeaderCursor, CursorFollows, StartOfFile
  <2>6. ~c2.skip /\ (d2.skip => GroupIsImmutable(S, line.group))
    BY <2>3, <2>4, <2>5
  <2>7. d2.groupImmutable = c2.groupImmutable /\ d2.fileImmutable = c2.fileImmutable
    BY <1>1, <2>4, <2>5 DEF CursorFollows
  <2>8. CursorFollows(S, c2, d2)
    BY <1>1, <2>2, <2>4, <2>5, <2>6, <2>7 DEF CursorFollows
  <2>9. QED
    BY <2>8 DEF c2, d2, c, d
<1>6. CASE line.kind = "badHeader"
  <2>1. c2 = [c EXCEPT !.groupImmutable = c.fileImmutable]
        /\ d2 = [d EXCEPT !.groupImmutable = d.fileImmutable]
    BY <1>2, <1>6 DEF LineCursor
  <2> HIDE DEF c2, d2
  <2>2. CursorFollows(S, c2, d2)
    BY <1>1, <2>1 DEF CursorFollows, StartOfFile
  <2>3. QED
    BY <2>2 DEF c2, d2, c, d
<1>7. CASE line.kind \notin {"group", "badHeader"}
  <2>1. c2 \in {c, [c EXCEPT !.errors = c.errors + 1]}
        /\ d2 \in {d, [d EXCEPT !.errors = d.errors + 1]}
    BY <1>2, <1>7 DEF LineCursor
  <2>2. line.kind = "entry" => ~IsForeign(line)
    BY DEF PlainLine, IsForeign
  <2>3. d2 # d => c2 = [c EXCEPT !.errors = c.errors + 1]
    BY <1>2, <1>4, <1>7, <2>2 DEF LineCursor, IsIgnored
  <2> HIDE DEF c2, d2
  <2>4. CursorFollows(S, c2, d2)
    BY <1>1, <2>1, <2>3 DEF CursorFollows, StartOfFile
  <2>5. QED
    BY <2>4 DEF c2, d2, c, d
<1>8. QED
  BY <1>5, <1>6, <1>7

\* A key follows when a line sets it in both maps, or is turned away by both.
LEMMA KeysFollow ==
    ASSUME NEW S, Sound(S), NEW P, NEW R, MapFollows(S, P, R), NEW k \in Keys, NEW v, NEW o,
           NEW P2, SetsSlot(P, P2, k, v, o), NEW R2, SetsSlot(R, R2, k, v, o)
    PROVE  MapFollows(S, P2, R2)
<1>1. ASSUME NEW i \in Keys
      PROVE  /\ i # k => P2[i] = P[i] /\ R2[i] = R[i]
             /\ P2[DefaultOf(i)] = P[DefaultOf(i)] /\ R2[DefaultOf(i)] = R[DefaultOf(i)]
  <2>1. /\ i \in EntryKey /\ i.name # Marker
        /\ DefaultOf(i) \in EntryKey /\ DefaultOf(i).name # Marker /\ DefaultOf(i) # k
    BY DefaultIsSlot DEF Keys
  <2>2. QED
    BY <2>1 DEF SetsSlot
<1>2. k.group \in Groups /\ KeyFollows(S, P, R, k)
      /\ ~GroupIsImmutable(P, k.group)
      /\ (GroupIsImmutable(R, k.group) <=> GroupIsImmutable(S, k.group))
  BY KeyIsAt DEF MapFollows
<1>3. KeyFollows(S, P2, R2, k)
  <2>1. CASE Refused(S, k)
    <3>1. R[k] = S[k] /\ Refused(R, k)
      BY <1>2, <2>1 DEF KeyFollows, Refused, Has
    <3>2. QED
      BY <2>1, <3>1 DEF SetsSlot, KeyFollows
  <2>2. CASE ~Refused(S, k) /\ Has(P, k)
    <3>1. Has(R, k) /\ (Refused(R, k) <=> Refused(P, k))
      BY <1>2, <2>2 DEF KeyFollows, Refused
    <3>2. QED
      BY <1>2, <2>2, <3>1 DEF SetsSlot, KeyFollows
  <2>3. CASE ~Refused(S, k) /\ ~Has(P, k)
    <3>1. ~Refused(P, k)
      BY <1>2, <2>3 DEF Refused
    <3>2. ~Refused(R, k)
      BY <1>2, <2>3 DEF KeyFollows, Refused, Has
    <3>3. QED
      BY <2>3, <3>1, <3>2 DEF SetsSlot, KeyFollows
  <2>4. QED
    BY <2>1, <2>2, <2>3
<1>4. ASSUME NEW i \in Keys
      PROVE  /\ KeyFollows(S, P2, R2, i)
             /\ ~Has(P2, DefaultOf(i)) /\ R2[DefaultOf(i)] = S[DefaultOf(i)]
  <2>1. KeyFollows(S, P, R, i) /\ ~Has(P, DefaultOf(i)) /\ R[DefaultOf(i)] = S[DefaultOf(i)]
    BY DEF MapFollows
  <2>2. CASE i # k
    BY <1>1, <2>1, <2>2 DEF KeyFollows, Has
  <2>3. CASE i = k
    BY <1>1, <1>3, <2>1, <2>3 DEF Has
  <2>4. QED
    BY <2>2, <2>3
<1>5. QED
  BY <1>4 DEF MapFollows, SetsSlot

\* A line that only the first parser reads is for a key that the system locks.
LEMMA OneFollows ==
    ASSUME NEW S, NEW P, NEW R, MapFollows(S, P, R), NEW k \in Keys, Refused(S, k), NEW v, NEW o,
           NEW P2, SetsSlot(P, P2, k, v, o)
    PROVE  MapFollows(S, P2, R)
<1>1. ASSUME NEW i \in Keys
      PROVE  /\ i # k => P2[i] = P[i]
             /\ P2[DefaultOf(i)] = P[DefaultOf(i)]
  <2>1. /\ i \in EntryKey /\ i.name # Marker
        /\ DefaultOf(i) \in EntryKey /\ DefaultOf(i).name # Marker /\ DefaultOf(i) # k
    BY DefaultIsSlot DEF Keys
  <2>2. QED
    BY <2>1 DEF SetsSlot
<1>2. ASSUME NEW i \in Keys
      PROVE  /\ KeyFollows(S, P2, R, i)
             /\ ~Has(P2, DefaultOf(i)) /\ R[DefaultOf(i)] = S[DefaultOf(i)]
  <2>1. KeyFollows(S, P, R, i) /\ ~Has(P, DefaultOf(i)) /\ R[DefaultOf(i)] = S[DefaultOf(i)]
    BY DEF MapFollows
  <2>2. QED
    BY <1>1, <2>1 DEF KeyFollows, Has
<1>3. QED
  BY <1>2 DEF MapFollows, SetsSlot

\* A line keeps the two parsers together.
LEMMA LineFollows ==
    ASSUME NEW S, Sound(S), LocksWhole(S), NEW p, NEW r, Follows(S, p, r), Reading(p.cursor),
           NEW line, PlainLine(line)
    PROVE  Follows(S, ParseLine(p, line, DiskOpts), ParseLine(r, line, OwnOpts))
<1> DEFINE c == p.cursor
           d == r.cursor
           P == p.map
           R == r.map
           P2 == LineMap(P, c, line, DiskOpts)
           R2 == LineMap(R, d, line, OwnOpts)
           k == At(c.group, line.name)
           v == TextOf(line)
           o == OptionsOf(c, line, DiskOpts)
<1>1. CursorFollows(S, c, d) /\ MapFollows(S, P, R) /\ c.group \in Groups
  BY DEF Follows, CursorFollows
<1>2. Reading(c) /\ Reading(d)
  BY <1>1, IniAssumption DEF CursorFollows, Reading
<1>3. PlainOpts(DiskOpts) /\ PlainOpts(OwnOpts)
      /\ DiskOpts.default = FALSE /\ OwnOpts.default = FALSE
  BY DEF PlainOpts, DiskOpts, OwnOpts
<1>4. (IsTurn(c, line, DiskOpts) <=> line.kind = "entry")
      /\ (IsTurn(d, line, OwnOpts) <=> line.kind = "entry" /\ ~d.skip)
  BY <1>1, <1>2, <1>3 DEF IsTurn, Skipped, CursorFollows
<1>5. o = OptionsOf(d, line, OwnOpts) /\ d.group = c.group
  BY <1>1, <1>3 DEF OptionsOf, LineOptions, CursorFollows
<1>6. {"Global", "Localized", "Default"} \cap o = {}
  <2>1. {"Global", "Localized", "Dirty", "Notify"} \cap o = {} /\ "Default" \notin o
    <3> HIDE DEF c
    <3> QED
      BY <1>3, OptionsOfGives
  <2> HIDE DEF o
  <2>2. QED
    BY <2>1
<1> HIDE DEF c, d, P, R
<1>7. /\ line.kind = "entry" => P2 = SetEntry(P, c.group, line.name, v, o)
      /\ line.kind # "entry" => P2 = P
  <2>1. /\ IsTurn(c, line, DiskOpts) => P2 = SetEntry(P, c.group, line.name, v, o)
        /\ ~IsTurn(c, line, DiskOpts) => P2 = P
    BY <1>3, PlainLineMap
  <2> HIDE DEF P2, v, o
  <2>2. QED
    BY <1>4, <2>1
<1>8. /\ line.kind = "entry" /\ ~d.skip => R2 = SetEntry(R, c.group, line.name, v, o)
      /\ ~(line.kind = "entry" /\ ~d.skip) => R2 = R
  <2> DEFINE q == OptionsOf(d, line, OwnOpts)
  <2>1. /\ IsTurn(d, line, OwnOpts) => R2 = SetEntry(R, d.group, line.name, v, q)
        /\ ~IsTurn(d, line, OwnOpts) => R2 = R
    BY <1>3, PlainLineMap
  <2>2. q = o
    BY <1>5
  <2> HIDE DEF R2, v, o, q
  <2>3. QED
    BY <1>4, <1>5, <2>1, <2>2
<1>9. Sound(P) /\ Sound(R)
  BY <1>1 DEF MapFollows
<1>10. ASSUME line.kind = "entry"
       PROVE  /\ k \in Keys /\ k.group = c.group
              /\ SetsSlot(P, SetEntry(P, c.group, line.name, v, o), k, v, o)
              /\ SetsSlot(R, SetEntry(R, c.group, line.name, v, o), k, v, o)
  <2>1. line.name \in Names /\ v \in Values \cup {NoValue}
    BY <1>10 DEF PlainLine, TextOf
  <2>2. k \in Keys /\ k.group = c.group
    BY <1>1, <2>1, AtIsKey
  <2> HIDE DEF v, o
  <2>3. QED
    BY <1>1, <1>6, <1>9, <2>1, <2>2, SetSlotGives
<1> HIDE DEF k, v, o, P2, R2
<1>11. MapFollows(S, P2, R2)
  <2>1. CASE line.kind # "entry"
    BY <1>1, <1>7, <1>8, <2>1
  <2>2. CASE line.kind = "entry" /\ ~d.skip
    <3>1. SetsSlot(P, P2, k, v, o) /\ SetsSlot(R, R2, k, v, o) /\ k \in Keys
      BY <1>7, <1>8, <1>10, <2>2
    <3>2. QED
      BY <1>1, <3>1, KeysFollow
  <2>3. CASE line.kind = "entry" /\ d.skip
    <3>1. SetsSlot(P, P2, k, v, o) /\ R2 = R /\ k \in Keys /\ k.group = c.group
      BY <1>7, <1>8, <1>10, <2>3
    <3>2. Refused(S, k)
      BY <1>1, <2>3, <3>1 DEF LocksWhole, CursorFollows
    <3>3. QED
      BY <1>1, <3>1, <3>2, OneFollows
  <2>4. QED
    BY <2>1, <2>2, <2>3
<1>12. CursorFollows(S, LineCursor(P, c, line, DiskOpts), LineCursor(R, d, line, OwnOpts))
  BY CursorsFollow DEF P, R, c, d
<1>13. QED
  BY <1>11, <1>12, ParseLineGives DEF Follows, P2, R2, P, R, c, d

\* So does the whole file, as long as the first parser is still reading.
LEMMA LinesFollow ==
    ASSUME NEW S, Sound(S), LocksWhole(S), NEW p0, NEW r0, Follows(S, p0, r0),
           NEW f, PlainFile(f), Reading(EndOf(p0, f, DiskOpts).cursor)
    PROVE  Follows(S, EndOf(p0, f, DiskOpts), EndOf(r0, f, OwnOpts))
<1> DEFINE p == Parses(p0, f, DiskOpts)
           r == Parses(r0, f, OwnOpts)
           n == Len(f)
           T == {i \in 0 .. n : Reading(p[i].cursor) => Follows(S, p[i], r[i])}
<1>1. n \in Nat /\ \A i \in 1 .. n : PlainLine(f[i])
  BY DEF PlainFile
<1>2. /\ p[0] = p0 /\ \A i \in 1 .. n : p[i] = ParseLine(p[i - 1], f[i], DiskOpts)
      /\ r[0] = r0 /\ \A i \in 1 .. n : r[i] = ParseLine(r[i - 1], f[i], OwnOpts)
  BY <1>1, ParsesStep
<1> HIDE DEF p, r, n
<1>3. 0 \in T
  BY <1>1, <1>2
<1>4. ASSUME NEW i \in 1 .. n, i - 1 \in T
      PROVE  i \in T
  <2> DEFINE a == p[i - 1]
             b == r[i - 1]
             line == f[i]
  <2>1. PlainLine(line) /\ (Reading(a.cursor) => Follows(S, a, b))
    BY <1>1, <1>4
  <2>2. p[i] = ParseLine(a, line, DiskOpts) /\ r[i] = ParseLine(b, line, OwnOpts)
    BY <1>2
  <2> HIDE DEF a, b, line
  <2>3. CASE Reading(a.cursor)
    <3>1. Follows(S, p[i], r[i])
      BY <2>1, <2>2, <2>3, LineFollows
    <3>2. QED
      BY <1>1, <3>1
  <2>4. CASE ~Reading(a.cursor)
    <3>1. p[i].cursor = a.cursor
      <4>1. p[i].cursor = LineCursor(a.map, a.cursor, line, DiskOpts)
        BY <2>2, ParseLineGives
      <4>2. QED
        BY <2>4, <4>1 DEF LineCursor
    <3>2. QED
      BY <1>1, <2>4, <3>1
  <2>5. QED
    BY <2>3, <2>4
<1>5. n \in T
  <2>1. \A i \in 0 .. n : i \in T
    <3> HIDE DEF T
    <3> QED
      BY <1>1, <1>3, <1>4, CountUp
  <2>2. n \in 0 .. n
    BY <1>1
  <2> HIDE DEF T
  <2>3. QED
    BY <2>1, <2>2, Zenon
<1>6. QED
  BY <1>5 DEF EndOf, p, r, n

\* What writeConfig() finds in a file, and what an object has that reads it over S.
DiskOf(f) == ParseConfig(EmptyMap, f, DiskOpts).map

ReadOver(S, f) == ParseConfig(S, f, OwnOpts).map

\* The parser comes to the end of the file.
ReadsThrough(f) == Reading(EndOf(AtStart(EmptyMap), f, DiskOpts).cursor)

\* The locks of groups that are there stay.
LEMMA LocksStay ==
    ASSUME NEW m, Sound(m), NEW c, NEW g \in Groups, GroupIsImmutable(m, g)
    PROVE  GroupIsImmutable(LockGroups(m, c), g)
<1> DEFINE k == MarkerOf(g)
           M == LockGroups(m, c)
<1>1. k \in EntryKey /\ DOMAIN m = EntryKey
  BY MarkerIsSlot DEF EntryKey, Sound
<1>2. M[k] = m[k] \/ M[k] = LockedMarker
  BY <1>1 DEF LockGroups
<1>3. LockedMarker.immutable /\ LockedMarker # NoEntry
  BY SoundFresh DEF LockedMarker, FreshEntry
<1> HIDE DEF M, k
<1>4. IsImmutable(M, k)
  BY <1>2, <1>3 DEF GroupIsImmutable, IsImmutable, Has, k
<1>5. QED
  BY <1>4 DEF GroupIsImmutable, M, k

\* What there is of a key when its file is read over S: what S locks, or else what the file
\* has, or else what S has.
RereadIs(S, P, R) ==
    /\ Sound(P) /\ Sound(R)
    /\ \A k \in Keys : /\ KeyFollows(S, P, R, k)
                       /\ ~Has(P, DefaultOf(k)) /\ R[DefaultOf(k)] = S[DefaultOf(k)]
    /\ \A g \in Groups : GroupIsImmutable(S, g) => GroupIsImmutable(R, g)

LEMMA RereadGives ==
    ASSUME NEW S, Sound(S), LocksWhole(S), NEW f, PlainFile(f), ReadsThrough(f)
    PROVE  RereadIs(S, DiskOf(f), ReadOver(S, f))
<1> DEFINE p0 == AtStart(EmptyMap)
           r0 == AtStart(S)
           p == EndOf(p0, f, DiskOpts)
           r == EndOf(r0, f, OwnOpts)
<1>1. Follows(S, p0, r0)
  <2>1. CursorFollows(S, StartOfFile, StartOfFile)
    BY IniAssumption DEF CursorFollows, StartOfFile
  <2>2. \A k \in EntryKey : ~Has(EmptyMap, k)
    BY DEF Has, EmptyMap
  <2>3. \A g \in Groups : ~GroupIsImmutable(EmptyMap, g)
    BY <2>2, MarkerIsSlot DEF GroupIsImmutable, IsImmutable
  <2>4. \A k \in Keys : KeyFollows(S, EmptyMap, S, k) /\ ~Has(EmptyMap, DefaultOf(k))
    BY <2>2, KeyIsAt, DefaultIsSlot DEF KeyFollows
  <2>5. MapFollows(S, EmptyMap, S)
    BY <2>3, <2>4, SoundEmpty DEF MapFollows
  <2>6. QED
    BY <2>1, <2>5 DEF Follows, AtStart
<1>2. Reading(p.cursor)
  BY DEF ReadsThrough
<1> HIDE DEF p0, r0
<1>3. MapFollows(S, p.map, r.map)
  BY <1>1, <1>2, LinesFollow DEF Follows
<1>4. /\ DiskOf(f) = LockGroups(p.map, p.cursor)
      /\ ReadOver(S, f) = LockGroups(r.map, r.cursor)
  BY DEF DiskOf, ReadOver, ParseConfig, AtEnd, EndOf, p0, r0
<1> DEFINE P == p.map
           R == r.map
           P2 == LockGroups(P, p.cursor)
           R2 == LockGroups(R, r.cursor)
<1> HIDE DEF p, r
<1>5. Sound(P) /\ Sound(R) /\ Sound(P2) /\ Sound(R2)
  BY <1>3, LockGroupsSound DEF MapFollows
<1>6. \A k \in EntryKey : k.name # Marker => P2[k] = P[k] /\ R2[k] = R[k]
  BY <1>5, LockGroupsSound
<1>7. \A g \in Groups : GroupIsImmutable(R, g) => GroupIsImmutable(R2, g)
  BY <1>5, LocksStay
<1> HIDE DEF P2, R2
<1>8. ASSUME NEW k \in Keys
      PROVE  /\ KeyFollows(S, P2, R2, k)
             /\ ~Has(P2, DefaultOf(k)) /\ R2[DefaultOf(k)] = S[DefaultOf(k)]
  <2>1. /\ KeyFollows(S, P, R, k)
        /\ ~Has(P, DefaultOf(k)) /\ R[DefaultOf(k)] = S[DefaultOf(k)]
    BY <1>3 DEF MapFollows
  <2>2. /\ P2[k] = P[k] /\ R2[k] = R[k]
        /\ P2[DefaultOf(k)] = P[DefaultOf(k)] /\ R2[DefaultOf(k)] = R[DefaultOf(k)]
    BY <1>6, DefaultIsSlot DEF Keys
  <2> HIDE DEF P, R
  <2>3. QED
    BY <2>1, <2>2 DEF KeyFollows, Has
<1>9. \A g \in Groups : GroupIsImmutable(S, g) => GroupIsImmutable(R2, g)
  BY <1>3, <1>7 DEF MapFollows
<1>10. RereadIs(S, P2, R2)
  BY <1>5, <1>8, <1>9 DEF RereadIs
<1>11. QED
  BY <1>4, <1>10 DEF P2, R2

-----------------------------------------------------------------------------
(* What sync() writes, and what is read of it *)

\* Where the parser is among the entries of group h.
InGroup(c, h) == DOMAIN c = DOMAIN StartOfFile /\ c.group = h /\ ~c.skip /\ c.errors = 0

\* The line of a slot is for its key.
LEMMA EntryLineTurn ==
    ASSUME NEW M, Sound(M), NEW j \in EntryKey, j.name # Marker, Has(M, j),
           NEW s, Sound(s.map), InGroup(s.cursor, j.group)
    PROVE  LET t == ParseLine(s, EntryLine(M, j), DiskOpts)
           IN  /\ \E o : SetsSlot(s.map, t.map, At(j.group, j.name), M[j].value, o)
               /\ t.cursor = s.cursor
<1> DEFINE line == EntryLine(M, j)
           t == ParseLine(s, line, DiskOpts)
           c == s.cursor
           v == TextOf(line)
           o == OptionsOf(c, line, DiskOpts)
<1>1. /\ j.local = FALSE /\ j.name \in Names /\ j.group \in Groups
      /\ SoundEntry(M[j])
  BY DEF Sound, EntryKey
<1>2. /\ line.kind = "entry" /\ line.name = j.name /\ line.locale = "none"
      /\ line.garbled = FALSE /\ line.value = IF M[j].deleted THEN NoValue ELSE M[j].value
  BY <1>1 DEF EntryLine
<1>3. IsDeletion(line) <=> M[j].deleted
  <2>1. IsKEntry(M[j])
    BY <1>1 DEF IsKEntry, SoundEntry
  <2>2. QED
    BY <2>1, LineOptionsBack
<1>4. t.map = LineMap(s.map, c, line, DiskOpts) /\ t.cursor = LineCursor(s.map, c, line, DiskOpts)
  BY ParseLineGives
<1> HIDE DEF line, t
<1>5. v = M[j].value /\ v \in Values \cup {NoValue}
  BY <1>1, <1>2, <1>3 DEF TextOf, SoundEntry, Entry
<1>6. PlainOpts(DiskOpts) /\ DiskOpts.default = FALSE
  BY DEF PlainOpts, DiskOpts
<1>7. c.group = j.group /\ ~c.skip /\ c.errors = 0
  BY DEF InGroup
<1> HIDE DEF c
<1>8. Reading(c) /\ ~Skipped(c, DiskOpts) /\ IsTurn(c, line, DiskOpts) /\ ~IsForeign(line)
  BY <1>2, <1>7, IniAssumption DEF Reading, Skipped, IsTurn, IsForeign
<1>9. PlainLine(line)
  BY <1>1, <1>2, <1>5 DEF PlainLine, SoundEntry, Entry
<1>10. t.map = SetEntry(s.map, j.group, j.name, v, o)
  <2>1. t.map = SetEntry(s.map, c.group, line.name, v, o)
    BY <1>4, <1>6, <1>8, <1>9, PlainLineMap
  <2>2. QED
    BY <1>2, <1>7, <2>1
<1>11. {"Global", "Localized", "Default"} \cap o = {}
  <2>1. {"Global", "Localized", "Dirty", "Notify"} \cap o = {} /\ "Default" \notin o
    BY <1>6, OptionsOfGives
  <2> HIDE DEF o
  <2>2. QED
    BY <2>1
<1> HIDE DEF v, o
<1>12. SetsSlot(s.map, t.map, At(j.group, j.name), v, o)
  BY <1>1, <1>5, <1>10, <1>11, SetSlotGives
<1>13. t.cursor = c
  BY <1>2, <1>4, <1>8 DEF LineCursor
<1>14. QED
  BY <1>5, <1>12, <1>13, Zenon DEF t, line, c

\* So is what is written of a slot, if anything is.
LEMMA LineOfTurn ==
    ASSUME NEW M, Sound(M), NEW j \in EntryKey, j.name # Marker,
           NEW s, Sound(s.map), InGroup(s.cursor, j.group)
    PROVE  LET t == EndOf(s, LineOf(M, j), DiskOpts)
           IN  /\ Has(M, j) => \E o : SetsSlot(s.map, t.map, At(j.group, j.name), M[j].value, o)
               /\ ~Has(M, j) => t = s
               /\ Sound(t.map) /\ InGroup(t.cursor, j.group)
<1>1. CASE Has(M, j)
  <2> DEFINE line == EntryLine(M, j)
             t == ParseLine(s, line, DiskOpts)
  <2>1. /\ \E o : SetsSlot(s.map, t.map, At(j.group, j.name), M[j].value, o)
        /\ t.cursor = s.cursor
    BY <1>1, EntryLineTurn
  <2>2. LineOf(M, j) = <<line>>
    BY <1>1 DEF LineOf
  <2> HIDE DEF line
  <2>3. EndOf(s, <<line>>, DiskOpts) = t
    BY EndOfShort
  <2> HIDE DEF t
  <2>4. Sound(t.map)
    BY <2>1 DEF SetsSlot
  <2>5. QED
    BY <1>1, <2>1, <2>2, <2>3, <2>4
<1>2. CASE ~Has(M, j)
  <2>1. EndOf(s, LineOf(M, j), DiskOpts) = s
    BY <1>2, EndOfShort DEF LineOf
  <2>2. QED
    BY <1>2, <2>1
<1>3. QED
  BY <1>1, <1>2

\* The parser is among the entries of group h, and has read those of done: each one that has no
\* default is there, with its value, if M has it.
KeyIsRead(m, M, k) ==
    ~Has(M, DefaultOf(k)) => /\ Has(m, k) <=> Has(M, k)
                             /\ Has(M, k) => m[k].value = M[k].value

KeysAreRead(m, done, M) ==
    /\ Sound(m) /\ \A g \in Groups : ~GroupIsImmutable(m, g)
    /\ \A k \in Keys : IF k \in done THEN KeyIsRead(m, M, k) ELSE ~Has(m, k)

AtKey(s, done, M, h) == KeysAreRead(s.map, done, M) /\ InGroup(s.cursor, h)

\* The lines of a key fill its slot.
LEMMA KeyLinesTurn ==
    ASSUME NEW M, Sound(M), NEW h \in Groups, NEW n \in Names, NEW s, NEW done,
           AtKey(s, done, M, h), At(h, n) \notin done
    PROVE  AtKey(EndOf(s, KeyLines(M, h, n), DiskOpts), done \cup {At(h, n)}, M, h)
<1> DEFINE k == At(h, n)
           d == DefaultOf(k)
           s1 == EndOf(s, LineOf(M, k), DiskOpts)
           s2 == EndOf(s1, LineOf(M, d), DiskOpts)
<1>1. k \in Keys /\ k \in EntryKey /\ k.name # Marker /\ k.group = h /\ k.name = n
  <2>1. k \in Keys /\ k.group = h /\ k.name = n
    BY AtIsKey
  <2> HIDE DEF k
  <2>2. QED
    BY <2>1 DEF Keys
<1>2. /\ d \in EntryKey /\ d.name # Marker /\ d.group = h /\ d.name = n
      /\ d = Slot(h, n, FALSE, TRUE)
  <2> HIDE DEF k
  <2>1. d = Slot(h, n, FALSE, TRUE)
    BY <1>1 DEF DefaultOf
  <2>2. QED
    BY <1>1, <2>1, DefaultIsSlot
<1>3. EndOf(s, KeyLines(M, h, n), DiskOpts) = s2
  <2> DEFINE S == WrittenLines(M)
             a == LineOf(M, k)
             b == LineOf(M, d)
  <2>1. ASSUME NEW x \in BOOLEAN
        PROVE  LineOf(M, Slot(h, n, TRUE, x)) = <<>>
    <3>1. Slot(h, n, TRUE, x) \in EntryKey /\ Slot(h, n, TRUE, x).local = TRUE
      BY DEF Slot, EntryKey
    <3>2. ~Has(M, Slot(h, n, TRUE, x))
      BY <3>1 DEF Sound
    <3>3. QED
      BY <3>2 DEF LineOf
  <2>2. KeyLines(M, h, n) = <<>> \o <<>> \o a \o b
    <3>1. k = Slot(h, n, FALSE, FALSE)
      BY DEF At
    <3>2. QED
      BY <1>2, <2>1, <3>1 DEF KeyLines
  <2>3. a \in Seq(S) /\ b \in Seq(S)
    BY <1>1, <1>2, LineOfSeq
  <2> HIDE DEF a, b, S, d, k
  <2>4. <<>> \o <<>> \o a \o b = a \o b
    BY <2>3
  <2>5. EndOf(s, a \o b, DiskOpts) = EndOf(EndOf(s, a, DiskOpts), b, DiskOpts)
    BY <2>3, EndOfConcat
  <2>6. QED
    BY <2>2, <2>4, <2>5 DEF a, b
<1> HIDE DEF k, d
<1>4. /\ Sound(s.map) /\ InGroup(s.cursor, h) /\ KeysAreRead(s.map, done, M)
      /\ ~Has(s.map, k) /\ ~Refused(s.map, k)
  BY <1>1 DEF AtKey, KeysAreRead, Refused, k
<1>5. /\ Has(M, k) => \E o : SetsSlot(s.map, s1.map, At(h, n), M[k].value, o)
      /\ ~Has(M, k) => s1 = s
      /\ Sound(s1.map) /\ InGroup(s1.cursor, h)
  BY <1>1, <1>4, LineOfTurn
<1> HIDE DEF s1
<1>6. /\ Has(M, d) => \E o : SetsSlot(s1.map, s2.map, At(h, n), M[d].value, o)
      /\ ~Has(M, d) => s2 = s1
      /\ Sound(s2.map) /\ InGroup(s2.cursor, h)
  BY <1>2, <1>5, LineOfTurn
<1> HIDE DEF s2
<1>7. \A g \in Groups : ~GroupIsImmutable(s1.map, g)
  BY <1>4, <1>5 DEF SetsSlot, KeysAreRead
<1>8. \A g \in Groups : ~GroupIsImmutable(s2.map, g)
  BY <1>6, <1>7 DEF SetsSlot
<1>9. ASSUME NEW i \in Keys, i # k
      PROVE  s2.map[i] = s.map[i]
  <2>1. i \in EntryKey /\ i.name # Marker /\ i # At(h, n)
    BY <1>9 DEF Keys, k
  <2>2. s1.map[i] = s.map[i]
    BY <1>5, <2>1 DEF SetsSlot
  <2>3. s2.map[i] = s1.map[i]
    BY <1>6, <2>1 DEF SetsSlot
  <2>4. QED
    BY <2>2, <2>3
<1>10. KeyIsRead(s2.map, M, k)
  <2> SUFFICES ASSUME ~Has(M, d)
               PROVE  /\ Has(s1.map, k) <=> Has(M, k)
                      /\ Has(M, k) => s1.map[k].value = M[k].value
    BY <1>6 DEF KeyIsRead, d
  <2>1. CASE Has(M, k)
    BY <1>4, <1>5, <2>1 DEF SetsSlot, k
  <2>2. CASE ~Has(M, k)
    BY <1>4, <1>5, <2>2
  <2>3. QED
    BY <2>1, <2>2
<1>11. ASSUME NEW i \in Keys
       PROVE  IF i \in done \cup {k} THEN KeyIsRead(s2.map, M, i) ELSE ~Has(s2.map, i)
  <2>1. CASE i = k
    BY <1>10, <2>1
  <2>2. CASE i # k
    BY <1>4, <1>9, <2>2 DEF KeysAreRead, KeyIsRead, Has
  <2>3. QED
    BY <2>1, <2>2
<1>12. KeysAreRead(s2.map, done \cup {k}, M)
  BY <1>6, <1>8, <1>11 DEF KeysAreRead
<1>13. QED
  BY <1>3, <1>6, <1>12 DEF AtKey, k

\* The keys of a group.
KeysIn(h) == {k \in Keys : k.group = h}

\* The lines of a group fill the slots of its keys.
LEMMA KeysTurn ==
    ASSUME NEW M, Sound(M), NEW h \in Groups, NEW s, NEW done,
           AtKey(s, done, M, h), KeysIn(h) \cap done = {}
    PROVE  AtKey(EndOf(s, EntryLines(M, h), DiskOpts), done \cup KeysIn(h), M, h)
<1> DEFINE S == WrittenLines(M)
           n == Len(NameOrder)
           lines == [i \in DOMAIN NameOrder |-> KeyLines(M, h, NameOrder[i])]
           upTo(i) == {At(h, NameOrder[j]) : j \in 1 .. i}
<1>1. n \in Nat /\ \A i \in 1 .. n : NameOrder[i] \in Names
  BY Orders
<1>2. lines \in [1 .. n -> Seq(S)] /\ \A i \in 1 .. n : lines[i] = KeyLines(M, h, NameOrder[i])
  BY Orders, KeyLinesSeq
<1>3. EntryLines(M, h) = FlattenSeq(lines)
  BY DEF EntryLines
<1>4. \A i \in 1 .. n : /\ upTo(i) = upTo(i - 1) \cup {At(h, NameOrder[i])}
                        /\ At(h, NameOrder[i]) \notin done \cup upTo(i - 1)
  <2> SUFFICES ASSUME NEW i \in 1 .. n
               PROVE  /\ upTo(i) = upTo(i - 1) \cup {At(h, NameOrder[i])}
                      /\ At(h, NameOrder[i]) \notin done \cup upTo(i - 1)
    OBVIOUS
  <2>1. \A j \in 1 .. n : j \in 1 .. i <=> j \in 1 .. i - 1 \/ j = i
    BY <1>1
  <2>2. /\ \A j \in 1 .. i : j \in 1 .. n
        /\ \A j \in 1 .. i - 1 : j \in 1 .. n /\ j # i
    BY <1>1
  <2>3. \A j \in 1 .. i - 1 : NameOrder[j] # NameOrder[i]
    <3>1. Lists(NameOrder, Names) /\ DOMAIN NameOrder = 1 .. n
      BY IniAssumption, Orders
    <3>2. QED
      BY <2>2, <3>1, ListsOnce
  <2>4. \A j \in 1 .. i - 1 : At(h, NameOrder[j]) # At(h, NameOrder[i])
    <3>1. \A j \in 1 .. n : At(h, NameOrder[j]).name = NameOrder[j]
      BY <1>1, AtIsKey
    <3>2. QED
      BY <2>2, <2>3, <3>1
  <2>5. upTo(i) = upTo(i - 1) \cup {At(h, NameOrder[i])}
    BY <2>1, <2>2
  <2>6. At(h, NameOrder[i]) \in KeysIn(h)
    BY <1>1, AtIsKey DEF KeysIn
  <2>7. QED
    BY <2>4, <2>5, <2>6
<1>5. upTo(0) = {} /\ upTo(n) = KeysIn(h)
  <2>1. \A j : j \notin 1 .. 0
    OBVIOUS
  <2>2. upTo(0) = {}
    BY <2>1
  <2>3. \A x \in Names : \E j \in 1 .. n : NameOrder[j] = x
    BY IniAssumption, Orders DEF Lists
  <2>4. \A k \in KeysIn(h) : k.name \in Names /\ k = At(h, k.name)
    BY KeyIsAt DEF KeysIn
  <2>5. \A j \in 1 .. n : At(h, NameOrder[j]) \in KeysIn(h)
    BY <1>1, AtIsKey DEF KeysIn
  <2>6. \A k \in KeysIn(h) : k \in upTo(n)
    BY <2>3, <2>4
  <2>7. QED
    BY <2>2, <2>5, <2>6
<1> HIDE DEF lines, S, n, upTo
<1>6. PICK c : Passes(c, s, n, lines, DiskOpts)
  BY <1>1, <1>2, EndOfFlatten
<1> DEFINE T == {i \in 0 .. n : AtKey(c[i], done \cup upTo(i), M, h)}
<1>7. 0 \in T
  <2>1. done \cup upTo(0) = done /\ c[0] = s /\ 0 \in 0 .. n
    BY <1>1, <1>5, <1>6 DEF Passes
  <2>2. QED
    BY <2>1
<1>8. ASSUME NEW i \in 1 .. n, i - 1 \in T
      PROVE  i \in T
  <2> DEFINE d == done \cup upTo(i - 1)
             k == At(h, NameOrder[i])
  <2>1. AtKey(c[i - 1], d, M, h) /\ NameOrder[i] \in Names /\ k \notin d
    BY <1>1, <1>4, <1>8
  <2>2. d \cup {k} = done \cup upTo(i)
    BY <1>4
  <2>3. c[i] = EndOf(c[i - 1], KeyLines(M, h, NameOrder[i]), DiskOpts)
    BY <1>2, <1>6 DEF Passes
  <2> HIDE DEF d
  <2>4. AtKey(c[i], d \cup {k}, M, h)
    BY <2>1, <2>3, KeyLinesTurn
  <2>5. QED
    BY <1>1, <2>2, <2>4
<1>9. \A i \in 0 .. n : i \in T
  <2> HIDE DEF T
  <2>1. QED
    BY <1>1, <1>7, <1>8, CountUp
<1>10. AtKey(c[n], done \cup upTo(n), M, h)
  BY <1>1, <1>9
<1>11. QED
  BY <1>3, <1>5, <1>6, <1>10 DEF Passes

\* The turn of the loop for a header, whether it locks its group or not.
LEMMA HeadTurn ==
    ASSUME NEW M, NEW h \in Groups, NEW x \in Groups, NEW locks, NEW s, NEW done,
           AtKey(s, done, M, x)
    PROVE  AtKey(ParseLine(s, [kind |-> "group", group |-> h, immutable |-> locks], DiskOpts),
                 done, M, h)
<1> DEFINE line == [kind |-> "group", group |-> h, immutable |-> locks]
           c == s.cursor
           t == ParseLine(s, line, DiskOpts)
<1>1. t.map = LineMap(s.map, c, line, DiskOpts) /\ t.cursor = LineCursor(s.map, c, line, DiskOpts)
  BY ParseLineGives
<1>2. line.kind = "group" /\ line.group = h
  OBVIOUS
<1>3. InGroup(c, x) /\ ~GroupIsImmutable(s.map, h)
  BY DEF AtKey, KeysAreRead
<1> HIDE DEF line, t, c
<1>4. Reading(c)
  BY <1>3, IniAssumption DEF Reading, InGroup
<1>5. t.map = s.map
  BY <1>1, <1>2 DEF LineMap
<1>6. t.cursor = HeaderCursor(s.map, c, line, DiskOpts)
  BY <1>1, <1>2, <1>4 DEF LineCursor
<1>7. /\ DOMAIN t.cursor = DOMAIN StartOfFile /\ t.cursor.group = h /\ t.cursor.errors = 0
      /\ t.cursor.skip = GroupIsImmutable(s.map, h)
  BY <1>2, <1>3, <1>6 DEF HeaderCursor, InGroup, StartOfFile
<1>8. InGroup(t.cursor, h)
  BY <1>3, <1>7 DEF InGroup
<1>9. QED
  BY <1>5, <1>8 DEF AtKey, t, line

\* The parser is somewhere in the file, and has read the keys of done.
Somewhere(s, done, M) == \E x \in Groups : AtKey(s, done, M, x)

\* What is written for a group is read.
LEMMA GroupIsRead ==
    ASSUME NEW M, Sound(M), \A k \in EntriesOf(NoGroup) : ~Has(M, k),
           NEW i \in 1 .. Len(GroupOrder), NEW s, NEW done,
           Somewhere(s, done, M), KeysIn(GroupOrder[i]) \cap done = {}
    PROVE  Somewhere(EndOf(s, GroupLines(M, i), DiskOpts), done \cup KeysIn(GroupOrder[i]), M)
<1> DEFINE h == GroupOrder[i]
           S == WrittenLines(M)
           head == [kind |-> "group", group |-> h, immutable |-> HeaderLock(M, i)]
           body == EntryLines(M, h)
<1>1. h \in Groups /\ body \in Seq(S)
  BY Orders, EntryLinesSeq
<1>2. PICK x \in Groups : AtKey(s, done, M, x)
  BY DEF Somewhere
<1>3. ASSUME body = <<>>
      PROVE  KeysAreRead(s.map, done \cup KeysIn(h), M)
  <2> DEFINE t == ParseLine(s, head, DiskOpts)
             t2 == EndOf(t, body, DiskOpts)
  <2>1. AtKey(t, done, M, h)
    BY <1>1, <1>2, HeadTurn
  <2>2. t.map = s.map
    <3>1. t.map = LineMap(s.map, s.cursor, head, DiskOpts)
      BY ParseLineGives DEF t
    <3>2. head.kind = "group"
      OBVIOUS
    <3> HIDE DEF head
    <3>3. QED
      BY <3>1, <3>2 DEF LineMap
  <2> HIDE DEF t
  <2>3. AtKey(t2, done \cup KeysIn(h), M, h)
    BY <1>1, <2>1, KeysTurn
  <2>4. t2 = t
    BY <1>3, EndOfShort
  <2>5. QED
    BY <2>2, <2>3, <2>4 DEF AtKey
<1>4. CASE body = <<>> \/ h = NoGroup
  <2>1. body = <<>>
    <3>1. h = NoGroup => body = <<>>
      BY NoGroupLines
    <3>2. QED
      BY <1>4, <3>1
  <2>2. GroupLines(M, i) = <<>>
    BY <2>1 DEF GroupLines
  <2>3. EndOf(s, GroupLines(M, i), DiskOpts) = s
    BY <2>2, EndOfShort
  <2>4. AtKey(s, done \cup KeysIn(h), M, x)
    BY <1>2, <1>3, <2>1 DEF AtKey
  <2>5. QED
    BY <2>3, <2>4 DEF Somewhere
<1>5. CASE ~(body = <<>> \/ h = NoGroup)
  <2>1. GroupLines(M, i) = <<head>> \o body
    BY <1>5 DEF GroupLines
  <2> DEFINE t == ParseLine(s, head, DiskOpts)
             t2 == EndOf(t, body, DiskOpts)
  <2>2. AtKey(t, done, M, h)
    BY <1>1, <1>2, HeadTurn
  <2>3. head \in S
    BY Orders DEF WrittenLines
  <2>4. EndOf(s, <<head>>, DiskOpts) = t
    <3> HIDE DEF head
    <3>1. QED
      BY EndOfShort
  <2> HIDE DEF t, head, S
  <2>5. AtKey(t2, done \cup KeysIn(h), M, h)
    BY <1>1, <2>2, KeysTurn
  <2> HIDE DEF body
  <2>6. EndOf(s, <<head>> \o body, DiskOpts) = EndOf(EndOf(s, <<head>>, DiskOpts), body, DiskOpts)
    <3> DEFINE one == <<head>>
    <3>1. one \in Seq(S) /\ body \in Seq(S)
      BY <1>1, <2>3
    <3> HIDE DEF one, h
    <3>2. EndOf(s, one \o body, DiskOpts) = EndOf(EndOf(s, one, DiskOpts), body, DiskOpts)
      BY <3>1, EndOfConcat
    <3>3. QED
      BY <3>2 DEF one
  <2>7. QED
    BY <1>1, <2>1, <2>4, <2>5, <2>6 DEF Somewhere
<1>6. QED
  BY <1>4, <1>5

\* What sync() writes of a map that has nothing in the empty group can be read to its end, and
\* has the keys without a default that the map has.
LEMMA WrittenIsRead ==
    ASSUME NEW M, Sound(M), \A k \in EntriesOf(NoGroup) : ~Has(M, k)
    PROVE  /\ ReadsThrough(WriteEntries(M))
           /\ \A k \in Keys : KeyIsRead(DiskOf(WriteEntries(M)), M, k)
<1> DEFINE S == WrittenLines(M)
           n == Len(GroupOrder)
           groups == [i \in DOMAIN GroupOrder |-> GroupLines(M, i)]
           top == EntryLines(M, DefaultGroup)
           s0 == AtStart(EmptyMap)
           s1 == EndOf(s0, top, DiskOpts)
           s2 == EndOf(s1, FlattenSeq(groups), DiskOpts)
           done(i) == {k \in Keys : \/ k.group = DefaultGroup
                                    \/ \E j \in 1 .. i : k.group = GroupOrder[j]}
<1>1. /\ n \in Nat /\ \A i \in 1 .. n : GroupOrder[i] \in Groups \ {DefaultGroup}
      /\ DefaultGroup \in Groups
  BY Orders, IniAssumption
<1>2. /\ groups \in [1 .. n -> Seq(S)] /\ \A i \in 1 .. n : groups[i] = GroupLines(M, i)
      /\ top \in Seq(S)
  BY <1>1, Orders, GroupLinesSeq, EntryLinesSeq
<1>3. AtKey(s0, {}, M, DefaultGroup)
  <2>1. s0.map = EmptyMap /\ s0.cursor = StartOfFile
    BY DEF AtStart
  <2>2. InGroup(StartOfFile, DefaultGroup)
    BY DEF InGroup, StartOfFile
  <2>3. \A k \in EntryKey : ~Has(EmptyMap, k)
    BY DEF Has, EmptyMap
  <2>4. \A h \in Groups : ~GroupIsImmutable(EmptyMap, h)
    BY <2>3, MarkerIsSlot DEF GroupIsImmutable, IsImmutable
  <2>5. \A k \in Keys : k \in EntryKey
    BY DEF Keys
  <2>6. KeysAreRead(EmptyMap, {}, M)
    BY <2>3, <2>4, <2>5, SoundEmpty DEF KeysAreRead
  <2>7. QED
    BY <2>1, <2>2, <2>6 DEF AtKey
<1> HIDE DEF s0
<1>4. Somewhere(s1, done(0), M)
  <2>1. AtKey(s1, {} \cup KeysIn(DefaultGroup), M, DefaultGroup)
    BY <1>1, <1>3, KeysTurn
  <2>2. {} \cup KeysIn(DefaultGroup) = done(0)
    <3>1. \A j : j \notin 1 .. 0
      OBVIOUS
    <3>2. QED
      BY <3>1 DEF KeysIn
  <2> HIDE DEF s1, done
  <2>3. QED
    BY <1>1, <2>1, <2>2 DEF Somewhere
<1> HIDE DEF s1
<1>5. WriteEntries(M) = top \o FlattenSeq(groups)
  BY DEF WriteEntries
<1>6. \A i \in 1 .. n : /\ done(i) = done(i - 1) \cup KeysIn(GroupOrder[i])
                        /\ KeysIn(GroupOrder[i]) \cap done(i - 1) = {}
  <2> SUFFICES ASSUME NEW i \in 1 .. n
               PROVE  /\ done(i) = done(i - 1) \cup KeysIn(GroupOrder[i])
                      /\ KeysIn(GroupOrder[i]) \cap done(i - 1) = {}
    OBVIOUS
  <2>1. \A j \in 1 .. n : j \in 1 .. i <=> j \in 1 .. i - 1 \/ j = i
    BY <1>1
  <2>2. /\ \A j \in 1 .. i : j \in 1 .. n
        /\ \A j \in 1 .. i - 1 : j \in 1 .. n /\ j # i
    BY <1>1
  <2>3. \A j \in 1 .. i - 1 : GroupOrder[j] # GroupOrder[i]
    <3>1. Lists(GroupOrder, Groups \ {DefaultGroup}) /\ DOMAIN GroupOrder = 1 .. n
      BY IniAssumption, Orders
    <3>2. QED
      BY <2>2, <3>1, ListsOnce
  <2>4. done(i) = done(i - 1) \cup KeysIn(GroupOrder[i])
    BY <2>1, <2>2 DEF KeysIn
  <2>5. KeysIn(GroupOrder[i]) \cap done(i - 1) = {}
    BY <1>1, <2>3 DEF KeysIn
  <2>6. QED
    BY <2>4, <2>5
<1>7. done(n) = Keys
  <2>1. \A h \in Groups : h = DefaultGroup \/ \E j \in 1 .. n : GroupOrder[j] = h
    BY IniAssumption, Orders DEF Lists
  <2>2. \A k \in Keys : k.group \in Groups
    BY KeyIsAt
  <2>3. QED
    BY <1>1, <2>1, <2>2
<1> HIDE DEF groups, S, n, done
<1>8. PICK c : Passes(c, s1, n, groups, DiskOpts)
  BY <1>1, <1>2, EndOfFlatten
<1> DEFINE T == {i \in 0 .. n : Somewhere(c[i], done(i), M)}
<1>9. 0 \in T
  <2>1. c[0] = s1 /\ 0 \in 0 .. n
    BY <1>1, <1>8 DEF Passes
  <2>2. QED
    BY <1>4, <2>1
<1>10. ASSUME NEW i \in 1 .. n, i - 1 \in T
       PROVE  i \in T
  <2> DEFINE d == done(i - 1)
  <2>1. /\ Somewhere(c[i - 1], d, M) /\ KeysIn(GroupOrder[i]) \cap d = {}
        /\ i \in 1 .. Len(GroupOrder)
    BY <1>6, <1>10 DEF n
  <2>2. d \cup KeysIn(GroupOrder[i]) = done(i)
    BY <1>6
  <2>3. c[i] = EndOf(c[i - 1], GroupLines(M, i), DiskOpts)
    BY <1>2, <1>8 DEF Passes
  <2> HIDE DEF d
  <2>4. Somewhere(c[i], d \cup KeysIn(GroupOrder[i]), M)
    BY <2>1, <2>3, GroupIsRead
  <2>5. QED
    BY <1>1, <2>2, <2>4
<1>11. \A i \in 0 .. n : i \in T
  <2> HIDE DEF T
  <2>1. QED
    BY <1>1, <1>9, <1>10, CountUp
<1>12. Somewhere(s2, Keys, M)
  <2>1. c[n] = s2 /\ n \in 0 .. n
    BY <1>1, <1>8 DEF Passes
  <2>2. QED
    BY <1>7, <1>11, <2>1
<1>13. EndOf(s0, WriteEntries(M), DiskOpts) = s2
  <2> DEFINE rest == FlattenSeq(groups)
  <2>1. rest \in Seq(S)
    BY <1>1, <1>2, FlattenIsSeq
  <2> HIDE DEF rest, top
  <2>2. EndOf(s0, top \o rest, DiskOpts) = EndOf(EndOf(s0, top, DiskOpts), rest, DiskOpts)
    BY <1>2, <2>1, EndOfConcat
  <2>3. QED
    BY <1>5, <2>2 DEF rest, s1
<1>14. DiskOf(WriteEntries(M)) = LockGroups(s2.map, s2.cursor)
  <2>1. ParseConfig(EmptyMap, WriteEntries(M), DiskOpts) = AtEnd(s2)
    BY <1>13 DEF ParseConfig, EndOf, s0
  <2> HIDE DEF s2
  <2>2. QED
    BY <2>1 DEF AtEnd, DiskOf
<1> HIDE DEF s2
<1>15. PICK x \in Groups : KeysAreRead(s2.map, Keys, M) /\ InGroup(s2.cursor, x)
  BY <1>12 DEF Somewhere, AtKey
<1>16. ReadsThrough(WriteEntries(M))
  BY <1>13, <1>15, IniAssumption DEF ReadsThrough, Reading, InGroup, s0
<1>17. ASSUME NEW k \in Keys
       PROVE  KeyIsRead(DiskOf(WriteEntries(M)), M, k)
  <2>1. Sound(s2.map) /\ KeyIsRead(s2.map, M, k) /\ k \in EntryKey /\ k.name # Marker
    BY <1>15 DEF KeysAreRead, Keys
  <2>2. LockGroups(s2.map, s2.cursor)[k] = s2.map[k]
    BY <2>1, LockGroupsSound
  <2>3. QED
    BY <1>14, <2>1, <2>2 DEF KeyIsRead, Has
<1>18. QED
  BY <1>16, <1>17

-----------------------------------------------------------------------------
(* What the system's file leaves *)

\* An entry of the system is a default, too.
DefaultsFirst(m) == \A k \in Keys : Has(m, k) => Has(m, DefaultOf(k))

\* setEntry() with EntryDefault hands on what the default has taken.
LEMMA SetDefaultFirst ==
    ASSUME NEW m, Sound(m), DefaultsFirst(m), NEW g \in Groups, NEW n \in Names,
           NEW v \in Values \cup {NoValue}, NEW o, {"Global", "Localized"} \cap o = {},
           "Default" \in o
    PROVE  DefaultsFirst(SetEntry(m, g, n, v, o))
<1> DEFINE k == Slot(g, n, FALSE, TRUE)
           j == At(g, n)
           out == Outcome(m, k, v, o)
           m1 == Assign(m, k, v, o)
           e == Stored(m, k, v, o)
           o2 == o \ {"Default"}
           out2 == Outcome(m1, j, v, o2)
           m2 == Assign(m1, j, v, o2)
           e2 == Stored(m1, j, v, o2)
<1>1. /\ k \in EntryKey /\ k.local = FALSE /\ k.name # Marker /\ k.default = TRUE
      /\ j \in EntryKey /\ j.local = FALSE /\ j.name # Marker /\ j \in Keys
      /\ k = DefaultOf(j)
  BY SentinelAssumption DEF EntryKey, Slot, At, DefaultOf, Keys
<1>2. SetEntry(m, g, n, v, o) = IF out \in {"inserted", "changed"}
                                THEN DropLocalized(DropLocalized(m2, j, out2), k, out)
                                ELSE DropLocalized(m1, k, out)
  <2>1. k = Slot(g, n, "Localized" \in o, "Default" \in o)
    <3>1. ("Localized" \in o) = FALSE /\ ("Default" \in o) = TRUE
      OBVIOUS
    <3>2. QED
      BY <3>1, Zenon
  <2>2. j = Slot(g, n, k.local, FALSE)
    BY <1>1 DEF At
  <2>3. QED
    BY <1>1, <2>1, <2>2 DEF SetEntry, SetPlain
<1>3. Sound(m1)
  <2> HIDE DEF k
  <2> QED
    BY <1>1, SoundAssign
<1>4. Assigned(m, m1, k, e, out)
  <2>1. m = [i \in EntryKey |-> m[i]]
    BY DEF Sound
  <2> HIDE DEF k
  <2>2. QED
    BY <1>1, <2>1, AssignGives
<1>5. e # NoEntry
  <2>1. SoundEntry(Found(m, k))
    BY <1>1, SoundFresh DEF Found, Sound
  <2>2. SoundEntry(e)
    BY <2>1, SoundStored DEF Stored
  <2> HIDE DEF e
  <2>3. QED
    BY <2>2, SentinelAssumption DEF SoundEntry
<1> HIDE DEF k, j, out, m1, e, out2
<1>6. Sound(m2)
  BY <1>1, <1>3, SoundAssign
<1>7. Assigned(m1, m2, j, e2, out2)
  <2>1. m1 = [i \in EntryKey |-> m1[i]]
    BY <1>3 DEF Sound
  <2>2. QED
    BY <1>1, <2>1, AssignGives DEF out2
<1> HIDE DEF m2, e2
<1>8. /\ DropLocalized(m1, k, out) = m1
      /\ DropLocalized(m2, j, out2) = m2
      /\ DropLocalized(m2, k, out) = m2
  BY <1>1, <1>3, <1>6, DropNone
<1>9. \A i \in EntryKey : i.name # Marker => /\ i # k => m1[i] = m[i]
                                             /\ i # j => m2[i] = m1[i]
  BY <1>4, <1>7 DEF Assigned, SetOnly, MarkerOf, Slot
<1>10. /\ Has(m, k) => Has(m1, k)
       /\ out \in {"inserted", "changed"} => Has(m1, k)
  BY <1>4, <1>5 DEF Assigned, Has
<1>11. \A i \in Keys : /\ i \in EntryKey /\ i.name # Marker /\ i # k
                       /\ DefaultOf(i) \in EntryKey /\ DefaultOf(i).name # Marker
                       /\ DefaultOf(i) # j
  BY <1>1, DefaultIsSlot DEF Keys
<1>12. DefaultsFirst(m1)
  BY <1>9, <1>10, <1>11 DEF DefaultsFirst, Has
<1>13. out \in {"inserted", "changed"} => DefaultsFirst(m2)
  BY <1>1, <1>9, <1>10, <1>11, <1>12 DEF DefaultsFirst, Has
<1>14. QED
  BY <1>2, <1>8, <1>12, <1>13

\* How an object parses the system's file.
SystemOpts == [default |-> TRUE, global |-> FALSE, merging |-> FALSE]

\* No entry of a map is dirty.
Undirtied(m) == \A k \in EntryKey : Has(m, k) => ~m[k].dirty

\* The parser makes no entry dirty.
LEMMA ParseUndirtied ==
    ASSUME NEW m, Sound(m), Undirtied(m), NEW f, PlainFile(f), NEW opts
    PROVE  Undirtied(ParseConfig(m, f, opts).map)
<1>1. IsFile(f)
  BY DEF IsFile, IsLine, PlainFile, PlainLine
<1>2. OnlyDirty(m, {})
  BY DEF OnlyDirty, Sound, SoundEntry, IsKEntry, Undirtied
<1> DEFINE m2 == ParseConfig(m, f, opts).map
           nowhere == {}
<1>3. OnlyDirty(m2, nowhere)
  <2> HIDE DEF nowhere
  <2> QED
    BY <1>1, <1>2, ParseDirty DEF nowhere
<1> HIDE DEF m2
<1>4. Undirtied(m2)
  BY <1>3 DEF OnlyDirty, Undirtied
<1>5. QED
  BY <1>4 DEF m2

\* What there is of an object when it has read the system's file.
LEMMA SystemGives ==
    ASSUME NEW f, PlainFile(f)
    PROVE  /\ Sound(ParseConfig(EmptyMap, f, SystemOpts).map)
           /\ Undirtied(ParseConfig(EmptyMap, f, SystemOpts).map)
           /\ DefaultsFirst(ParseConfig(EmptyMap, f, SystemOpts).map)
<1> DEFINE s == AtStart(EmptyMap)
           p == Parses(s, f, SystemOpts)
           n == Len(f)
           T == {i \in 0 .. n : DefaultsFirst(p[i].map)}
           z == p[n]
<1>1. n \in Nat /\ \A i \in 1 .. n : PlainLine(f[i])
  BY DEF PlainFile
<1>2. p[0] = s /\ \A i \in 1 .. n : p[i] = ParseLine(p[i - 1], f[i], SystemOpts)
  BY <1>1, ParsesStep
<1>3. PlainOpts(SystemOpts) /\ SystemOpts.default
  BY DEF PlainOpts, SystemOpts
<1>4. ParsesSound(s) /\ s.map = EmptyMap
  BY SoundEmpty, IniAssumption DEF AtStart, ParsesSound, StartOfFile
<1>5. \A k \in EntryKey : ~Has(EmptyMap, k)
  BY DEF Has, EmptyMap
<1>6. \A i \in 0 .. n : ParsesSound(p[i])
  <2> HIDE DEF s
  <2> QED
    BY <1>3, <1>4, LinesSound
<1>7. ParseConfig(EmptyMap, f, SystemOpts).map = LockGroups(z.map, z.cursor)
  BY DEF ParseConfig, AtEnd
<1> HIDE DEF p, s, n
<1>8. 0 \in T
  BY <1>1, <1>2, <1>4, <1>5 DEF DefaultsFirst, Keys
<1>9. ASSUME NEW i \in 1 .. n, i - 1 \in T
      PROVE  i \in T
  <2> DEFINE a == p[i - 1]
             c == a.cursor
             line == f[i]
             v == TextOf(line)
             o == OptionsOf(c, line, SystemOpts)
  <2>1. PlainLine(line) /\ DefaultsFirst(a.map) /\ ParsesSound(a)
    BY <1>1, <1>6, <1>9
  <2>2. p[i].map = LineMap(a.map, c, line, SystemOpts)
    BY <1>2, ParseLineGives
  <2> HIDE DEF line, a
  <2>3. /\ IsTurn(c, line, SystemOpts) => p[i].map = SetEntry(a.map, c.group, line.name, v, o)
        /\ ~IsTurn(c, line, SystemOpts) => p[i].map = a.map
    BY <1>3, <2>1, <2>2, PlainLineMap
  <2>4. {"Global", "Localized"} \cap o = {} /\ "Default" \in o
    BY <1>3, OptionsOfGives
  <2>5. IsTurn(c, line, SystemOpts) => line.name \in Names /\ v \in Values \cup {NoValue}
    BY <2>1 DEF IsTurn, PlainLine, TextOf
  <2> HIDE DEF o, v
  <2>6. DefaultsFirst(p[i].map)
    BY <2>1, <2>3, <2>4, <2>5, SetDefaultFirst DEF ParsesSound
  <2>7. QED
    BY <1>1, <2>6
<1>10. n \in T
  <2>1. \A i \in 0 .. n : i \in T
    <3> HIDE DEF T
    <3> QED
      BY <1>1, <1>8, <1>9, CountUp
  <2>2. n \in 0 .. n
    BY <1>1
  <2> HIDE DEF T
  <2>3. QED
    BY <2>1, <2>2, Zenon
<1>11. DefaultsFirst(z.map) /\ Sound(z.map)
  BY <1>1, <1>6, <1>10 DEF ParsesSound
<1> DEFINE m == LockGroups(z.map, z.cursor)
<1> HIDE DEF z
<1>12. \A k \in EntryKey : k.name # Marker => m[k] = z.map[k]
  BY <1>11, LockGroupsSound
<1> HIDE DEF m
<1>13. DefaultsFirst(m)
  BY <1>11, <1>12, DefaultIsSlot DEF DefaultsFirst, Has, Keys
<1>14. Undirtied(EmptyMap)
  BY <1>5 DEF Undirtied
<1>15. QED
  BY <1>3, <1>7, <1>13, <1>14, SoundEmpty, SoundParse, ParseUndirtied DEF m

-----------------------------------------------------------------------------
(* What is in memory and what is in the files *)

\* The value of a key, if there is an entry.
ValueOf(m, k) == IF Has(m, k) THEN m[k].value ELSE NoValue

\* A map has nothing in the empty group, which gets no header.
NothingLoose(m) == \A k \in EntriesOf(NoGroup) : ~Has(m, k)

\* A file is read to its end, and has nothing in the empty group.
Legible(f) == ReadsThrough(f) /\ NothingLoose(DiskOf(f))

\* What keeps a key from being read as it was written.
Barred(S, m, k) == Has(m, DefaultOf(k)) \/ Has(S, DefaultOf(k)) \/ GroupIsImmutable(S, k.group)

\* A key of map m and what there is of it when the files are read: S are the system's defaults,
\* R what the object would have, H the groups that got the entries of another.
KeyStored(S, m, R, H, k) ==
    /\ k.group \notin H => /\ m[DefaultOf(k)] = S[DefaultOf(k)]
                           /\ Refused(S, k) => m[k] = S[k] /\ Refused(m, k)
    /\ Has(m, k) /\ ~m[k].dirty /\ (k.group \in H => ~Barred(S, m, k)) =>
           ValueOf(R, k) = m[k].value

MapStored(S, m, R, H) ==
    /\ Sound(m) /\ NothingLoose(m)
    /\ \A k \in Keys : KeyStored(S, m, R, H, k)

\* A call or a write makes m2 of m: what it changes is dirty, or gone, and it replaces locks and
\* defaults in the groups of G only.
KeyChanges(m, m2, G, k) ==
    /\ m2[k] = m[k] \/ ~Has(m2, k) \/ m2[k].dirty
    /\ k.group \notin G => /\ m2[DefaultOf(k)] = m[DefaultOf(k)]
                           /\ Refused(m, k) => m2[k] = m[k] /\ Refused(m2, k)
    /\ m2[k] = m[k] /\ Has(m2, k) /\ ~m2[k].dirty /\ Has(m, DefaultOf(k)) => Has(m2, DefaultOf(k))

Changes(m, m2, G) ==
    /\ Sound(m2) /\ NothingLoose(m2)
    /\ \A k \in Keys : KeyChanges(m, m2, G, k)

\* What is not dirty is stored.
LEMMA StillStored ==
    ASSUME NEW S, NEW R, NEW H, NEW G, NEW H2, H \subseteq H2, G \subseteq H2,
           NEW m, MapStored(S, m, R, H), NEW m2, Changes(m, m2, G)
    PROVE  MapStored(S, m2, R, H2)
<1>1. ASSUME NEW k \in Keys
      PROVE  KeyStored(S, m2, R, H2, k)
  <2>1. KeyStored(S, m, R, H, k) /\ KeyChanges(m, m2, G, k)
    BY DEF MapStored, Changes
  <2>2. (k.group \in H => k.group \in H2) /\ (k.group \in G => k.group \in H2)
    OBVIOUS
  <2>3. k.group \notin H2 => /\ m2[DefaultOf(k)] = S[DefaultOf(k)]
                             /\ Refused(S, k) => m2[k] = S[k] /\ Refused(m2, k)
    BY <2>1, <2>2 DEF KeyStored, KeyChanges
  <2>4. ASSUME Has(m2, k), ~m2[k].dirty, k.group \in H2 => ~Barred(S, m2, k)
        PROVE  ValueOf(R, k) = m2[k].value
    <3>1. m2[k] = m[k]
      BY <2>1, <2>4 DEF KeyChanges
    <3>2. Has(m, k) /\ ~m[k].dirty
      BY <3>1, <2>4 DEF Has
    <3>3. k.group \in H2 => ~Barred(S, m, k)
      BY <2>1, <2>4, <3>1 DEF KeyChanges, Barred
    <3>4. QED
      BY <2>1, <2>2, <3>1, <3>2, <3>3 DEF KeyStored
  <2>5. QED
    BY <2>3, <2>4 DEF KeyStored
<1>2. QED
  BY <1>1 DEF MapStored, Changes

-----------------------------------------------------------------------------
(* The invariant *)

\* Calls are made with Persistent.
Persistent == \A o \in CallOptions : "Dirty" \in o

\* The files of an object can be read to their end and have nothing in the empty group, and the
\* system's file locks the keys of the groups that it locks.
Orderly(o) ==
    /\ NothingLoose(SystemMap(o)) /\ LocksWhole(SystemMap(o))
    /\ \A f \in OwnFiles[o] : Legible(f)

\* The setups in which what arrives is stored.
Stores == Unlocalized /\ Persistent /\ \A o \in Objects : Orderly(o)

\* The groups of an object that got the entries of another.
MixedOf(o) == {g \in Groups : <<o, g>> \in mixed}

StaysInv ==
    /\ bDirty \in [Objects -> BOOLEAN]
    /\ \A o \in Objects : /\ bDirty[o] \/ Undirtied(entryMap[o])
                          /\ Legible(file[o])
                          /\ MapStored(SystemMap(o), entryMap[o], Reread(o, file[o]), MixedOf(o))

\* What is known of an orderly object's defaults.
Defaulting(S) == /\ Sound(S) /\ Undirtied(S) /\ DefaultsFirst(S) /\ NothingLoose(S) /\ LocksWhole(S)

LEMMA SystemIs ==
    ASSUME Stores, NEW o \in Objects
    PROVE  /\ Defaulting(SystemMap(o))
           /\ \A f : Reread(o, f) = ReadOver(SystemMap(o), f)
           /\ \A f \in OwnFiles[o] : PlainFile(f) /\ Legible(f)
<1>1. PlainFile(SystemFile[o]) /\ \A f \in OwnFiles[o] : PlainFile(f)
  BY FilesArePlain DEF Stores
<1>2. SystemMap(o) = ParseConfig(EmptyMap, SystemFile[o], SystemOpts).map
  BY DEF SystemMap, SystemOpts
<1>3. Sound(SystemMap(o)) /\ Undirtied(SystemMap(o)) /\ DefaultsFirst(SystemMap(o))
  BY <1>1, <1>2, SystemGives
<1>4. \A f : Reread(o, f) = ReadOver(SystemMap(o), f)
  BY DEF Reread, ReadOver, OwnOpts
<1>5. QED
  BY <1>1, <1>3, <1>4 DEF Stores, Orderly, Defaulting

\* An object that has been opened shows what is stored.
LEMMA OpenedStored ==
    ASSUME NEW S, Defaulting(S), NEW f, PlainFile(f), Legible(f)
    PROVE  /\ MapStored(S, ReadOver(S, f), ReadOver(S, f), {})
           /\ Undirtied(ReadOver(S, f))
<1> DEFINE P == DiskOf(f)
           R == ReadOver(S, f)
<1>1. RereadIs(S, P, R)
  BY RereadGives DEF Defaulting, Legible
<1>2. NothingLoose(P)
  BY DEF Legible
<1>3. Undirtied(R)
  BY ParseUndirtied DEF ReadOver, Defaulting
<1> HIDE DEF P, R
<1>4. NothingLoose(R)
  <2> SUFFICES ASSUME NEW k \in EntriesOf(NoGroup), Has(R, k)
               PROVE  FALSE
    BY DEF NothingLoose
  <2>1. k \in EntryKey /\ k.group = NoGroup /\ k.name # Marker /\ k.local = FALSE
    BY <1>1 DEF EntriesOf, RereadIs, Sound
  <2>2. ~Has(P, k) /\ ~Has(S, k)
    BY <1>2 DEF NothingLoose, Defaulting
  <2>3. CASE k.default = FALSE
    <3>1. k \in Keys
      BY <2>1, <2>3 DEF Keys
    <3>2. QED
      BY <3>1, <2>2, <1>1 DEF RereadIs, KeyFollows, Has
  <2>4. CASE k.default # FALSE
    <3>1. k = DefaultOf(At(k.group, k.name)) /\ At(k.group, k.name) \in Keys
      <4>1. k.default = TRUE /\ k.group \in Groups /\ k.name \in Names
        BY <2>1, <2>4 DEF EntryKey
      <4>2. k = Slot(k.group, k.name, FALSE, TRUE)
        BY <2>1, <4>1 DEF EntryKey, Slot
      <4>3. QED
        BY <4>1, <4>2, AtIsKey DEF DefaultOf
    <3>2. QED
      BY <3>1, <2>2, <1>1 DEF RereadIs, Has
  <2>5. QED
    BY <2>3, <2>4
<1>5. ASSUME NEW k \in Keys
      PROVE  KeyStored(S, R, R, {}, k)
  <2>1. KeyFollows(S, P, R, k) /\ R[DefaultOf(k)] = S[DefaultOf(k)]
    BY <1>1 DEF RereadIs
  <2>2. Refused(S, k) => Refused(R, k)
    <3>1. k.group \in Groups
      BY KeyIsAt
    <3>2. GroupIsImmutable(S, k.group) => GroupIsImmutable(R, k.group)
      BY <1>1, <3>1 DEF RereadIs
    <3>3. QED
      BY <2>1, <3>2 DEF KeyFollows, Refused, Has
  <2>3. QED
    BY <2>1, <2>2 DEF KeyStored, KeyFollows, ValueOf
<1>6. QED
  BY <1>1, <1>3, <1>4, <1>5 DEF MapStored, RereadIs, R

LEMMA StaysInit ==
    ASSUME Stores, Init
    PROVE  StaysInv
<1>1. file = [o \in Objects |-> file[o]] /\ \A o \in Objects : file[o] \in OwnFiles[o]
  BY DEF Init
<1>2. /\ entryMap = [o \in Objects |-> Reread(o, file[o])]
      /\ bDirty = [o \in Objects |-> FALSE]
      /\ mixed = {}
  BY DEF Init
<1>3. ASSUME NEW o \in Objects
      PROVE  /\ Legible(file[o]) /\ Undirtied(entryMap[o])
             /\ MapStored(SystemMap(o), entryMap[o], Reread(o, file[o]), MixedOf(o))
  <2> DEFINE S == SystemMap(o)
             f == file[o]
  <2>1. Defaulting(S) /\ PlainFile(f) /\ Legible(f) /\ Reread(o, f) = ReadOver(S, f)
    BY <1>1, SystemIs
  <2>2. MixedOf(o) = {}
    BY <1>2 DEF MixedOf
  <2>3. entryMap[o] = Reread(o, f)
    BY <1>2
  <2> HIDE DEF S, f
  <2>4. MapStored(S, ReadOver(S, f), ReadOver(S, f), {}) /\ Undirtied(ReadOver(S, f))
    BY <2>1, OpenedStored
  <2>5. QED
    BY <2>1, <2>2, <2>3, <2>4 DEF S, f
<1>4. QED
  BY <1>2, <1>3 DEF StaysInv

-----------------------------------------------------------------------------
(* What sync() leaves in memory and in the file *)

\* What is written over a file is legible.
LEMMA WrittenLegible ==
    ASSUME NEW m, Sound(m), NothingLoose(m), NEW P, Sound(P), NothingLoose(P)
    PROVE  LET M == Merge(m, P, FALSE)
           IN  /\ PlainFile(WriteEntries(M)) /\ ReadsThrough(WriteEntries(M))
               /\ \A k \in Keys : KeyIsRead(DiskOf(WriteEntries(M)), M, k)
               /\ NothingLoose(M)
<1> DEFINE M == Merge(m, P, FALSE)
<1>1. Sound(M) /\ \A k \in EntryKey : Has(M, k) => Has(m, k) \/ Has(P, k)
  <2>1. /\ Sound(M)
        /\ \A k \in EntryKey : M[k] = IF ~Writes(m, k) THEN P[k]
                                      ELSE IF Removes(m, k) THEN NoEntry ELSE m[k]
    BY SoundMerge
  <2> HIDE DEF M
  <2>2. QED
    BY <2>1 DEF Has
<1> HIDE DEF M
<1>2. \A k \in EntriesOf(NoGroup) : ~Has(M, k)
  BY <1>1 DEF NothingLoose, EntriesOf
<1>3. PlainFile(WriteEntries(M))
  BY <1>1, WrittenIsPlain
<1>4. /\ ReadsThrough(WriteEntries(M))
      /\ \A k \in Keys : KeyIsRead(DiskOf(WriteEntries(M)), M, k)
  BY <1>1, <1>2, WrittenIsRead
<1>5. QED
  BY <1>2, <1>3, <1>4 DEF NothingLoose, M

\* A slot of a map without localized entries is a marker, a key's or a key's default.
LEMMA SlotKinds ==
    ASSUME NEW m, Sound(m), NEW k \in EntryKey, Has(m, k), k.name # Marker
    PROVE  k \in Keys \/ \E j \in Keys : k = DefaultOf(j) /\ j.group = k.group
<1>1. k.local = FALSE /\ k.group \in Groups /\ k.name \in Names
  BY DEF Sound, EntryKey
<1>2. CASE k.default = FALSE
  BY <1>1, <1>2 DEF Keys
<1>3. CASE k.default # FALSE
  <2>1. At(k.group, k.name) \in Keys /\ At(k.group, k.name).group = k.group
        /\ At(k.group, k.name).name = k.name
    BY <1>1, AtIsKey
  <2>2. k = Slot(k.group, k.name, FALSE, TRUE)
    BY <1>1, <1>3 DEF EntryKey, Slot
  <2>3. QED
    BY <2>1, <2>2 DEF DefaultOf
<1>4. QED
  BY <1>2, <1>3

\* A key of map m that is written over a file of which P is read, R by the object: P2 and R2
\* are read of the new file, and m2 is left in memory.
LEMMA KeyWritten ==
    ASSUME NEW S, Defaulting(S), NEW H, NEW m, Sound(m), NEW m2, Sound(m2),
           \A i \in EntryKey : /\ m2[i] = IF Writes(m, i) THEN Clean(m[i]) ELSE m[i]
                               /\ Has(m2, i) <=> Has(m, i),
           NEW M, NEW P, NEW P2, NEW R, NEW R2, RereadIs(S, P, R), RereadIs(S, P2, R2),
           \A i \in EntryKey : M[i] = IF ~Writes(m, i) THEN P[i]
                                      ELSE IF Removes(m, i) THEN NoEntry ELSE m[i],
           NEW k \in Keys, KeyIsRead(P2, M, k), KeyStored(S, m, R, H, k)
    PROVE  KeyStored(S, m2, R2, H, k)
<1> DEFINE d == DefaultOf(k)
<1>1. /\ k \in EntryKey /\ k.name # Marker /\ k.group \in Groups
      /\ d \in EntryKey /\ d.name # Marker /\ d = [k EXCEPT !.default = TRUE]
  BY DefaultIsSlot, KeyIsAt DEF Keys
<1> HIDE DEF d
<1>2. /\ Has(S, k) => ~S[k].dirty /\ Has(S, d)
      /\ Has(S, d) => ~S[d].dirty
      /\ GroupIsImmutable(S, k.group) => Refused(S, k)
  BY <1>1 DEF Defaulting, Undirtied, DefaultsFirst, LocksWhole, d
<1>3. /\ Writes(m, k) <=> Has(m, k) /\ m[k].dirty
      /\ Writes(m, d) <=> Has(m, d) /\ m[d].dirty
      /\ Removes(m, k) <=> m[k].deleted /\ ~Has(m, d)
  BY <1>1 DEF Writes, Removes
<1>4. GroupIsImmutable(m2, k.group) <=> GroupIsImmutable(m, k.group)
  <2>1. MarkerOf(k.group) \in EntryKey
    BY <1>1, MarkerIsSlot
  <2> DEFINE j == MarkerOf(k.group)
  <2>2. Has(m, j) => SoundEntry(m[j])
    BY <2>1 DEF Sound
  <2> HIDE DEF j
  <2>3. Has(m2, j) <=> Has(m, j)
    BY <2>1 DEF j
  <2>4. Has(m, j) => m2[j].immutable = m[j].immutable
    BY <2>1, <2>2, CleanSound DEF j
  <2>5. QED
    BY <2>3, <2>4 DEF GroupIsImmutable, IsImmutable, j
<1>5. ASSUME k.group \notin H
      PROVE  m2[d] = S[d] /\ (Refused(S, k) => m2[k] = S[k] /\ Refused(m2, k))
  <2>1. m[d] = S[d] /\ (Refused(S, k) => m[k] = S[k] /\ Refused(m, k))
    BY <1>5 DEF KeyStored, d
  <2>2. ~Writes(m, d)
    BY <1>2, <1>3, <2>1 DEF Has
  <2>3. m2[d] = m[d]
    BY <1>1, <2>2
  <2>4. ASSUME Refused(S, k)
        PROVE  m2[k] = S[k] /\ Refused(m2, k)
    <3>1. ~Writes(m, k)
      BY <1>2, <1>3, <2>1, <2>4 DEF Has
    <3>2. m2[k] = m[k]
      BY <1>1, <3>1
    <3>3. QED
      BY <1>4, <2>1, <2>4, <3>2 DEF Refused, Has
  <2>5. QED
    BY <2>1, <2>3, <2>4
<1>6. ASSUME Has(m2, k), k.group \in H => ~Barred(S, m2, k)
      PROVE  ValueOf(R2, k) = m2[k].value
  <2>1. /\ Has(m, k) /\ SoundEntry(m[k])
        /\ k.group \in H => ~Has(m, d) /\ ~Has(S, d) /\ ~GroupIsImmutable(S, k.group)
    BY <1>1, <1>6 DEF Sound, Barred, d
  <2>2. m2[k].value = m[k].value
    BY <1>1, <2>1, CleanSound
  <2>3. /\ KeyFollows(S, P, R, k) /\ ~Has(P, d)
        /\ KeyFollows(S, P2, R2, k)
    BY DEF RereadIs, d
  <2>4. k.group \notin H => m[d] = S[d] /\ (Refused(S, k) => m[k] = S[k])
    BY DEF KeyStored, d
  <2>5. ~Has(M, d)
    <3>1. ~Writes(m, d)
      BY <1>2, <1>3, <2>1, <2>4 DEF Has
    <3>2. M[d] = P[d]
      BY <1>1, <3>1
    <3>3. QED
      BY <2>3, <3>2 DEF Has
  <2>6. (Has(P2, k) <=> Has(M, k)) /\ (Has(M, k) => P2[k].value = M[k].value)
    BY <2>5 DEF KeyIsRead, d
  <2>7. CASE m[k].dirty
    <3>1. Writes(m, k)
      BY <1>3, <2>1, <2>7
    <3>2. ~Refused(S, k)
      <4>1. CASE k.group \in H
        BY <4>1, <1>2, <2>1 DEF Refused
      <4>2. CASE k.group \notin H
        BY <4>2, <1>2, <2>1, <2>4, <2>7 DEF Has
      <4>3. QED
        BY <4>1, <4>2
    <3>3. CASE ~Removes(m, k)
      <4>1. M[k] = m[k]
        BY <1>1, <3>1, <3>3
      <4>2. Has(P2, k) /\ P2[k].value = m[k].value
        BY <2>1, <2>6, <4>1 DEF Has
      <4>3. QED
        BY <2>2, <2>3, <3>2, <4>2 DEF KeyFollows, ValueOf
    <3>4. CASE Removes(m, k)
      <4>1. M[k] = NoEntry
        BY <1>1, <3>1, <3>4
      <4>2. ~Has(P2, k)
        BY <2>6, <4>1 DEF Has
      <4>3. ~Has(S, k)
        BY <1>2, <1>3, <2>1, <2>4, <3>4 DEF Has
      <4>4. ~Has(R2, k)
        BY <2>3, <3>2, <4>2, <4>3 DEF KeyFollows, Has
      <4>5. m[k].value = NoValue
        BY <1>3, <2>1, <3>4 DEF SoundEntry
      <4>6. QED
        BY <2>2, <4>4, <4>5 DEF ValueOf
    <3>5. QED
      BY <3>3, <3>4
  <2>8. CASE ~m[k].dirty
    <3>1. M[k] = P[k]
      BY <1>1, <1>3, <2>8
    <3>2. ValueOf(R, k) = m[k].value
      BY <2>1, <2>8 DEF KeyStored, Barred, d
    <3>3. (Has(P2, k) <=> Has(P, k)) /\ (Has(P, k) => P2[k].value = P[k].value)
      BY <2>6, <3>1 DEF Has
    <3>4. ValueOf(R2, k) = ValueOf(R, k)
      <4>1. CASE Refused(S, k)
        BY <4>1, <2>3 DEF KeyFollows, ValueOf, Has
      <4>2. CASE ~Refused(S, k) /\ Has(P, k)
        BY <4>2, <2>3, <3>3 DEF KeyFollows, ValueOf
      <4>3. CASE ~Refused(S, k) /\ ~Has(P, k)
        BY <4>3, <2>3, <3>3 DEF KeyFollows, ValueOf, Has
      <4>4. QED
        BY <4>1, <4>2, <4>3
    <3>5. QED
      BY <2>2, <3>2, <3>4
  <2>9. QED
    BY <2>7, <2>8
<1>7. QED
  BY <1>5, <1>6 DEF KeyStored, d

\* What an object has written is stored, with all that was before.
LEMMA WrittenStored ==
    ASSUME NEW S, Defaulting(S), NEW H, NEW m, NEW f, PlainFile(f), Legible(f),
           MapStored(S, m, ReadOver(S, f), H)
    PROVE  LET m2 == AfterWrite(m, FALSE)
               f2 == WriteEntries(Merge(m, DiskOf(f), FALSE))
           IN  Undirtied(m2) /\ Legible(f2) /\ MapStored(S, m2, ReadOver(S, f2), H)
<1> DEFINE P == DiskOf(f)
           R == ReadOver(S, f)
           m2 == AfterWrite(m, FALSE)
           M == Merge(m, P, FALSE)
           f2 == WriteEntries(M)
           P2 == DiskOf(f2)
           R2 == ReadOver(S, f2)
<1>1. RereadIs(S, P, R) /\ NothingLoose(P) /\ Sound(P)
  <2>1. RereadIs(S, P, R)
    BY RereadGives DEF Defaulting, Legible
  <2>2. NothingLoose(P)
    BY DEF Legible
  <2> HIDE DEF P
  <2>3. QED
    BY <2>1, <2>2 DEF RereadIs
<1>2. Sound(m) /\ NothingLoose(m) /\ \A k \in Keys : KeyStored(S, m, R, H, k)
  BY DEF MapStored
<1>3. /\ Sound(m2)
      /\ \A i \in EntryKey : /\ m2[i] = IF Writes(m, i) THEN Clean(m[i]) ELSE m[i]
                             /\ Has(m2, i) <=> Has(m, i)
  BY <1>2, SoundAfterWrite
<1> HIDE DEF P, R, m2
<1>4. \A i \in EntryKey : M[i] = IF ~Writes(m, i) THEN P[i]
                                 ELSE IF Removes(m, i) THEN NoEntry ELSE m[i]
  BY <1>1, <1>2, SoundMerge
<1>5. /\ PlainFile(f2) /\ ReadsThrough(f2) /\ NothingLoose(M)
      /\ \A k \in Keys : KeyIsRead(P2, M, k)
  BY <1>1, <1>2, WrittenLegible
<1> HIDE DEF M, f2
<1>6. RereadIs(S, P2, R2)
  BY <1>5, RereadGives DEF Defaulting
<1> HIDE DEF P2, R2
<1>7. \A k \in Keys : KeyStored(S, m2, R2, H, k)
  BY <1>1, <1>2, <1>3, <1>4, <1>5, <1>6, KeyWritten
<1>8. NothingLoose(m2)
  BY <1>2, <1>3 DEF NothingLoose, EntriesOf
<1>9. Undirtied(m2)
  <2> SUFFICES ASSUME NEW k \in EntryKey, Has(m2, k)
               PROVE  ~m2[k].dirty
    BY DEF Undirtied
  <2>1. Has(m, k) /\ SoundEntry(m[k])
    BY <1>2, <1>3 DEF Sound
  <2>2. QED
    BY <2>1, <1>3, CleanSound DEF Writes
<1>10. NothingLoose(P2)
  <2> SUFFICES ASSUME NEW k \in EntriesOf(NoGroup), Has(P2, k)
               PROVE  FALSE
    BY DEF NothingLoose
  <2>1. k \in EntryKey /\ k.group = NoGroup /\ k.name # Marker /\ Sound(P2)
    BY <1>6 DEF EntriesOf, RereadIs
  <2>2. \A j \in Keys : k # DefaultOf(j)
    BY <1>6 DEF RereadIs
  <2>3. k \in Keys
    BY <2>1, <2>2, SlotKinds
  <2>4. ~Has(M, DefaultOf(k)) /\ ~Has(M, k)
    <3>1. DefaultOf(k) \in EntriesOf(NoGroup)
      BY <2>1, <2>3, DefaultIsSlot DEF EntriesOf
    <3>2. QED
      BY <3>1, <1>5 DEF NothingLoose
  <2>5. QED
    BY <1>5, <2>3, <2>4 DEF KeyIsRead
<1>11. Legible(f2)
  BY <1>5, <1>10 DEF Legible, P2
<1>12. MapStored(S, m2, R2, H)
  BY <1>3, <1>7, <1>8 DEF MapStored
<1>13. QED
  BY <1>9, <1>11, <1>12 DEF m2, f2, R2, M, P

-----------------------------------------------------------------------------
(* The calls and sync() keep what is stored *)

\* The object of a call as it was and as it is: its map, whether it is dirty, and the groups
\* of it that got other entries.
ObjectKept(x, m2, d2, G) ==
    /\ entryMap'[x] = m2 /\ (bDirty'[x] <=> d2) /\ file'[x] = file[x]
    /\ MixedOf(x) \subseteq MixedOf(x)' /\ G \subseteq MixedOf(x)'
    /\ Changes(entryMap[x], m2, G)
    /\ d2 \/ (~bDirty[x] /\ (Undirtied(entryMap[x]) => Undirtied(m2)))

\* One that keeps to that is stored as before.
LEMMA ObjectStays ==
    ASSUME StaysInv, NEW x \in Objects, NEW m2, NEW d2 \in BOOLEAN, NEW G,
           ObjectKept(x, m2, d2, G)
    PROVE  /\ bDirty'[x] \/ Undirtied(entryMap'[x])
           /\ Legible(file'[x])
           /\ MapStored(SystemMap(x), entryMap'[x], Reread(x, file'[x]), MixedOf(x)')
<1>1. /\ bDirty[x] \/ Undirtied(entryMap[x])
      /\ Legible(file[x])
      /\ MapStored(SystemMap(x), entryMap[x], Reread(x, file[x]), MixedOf(x))
  BY DEF StaysInv
<1>2. /\ entryMap'[x] = m2 /\ (bDirty'[x] <=> d2) /\ file'[x] = file[x]
      /\ MixedOf(x) \subseteq MixedOf(x)' /\ G \subseteq MixedOf(x)'
      /\ Changes(entryMap[x], m2, G)
  BY DEF ObjectKept
<1>3. d2 \/ (~bDirty[x] /\ (Undirtied(entryMap[x]) => Undirtied(m2)))
  BY Zenon DEF ObjectKept
<1>4. bDirty'[x] \/ Undirtied(m2)
  BY <1>1, <1>2, <1>3, Zenon
<1> DEFINE S == SystemMap(x)
           R == Reread(x, file[x])
           H == MixedOf(x)
           H2 == MixedOf(x)'
<1>5. MapStored(S, entryMap[x], R, H) /\ H \subseteq H2 /\ G \subseteq H2
      /\ Changes(entryMap[x], m2, G)
  BY <1>1, <1>2
<1> HIDE DEF S, R, H, H2
<1>6. MapStored(S, m2, R, H2)
  BY <1>5, StillStored
<1>7. Reread(x, file'[x]) = R
  BY <1>2 DEF R
<1>8. QED
  BY <1>1, <1>2, <1>4, <1>6, <1>7, Zenon DEF S, H2

\* An object that a step leaves alone stays as it is.
LEMMA ObjectAlone ==
    ASSUME StaysInv, NEW x \in Objects, entryMap'[x] = entryMap[x], bDirty'[x] = bDirty[x],
           file'[x] = file[x], MixedOf(x) \subseteq MixedOf(x)'
    PROVE  /\ bDirty'[x] \/ Undirtied(entryMap'[x])
           /\ Legible(file'[x])
           /\ MapStored(SystemMap(x), entryMap'[x], Reread(x, file'[x]), MixedOf(x)')
<1>1. /\ bDirty[x] \/ Undirtied(entryMap[x])
      /\ Legible(file[x])
      /\ MapStored(SystemMap(x), entryMap[x], Reread(x, file[x]), MixedOf(x))
  BY DEF StaysInv
<1> DEFINE S == SystemMap(x)
           R == Reread(x, file[x])
           H == MixedOf(x)
           H2 == MixedOf(x)'
           m == entryMap[x]
           nowhere == {}
<1>2. MapStored(S, m, R, H) /\ H \subseteq H2 /\ nowhere \subseteq H2
  BY <1>1
<1>3. Changes(m, m, nowhere)
  <2>1. Sound(m) /\ NothingLoose(m)
    BY <1>2 DEF MapStored
  <2> HIDE DEF m
  <2>2. \A k \in Keys : KeyChanges(m, m, nowhere, k)
    BY DEF KeyChanges
  <2>3. QED
    BY <2>1, <2>2 DEF Changes
<1> HIDE DEF S, R, H, H2, m, nowhere
<1>4. MapStored(S, m, R, H2)
  BY <1>2, <1>3, StillStored
<1>5. Reread(x, file'[x]) = R
  BY DEF R
<1>6. QED
  BY <1>1, <1>4, <1>5, Zenon DEF S, H2, m

\* What a call does, and another after it.
LEMMA ChangesOn ==
    ASSUME NEW m, NEW m1, NEW m2, NEW G, NEW G2, Changes(m, m1, G), Changes(m1, m2, G2)
    PROVE  Changes(m, m2, G \cup G2)
<1>1. ASSUME NEW k \in Keys
      PROVE  KeyChanges(m, m2, G \cup G2, k)
  <2>1. KeyChanges(m, m1, G, k) /\ KeyChanges(m1, m2, G2, k)
    BY DEF Changes
  <2>2. QED
    BY <2>1 DEF KeyChanges, Has
<1>2. QED
  BY <1>1 DEF Changes

\* A value that is written is dirty.
LEMMA SetChanges ==
    ASSUME NEW m, NothingLoose(m), NEW g \in Groups, g # NoGroup, NEW n \in Names, NEW v,
           NEW o, "Dirty" \in o, NEW m2, SetsSlot(m, m2, At(g, n), v, o)
    PROVE  /\ Changes(m, m2, {})
           /\ m2[At(g, n)] = m[At(g, n)] /\ Undirtied(m) => Undirtied(m2)
<1> DEFINE k == At(g, n)
           nowhere == {}
<1>1. k \in Keys /\ k \in EntryKey /\ k.group = g
  <2>1. k \in Keys /\ k.group = g
    BY AtIsKey
  <2> HIDE DEF k
  <2>2. QED
    BY <2>1 DEF Keys
<1> HIDE DEF k
<1>2. SetsSlot(m, m2, k, v, o)
  BY DEF k
<1>3. ASSUME NEW i \in Keys
      PROVE  KeyChanges(m, m2, nowhere, i)
  <2>1. /\ i \in EntryKey /\ i.name # Marker /\ i.group \in Groups
        /\ DefaultOf(i) \in EntryKey /\ DefaultOf(i).name # Marker /\ DefaultOf(i) # k
    BY <1>1, DefaultIsSlot, KeyIsAt DEF Keys
  <2>2. m2[DefaultOf(i)] = m[DefaultOf(i)] /\ (i # k => m2[i] = m[i])
        /\ (GroupIsImmutable(m2, i.group) <=> GroupIsImmutable(m, i.group))
    BY <1>2, <2>1 DEF SetsSlot
  <2>3. m2[i] = m[i] \/ m2[i].dirty
    BY <1>2, <2>2 DEF SetsSlot
  <2>4. Refused(m, i) => m2[i] = m[i]
    BY <1>2, <2>2 DEF SetsSlot
  <2>5. QED
    BY <2>2, <2>3, <2>4 DEF KeyChanges, Has, Refused
<1>4. NothingLoose(m2)
  <2> SUFFICES ASSUME NEW i \in EntriesOf(NoGroup)
               PROVE  ~Has(m2, i)
    BY DEF NothingLoose
  <2>1. i \in EntryKey /\ i.name # Marker /\ i # k
    BY <1>1 DEF EntriesOf
  <2>2. QED
    BY <1>2, <2>1 DEF SetsSlot, NothingLoose, Has
<1>5. Changes(m, m2, nowhere)
  BY <1>2, <1>3, <1>4 DEF Changes, SetsSlot
<1>6. m2[k] = m[k] /\ Undirtied(m) => Undirtied(m2)
  BY <1>2, SoundFresh DEF SetsSlot, Undirtied, Has, FreshEntry
<1>7. QED
  BY <1>5, <1>6 DEF k

\* What one or two objects of a call are left as.
LEMMA LeaveOne ==
    ASSUME NEW x \in Objects, NEW m, NEW d \in BOOLEAN,
           NEW changed, DOMAIN changed = {x}, changed[x] = Object(m, d), Leave(changed)
    PROVE  /\ entryMap' = [y \in Objects |-> IF y = x THEN m ELSE entryMap[y]]
           /\ bDirty' = [y \in Objects |-> IF y = x THEN d ELSE bDirty[y]]
<1>1. /\ entryMap' = [y \in Objects |-> IF y \in DOMAIN changed THEN changed[y].map
                                        ELSE entryMap[y]]
      /\ bDirty' = [y \in Objects |-> IF y \in DOMAIN changed THEN changed[y].dirty ELSE bDirty[y]]
  BY DEF Leave
<1>2. Object(m, d).map = m /\ Object(m, d).dirty = d
  BY DEF Object
<1>3. QED
  BY <1>1, <1>2

LEMMA LeaveTwo ==
    ASSUME NEW x \in Objects, NEW y \in Objects, x # y, NEW m, NEW d \in BOOLEAN,
           NEW m2, NEW d2 \in BOOLEAN,
           Leave([z \in {x, y} |-> IF z = x THEN Object(m, d) ELSE Object(m2, d2)])
    PROVE  /\ entryMap' = [z \in Objects |-> IF z = y THEN m2 ELSE IF z = x THEN m
                                             ELSE entryMap[z]]
           /\ bDirty' = [z \in Objects |-> IF z = y THEN d2 ELSE IF z = x THEN d ELSE bDirty[z]]
<1> DEFINE changed == [z \in {x, y} |-> IF z = x THEN Object(m, d) ELSE Object(m2, d2)]
<1>1. /\ entryMap' = [z \in Objects |-> IF z \in DOMAIN changed THEN changed[z].map
                                        ELSE entryMap[z]]
      /\ bDirty' = [z \in Objects |-> IF z \in DOMAIN changed THEN changed[z].dirty ELSE bDirty[z]]
  BY DEF Leave
<1>2. /\ Object(m, d).map = m /\ Object(m, d).dirty = d
      /\ Object(m2, d2).map = m2 /\ Object(m2, d2).dirty = d2
  BY DEF Object
<1>3. QED
  BY <1>1, <1>2

\* What an object is, and what a key of it may be, before a call.
LEMMA ObjectIs ==
    ASSUME StaysInv, ArrivesInv, NEW x \in Objects
    PROVE  /\ Sound(entryMap[x]) /\ NothingLoose(entryMap[x])
           /\ bDirty[x] \in BOOLEAN
           /\ bDirty[x] \/ Undirtied(entryMap[x])
BY DEF StaysInv, ArrivesInv, MapStored

\* The calls are for groups with a header.
LEMMA HeadedCalls ==
    ASSUME NEW g \in PlaceGroups
    PROVE  g \in Groups /\ g # NoGroup
BY CopyAssumption DEF PlaceGroups

\* A key is written, or deleted: the object is dirty, or its entries are not.
LEMMA WriteKept ==
    ASSUME NEW m, Sound(m), NothingLoose(m), NEW g \in Groups, g # NoGroup, NEW n \in Names,
           NEW v \in Values \cup {NoValue}, NEW o \in KeyOptions, "Dirty" \in o,
           Has(m, At(g, n)) \/ v # NoValue
    PROVE  /\ Changes(m, SetEntry(m, g, n, v, o), {})
           /\ SetEntryDirties(m, g, n, v, o)
              \/ (Undirtied(m) => Undirtied(SetEntry(m, g, n, v, o)))
<1> DEFINE m2 == SetEntry(m, g, n, v, o)
           k == At(g, n)
<1>1. {"Global", "Localized", "Default"} \cap o = {}
  BY DEF KeyOptions
<1>2. /\ SetsSlot(m, m2, k, v, o)
      /\ m2[k] = m[k] \/ SetEntryDirties(m, g, n, v, o) \/ (~Has(m, k) /\ v = NoValue)
  BY <1>1, SetSlotGives
<1> HIDE DEF m2
<1>3. /\ Changes(m, m2, {})
      /\ m2[k] = m[k] /\ Undirtied(m) => Undirtied(m2)
  BY <1>2, SetChanges
<1> HIDE DEF k
<1>4. SetEntryDirties(m, g, n, v, o) \/ (Undirtied(m) => Undirtied(m2))
  BY <1>2, <1>3, Zenon DEF k
<1>5. QED
  BY <1>3, <1>4, Zenon DEF m2

\* moveValue() keeps what is stored.
LEMMA MoveStays ==
    ASSUME Stores, StaysInv, ArrivesInv, NEW from \in Objects, NEW to \in Objects,
           NEW g \in PlaceGroups, NEW h \in PlaceGroups, NEW n \in PlainNames,
           NEW o \in CallOptions, MoveValue(from, g, n, to, h, o)
    PROVE  StaysInv'
<1>1. /\ g \in Groups /\ h \in Groups /\ g # NoGroup /\ h # NoGroup /\ n \in Names
      /\ o \in SUBSET {"Dirty", "Notify"} /\ "Dirty" \in o
  BY CallsAre, HeadedCalls DEF Stores, Persistent
<1>2. PICK e \in Movable(entryMap[from], g, n) :
          LET deleted == DeleteEntry(Of(from), g, n, o)
              There(x) == SetEntryData(x, h, n, e.value, MovedOptions(e))
          IN  Leave(IF from = to THEN [x \in {to} |-> There(deleted)]
                    ELSE [x \in {from, to} |-> IF x = from THEN deleted ELSE There(Of(to))])
  BY DEF MoveValue
<1> DEFINE v == e.value
           o1 == PutOptions(NoValue, o)
           o2 == MovedOptions(e)
<1>3. v \in Values \cup {NoValue} /\ v # NoValue /\ Has(entryMap[from], At(g, n))
  <2> DEFINE t == <<g, n>>
             m == entryMap[from]
             k == FindEntry(m, g, n, TRUE, FALSE)
  <2>1. e = m[k] /\ Has(m, k) /\ e.value # NoValue
    BY <1>2 DEF Movable
  <2>2. k \in EntryKey
    BY <1>1 DEF FindEntry, Slot, EntryKey
  <2>3. Sound(m)
    BY DEF ArrivesInv
  <2>4. HasEntry(m, t) <=> Has(m, At(t[1], t[2]))
    <3>1. t[1] \in Groups /\ t[2] \in Names
      BY <1>1
    <3> HIDE DEF t, m
    <3>2. QED
      BY <2>3, <3>1, HasEntryOf
  <2>5. HasEntry(m, t)
    BY <2>1 DEF HasEntry
  <2>6. SoundEntry(m[k])
    BY <2>1, <2>2, <2>3 DEF Sound
  <2>7. QED
    BY <2>1, <2>4, <2>5, <2>6 DEF SoundEntry, Entry
<1>4. o1 \in KeyOptions /\ "Dirty" \in o1 /\ o2 \in KeyOptions /\ "Dirty" \in o2
  BY <1>1 DEF PutOptions, MovedOptions, KeyOptions, When
<1> HIDE DEF v, o1, o2
<1> DEFINE m0 == entryMap[from]
           c1 == SetEntryDirties(m0, g, n, NoValue, o1)
           m1 == SetEntry(m0, g, n, NoValue, o1)
           d1 == bDirty[from] \/ c1
           base == IF from = to THEN m1 ELSE entryMap[to]
           dbase == IF from = to THEN d1 ELSE bDirty[to]
           c2 == SetEntryDirties(base, h, n, v, o2)
           m2 == SetEntry(base, h, n, v, o2)
           d2 == dbase \/ c2
<1>5. DeleteEntry(Of(from), g, n, o) = Object(m1, d1)
  <2> DEFINE q == PutDirties(m0, g, n, NoValue, o)
  <2>1. DeleteEntry(Of(from), g, n, o) = Object(m1, bDirty[from] \/ q)
    BY DEF DeleteEntry, Of, Object, PutMap, o1
  <2>2. q <=> c1
    BY <1>1 DEF PutDirties, o1
  <2> HIDE DEF q, c1, m1
  <2>3. (bDirty[from] \/ q) = d1
    BY <2>2
  <2> HIDE DEF d1
  <2>4. QED
    BY <2>1, <2>3, Zenon
<1>6. d1 \in BOOLEAN /\ dbase \in BOOLEAN /\ d2 \in BOOLEAN
  <2>1. bDirty[from] \in BOOLEAN /\ bDirty[to] \in BOOLEAN
    BY ObjectIs
  <2> HIDE DEF c1, c2
  <2>2. d1 \in BOOLEAN
    OBVIOUS
  <2> HIDE DEF d1
  <2>3. dbase \in BOOLEAN
    BY <2>1, <2>2
  <2> HIDE DEF dbase
  <2>4. QED
    BY <2>2, <2>3
<1>7. SetEntryData(Object(base, dbase), h, n, e.value, MovedOptions(e)) = Object(m2, d2)
  <2> HIDE DEF base, dbase
  <2>1. Object(base, dbase).map = base /\ Object(base, dbase).dirty = dbase
    BY DEF Object
  <2>2. QED
    BY <2>1 DEF SetEntryData, v, o2
<1>8. /\ entryMap' = [x \in Objects |-> IF x = to THEN m2 ELSE IF x = from THEN m1
                                        ELSE entryMap[x]]
      /\ bDirty' = [x \in Objects |-> IF x = to THEN d2 ELSE IF x = from THEN d1 ELSE bDirty[x]]
  <2> HIDE DEF m1, d1, m2, d2
  <2>1. CASE from = to
    <3>1. base = m1 /\ dbase = d1
      BY <2>1
    <3>2. Leave([x \in {to} |-> Object(m2, d2)])
      BY <1>2, <1>5, <1>7, <2>1, <3>1
    <3>3. /\ entryMap' = [x \in Objects |-> IF x = to THEN m2 ELSE entryMap[x]]
          /\ bDirty' = [x \in Objects |-> IF x = to THEN d2 ELSE bDirty[x]]
      <4> DEFINE all == Object(m2, d2)
                 changed == [x \in {to} |-> all]
      <4>1. d2 \in BOOLEAN /\ Leave(changed)
        BY <1>6, <3>2
      <4> HIDE DEF base, dbase, all
      <4>2. DOMAIN changed = {to} /\ changed[to] = all
        OBVIOUS
      <4> HIDE DEF changed
      <4>3. QED
        BY <4>1, <4>2, LeaveOne DEF all
    <3> HIDE DEF base, dbase
    <3>4. QED
      BY <2>1, <3>3
  <2>2. CASE from # to
    <3>1. base = entryMap[to] /\ dbase = bDirty[to]
      BY <2>2
    <3>2. Of(to) = Object(base, dbase)
      BY <3>1 DEF Of
    <3>3. Leave([x \in {from, to} |-> IF x = from THEN Object(m1, d1) ELSE Object(m2, d2)])
      BY <1>2, <1>5, <1>7, <2>2, <3>2
    <3>4. QED
      BY <1>6, <2>2, <3>3, LeaveTwo
  <2>3. QED
    BY <2>1, <2>2
<1>9. Sound(m0) /\ NothingLoose(m0)
  BY ObjectIs
<1> HIDE DEF m0
<1>10. Changes(m0, m1, {}) /\ (c1 \/ (Undirtied(m0) => Undirtied(m1)))
  BY <1>1, <1>3, <1>4, <1>9, WriteKept DEF m0
<1> HIDE DEF c1, m1
<1>11. Sound(base) /\ NothingLoose(base)
  <2>1. Sound(entryMap[to]) /\ NothingLoose(entryMap[to])
    BY ObjectIs
  <2>2. QED
    BY <1>10, <2>1 DEF Changes
<1> HIDE DEF base
<1>12. Changes(base, m2, {}) /\ (c2 \/ (Undirtied(base) => Undirtied(m2)))
  BY <1>1, <1>3, <1>4, <1>11, WriteKept
<1> HIDE DEF c2, m2
<1>13. file' = file /\ mixed' = mixed
  BY DEF MoveValue, Call
<1>14. d1 \/ (~bDirty[from] /\ (Undirtied(m0) => Undirtied(m1)))
  BY <1>10, Zenon
<1>15. d2 \/ (~bDirty[to] /\ (Undirtied(entryMap[to]) => Undirtied(m2)))
  <2>1. d2 \/ (~dbase /\ (Undirtied(base) => Undirtied(m2)))
    BY <1>12, Zenon DEF d2
  <2>2. CASE from = to
    <3>1. base = m1 /\ dbase = d1 /\ m0 = entryMap[to] /\ bDirty[from] = bDirty[to]
      BY <2>2 DEF base, m0
    <3> HIDE DEF d1, dbase, d2
    <3>2. ~dbase => ~bDirty[to] /\ (Undirtied(entryMap[to]) => Undirtied(base))
      BY <1>14, <3>1
    <3>3. QED
      BY <2>1, <3>2, Zenon
  <2>3. CASE from # to
    <3>1. base = entryMap[to] /\ dbase = bDirty[to]
      BY <2>3 DEF base
    <3> HIDE DEF dbase, d2
    <3>2. QED
      BY <2>1, <3>1
  <2>4. QED
    BY <2>2, <2>3
<1>16. Changes(entryMap[to], m2, {})
  <2>1. CASE from = to
    <3>1. Changes(m0, m2, {} \cup {})
      BY <1>10, <1>12, <2>1, ChangesOn DEF base
    <3>2. QED
      BY <2>1, <3>1 DEF m0
  <2>2. CASE from # to
    BY <1>12, <2>2 DEF base
  <2>3. QED
    BY <2>1, <2>2
<1> HIDE DEF d1, d2, dbase
<1>17. ASSUME NEW x \in Objects
       PROVE  /\ bDirty'[x] \/ Undirtied(entryMap'[x])
              /\ Legible(file'[x])
              /\ MapStored(SystemMap(x), entryMap'[x], Reread(x, file'[x]), MixedOf(x)')
  <2>1. file'[x] = file[x] /\ MixedOf(x)' = MixedOf(x)
    BY <1>13 DEF MixedOf
  <2>2. CASE x = to
    <3>1. ObjectKept(x, m2, d2, {})
      BY <1>8, <1>15, <1>16, <2>1, <2>2 DEF ObjectKept
    <3>2. QED
      BY <1>6, <3>1, ObjectStays
  <2>3. CASE x # to /\ x = from
    <3>1. ObjectKept(x, m1, d1, {})
      BY <1>8, <1>10, <1>14, <2>1, <2>3 DEF ObjectKept, m0
    <3>2. QED
      BY <1>6, <3>1, ObjectStays
  <2>4. CASE x # to /\ x # from
    <3>1. entryMap'[x] = entryMap[x] /\ bDirty'[x] = bDirty[x]
      BY <1>8, <2>4
    <3>2. QED
      BY <2>1, <3>1, ObjectAlone
  <2>5. QED
    BY <2>2, <2>3, <2>4
<1>18. bDirty' \in [Objects -> BOOLEAN]
  BY <1>6, <1>8 DEF StaysInv
<1>19. QED
  BY <1>17, <1>18 DEF StaysInv

\* A copied group is dirty, and the locks and defaults of the group are those of the other.
LEMMA CopyKept ==
    ASSUME NEW source, Sound(source), NEW target, Sound(target), NothingLoose(target),
           NEW g \in Groups, NEW h \in Groups, h # NoGroup,
           NEW o \in SUBSET {"Dirty", "Notify"}, "Dirty" \in o
    PROVE  /\ Changes(target, CopyMap(source, g, target, h, o), {h})
           /\ HasGroup(source, g)
              \/ (Undirtied(target) => Undirtied(CopyMap(source, g, target, h, o)))
<1> DEFINE m2 == CopyMap(source, g, target, h, o)
<1>1. CopiesGroup(m2, source, g, target, h, o)
  BY CopyMapGives
<1> HIDE DEF m2
<1>2. ASSUME NEW n \in Names, NEW d \in BOOLEAN
      PROVE  LET i == Slot(h, n, FALSE, d)
             IN  IF Has(source, Slot(g, n, FALSE, d)) THEN Has(m2, i) /\ m2[i].dirty
                 ELSE m2[i] = target[i]
  <2> DEFINE i == Slot(h, n, FALSE, d)
             j == Slot(g, n, FALSE, d)
  <2>1. IF Has(source, j) THEN Has(m2, i) /\ m2[i] = CopiedEntry(source[j], o)
        ELSE m2[i] = target[i]
    BY <1>1 DEF CopiesGroup
  <2>2. j \in EntryKey
    BY DEF Slot, EntryKey
  <2>3. Has(source, j) => SoundEntry(source[j])
    BY <2>2 DEF Sound
  <2> HIDE DEF i, j
  <2>4. Has(source, j) => m2[i].dirty
    BY <2>1, <2>3 DEF CopiedEntry, SoundEntry, Entry
  <2>5. QED
    BY <2>1, <2>4 DEF i, j
<1>3. \A i \in EntryKey : i.group # h => m2[i] = target[i]
  BY <1>1 DEF CopiesGroup
<1>4. ASSUME NEW k \in Keys
      PROVE  KeyChanges(target, m2, {h}, k)
  <2> DEFINE d == DefaultOf(k)
  <2>1. /\ k \in EntryKey /\ k.group \in Groups /\ k.name \in Names
        /\ k = Slot(k.group, k.name, FALSE, FALSE)
        /\ d \in EntryKey /\ d.group = k.group /\ d = Slot(k.group, k.name, FALSE, TRUE)
        /\ MarkerOf(k.group) \in EntryKey /\ MarkerOf(k.group).group = k.group
    BY KeyIsAt, DefaultIsSlot, MarkerIsSlot DEF At, DefaultOf
  <2> HIDE DEF d
  <2>2. CASE k.group = h
    <3>1. m2[k] = target[k] \/ m2[k].dirty
      BY <1>2, <2>1, <2>2
    <3>2. Has(target, d) => Has(m2, d)
      BY <1>2, <2>1, <2>2 DEF Has
    <3>3. QED
      BY <2>2, <3>1, <3>2 DEF KeyChanges, d
  <2>3. CASE k.group # h
    <3>1. m2[k] = target[k] /\ m2[d] = target[d]
          /\ m2[MarkerOf(k.group)] = target[MarkerOf(k.group)]
      BY <1>3, <2>1, <2>3
    <3>2. QED
      BY <3>1 DEF KeyChanges, Refused, GroupIsImmutable, IsImmutable, Has, d
  <2>4. QED
    BY <2>2, <2>3
<1>5. NothingLoose(m2)
  BY <1>3 DEF NothingLoose, EntriesOf, Has
<1>6. Changes(target, m2, {h})
  BY <1>1, <1>4, <1>5 DEF Changes, CopiesGroup
<1>7. ASSUME ~HasGroup(source, g), Undirtied(target)
      PROVE  Undirtied(m2)
  <2> SUFFICES ASSUME NEW i \in EntryKey, Has(m2, i)
               PROVE  m2[i] = target[i]
    BY <1>7 DEF Undirtied, Has
  <2>1. CASE i.group # h
    BY <1>3, <2>1
  <2>2. CASE i.group = h
    <3> DEFINE n == i.name
               d == i.default
               a == Slot(h, n, FALSE, d)
               j == Slot(g, n, FALSE, d)
    <3>1. i.local = FALSE /\ n \in Names \cup {Marker} /\ d \in BOOLEAN
      BY <1>1 DEF CopiesGroup, Sound, EntryKey
    <3>2. i = a
      BY <2>2, <3>1 DEF EntryKey, Slot
    <3>3. j \in EntryKey /\ j.group = g
      BY <3>1 DEF Slot, EntryKey
    <3>4. ~Has(source, j)
      BY <1>7, <3>3 DEF HasGroup
    <3>5. m2[a] = target[a]
      BY <1>1, <3>1, <3>4 DEF CopiesGroup
    <3> HIDE DEF a
    <3>6. QED
      BY <3>2, <3>5
  <2>3. QED
    BY <2>1, <2>2
<1>8. HasGroup(source, g) \/ (Undirtied(target) => Undirtied(m2))
  BY <1>7, Zenon
<1>9. QED
  BY <1>6, <1>8, Zenon DEF m2

\* What deleteGroup() deletes is dirty.
LEMMA DeleteKept ==
    ASSUME NEW m, Sound(m), NothingLoose(m), NEW g \in Groups, g # NoGroup
    PROVE  /\ Changes(m, DeleteGroupMap(m, FALSE, g, {"Dirty"}), {})
           /\ DeleteGroupDirties(m, FALSE, g)
              \/ (Undirtied(m) => Undirtied(DeleteGroupMap(m, FALSE, g, {"Dirty"})))
<1> DEFINE m2 == DeleteGroupMap(m, FALSE, g, {"Dirty"})
           c == DeleteGroupDirties(m, FALSE, g)
           nowhere == {}
<1>1. DeletesKeys(m, m2, g)
  BY DeleteGroupGives
<1> HIDE DEF m2
<1>2. /\ Sound(m2)
      /\ \A k \in EntryKey : k \notin Keys \/ k.group \notin SubGroups[g] => m2[k] = m[k]
      /\ \A k \in Keys : m2[k] # m[k] => ~Refused(m, k) /\ c /\ m2[k].dirty
  BY <1>1 DEF DeletesKeys
<1> HIDE DEF c, nowhere
<1>3. ASSUME NEW k \in Keys
      PROVE  KeyChanges(m, m2, nowhere, k)
  <2>1. /\ k.group \in Groups /\ DefaultOf(k) \in EntryKey /\ DefaultOf(k) \notin Keys
        /\ MarkerOf(k.group) \in EntryKey /\ MarkerOf(k.group) \notin Keys
    BY KeyIsAt, DefaultIsSlot, MarkerIsSlot
  <2>2. m2[DefaultOf(k)] = m[DefaultOf(k)] /\ m2[MarkerOf(k.group)] = m[MarkerOf(k.group)]
    BY <1>2, <2>1
  <2>3. (m2[k] = m[k] \/ m2[k].dirty) /\ (Refused(m, k) => m2[k] = m[k])
    BY <1>2
  <2>4. QED
    BY <2>2, <2>3 DEF KeyChanges, Refused, GroupIsImmutable, IsImmutable, Has
<1>4. NothingLoose(m2)
  <2>1. NoGroup \notin SubGroups[g]
    BY CallsAssumption
  <2>2. QED
    BY <1>2, <2>1 DEF NothingLoose, EntriesOf, Has
<1>5. Changes(m, m2, nowhere)
  BY <1>2, <1>3, <1>4 DEF Changes
<1>6. ASSUME ~c, Undirtied(m)
      PROVE  Undirtied(m2)
  BY <1>2, <1>6 DEF Undirtied, Has
<1>7. c \/ (Undirtied(m) => Undirtied(m2))
  BY <1>6, Zenon
<1>8. QED
  BY <1>5, <1>7, Zenon DEF m2, c, nowhere

\* copyTo() keeps what is stored.
LEMMA CopyStays ==
    ASSUME Stores, StaysInv, ArrivesInv, NEW from \in Objects, NEW to \in Objects,
           NEW g \in PlaceGroups, NEW h \in PlaceGroups, NEW o \in CallOptions,
           CopyTo(from, g, to, h, o)
    PROVE  StaysInv'
<1>1. /\ g \in Groups /\ h \in Groups /\ h # NoGroup
      /\ o \in SUBSET {"Dirty", "Notify"} /\ "Dirty" \in o
  BY CallsAre, HeadedCalls DEF Stores, Persistent
<1> DEFINE c == HasGroup(entryMap[from], g)
           m2 == CopyMap(entryMap[from], g, entryMap[to], h, o)
           d2 == bDirty[to] \/ c
<1>2. CopyGroup(from, g, Of(to), h, o) = Object(m2, d2)
  BY <1>1 DEF CopyGroup, Of, Object
<1>3. Leave([x \in {to} |-> CopyGroup(from, g, Of(to), h, o)])
      /\ file' = file /\ mixed' = mixed \cup {<<to, h>>}
  BY DEF CopyTo, Call
<1>4. Changes(entryMap[to], m2, {h}) /\ (c \/ (Undirtied(entryMap[to]) => Undirtied(m2)))
  <2> DEFINE source == entryMap[from]
             target == entryMap[to]
  <2>1. Sound(source) /\ Sound(target) /\ NothingLoose(target)
    BY ObjectIs
  <2> HIDE DEF source, target
  <2>2. /\ Changes(target, CopyMap(source, g, target, h, o), {h})
        /\ HasGroup(source, g)
           \/ (Undirtied(target) => Undirtied(CopyMap(source, g, target, h, o)))
    BY <1>1, <2>1, CopyKept
  <2>3. QED
    BY <2>2, Zenon DEF source, target
<1>5. d2 \in BOOLEAN
  <2> HIDE DEF c
  <2> QED
    OBVIOUS
<1> HIDE DEF m2
<1>6. d2 \/ (~bDirty[to] /\ (Undirtied(entryMap[to]) => Undirtied(m2)))
  BY <1>4, Zenon
<1> HIDE DEF d2, c
<1>7. /\ entryMap' = [x \in Objects |-> IF x = to THEN m2 ELSE entryMap[x]]
      /\ bDirty' = [x \in Objects |-> IF x = to THEN d2 ELSE bDirty[x]]
  <2> DEFINE all == Object(m2, d2)
             changed == [x \in {to} |-> all]
  <2>1. Leave(changed)
    BY <1>2, <1>3
  <2> HIDE DEF all
  <2>2. DOMAIN changed = {to} /\ changed[to] = all
    OBVIOUS
  <2> HIDE DEF changed
  <2>3. QED
    BY <1>5, <2>1, <2>2, LeaveOne DEF all
<1>8. ASSUME NEW x \in Objects
      PROVE  /\ bDirty'[x] \/ Undirtied(entryMap'[x])
             /\ Legible(file'[x])
             /\ MapStored(SystemMap(x), entryMap'[x], Reread(x, file'[x]), MixedOf(x)')
  <2>1. file'[x] = file[x] /\ MixedOf(x) \subseteq MixedOf(x)'
    BY <1>3 DEF MixedOf
  <2>2. CASE x = to
    <3>1. {h} \subseteq MixedOf(x)'
      BY <1>1, <1>3, <2>2 DEF MixedOf
    <3>2. ObjectKept(x, m2, d2, {h})
      BY <1>4, <1>6, <1>7, <2>1, <2>2, <3>1 DEF ObjectKept
    <3>3. QED
      BY <1>5, <3>2, ObjectStays
  <2>3. CASE x # to
    <3>1. entryMap'[x] = entryMap[x] /\ bDirty'[x] = bDirty[x]
      BY <1>7, <2>3
    <3>2. QED
      BY <2>1, <3>1, ObjectAlone
  <2>4. QED
    BY <2>2, <2>3
<1>9. bDirty' \in [Objects -> BOOLEAN]
  BY <1>5, <1>7 DEF StaysInv
<1>10. QED
  BY <1>8, <1>9 DEF StaysInv

\* reparent() keeps what is stored.
LEMMA ReparentStays ==
    ASSUME Stores, StaysInv, ArrivesInv, NEW from \in Objects, NEW to \in Objects,
           NEW g \in PlaceGroups, NEW h \in PlaceGroups, NEW o \in CallOptions,
           Reparent(from, g, to, h, o)
    PROVE  StaysInv'
<1>1. /\ g \in Groups /\ h \in Groups /\ g # NoGroup /\ h # NoGroup
      /\ o \in SUBSET {"Dirty", "Notify"} /\ "Dirty" \in o
  BY CallsAre, HeadedCalls DEF Stores, Persistent
<1> DEFINE source == entryMap[from]
           target == entryMap[to]
           c == HasGroup(source, g)
           m2 == CopyMap(source, g, target, h, o)
           d2 == bDirty[to] \/ c
           base == IF from = to THEN m2 ELSE source
           dbase == IF from = to THEN d2 ELSE bDirty[from]
           c3 == DeleteGroupDirties(base, FALSE, g)
           m3 == DeleteGroupMap(base, FALSE, g, {"Dirty"})
           d3 == dbase \/ c3
<1>2. CopyGroup(from, g, Of(to), h, o) = Object(m2, d2)
  BY <1>1 DEF CopyGroup, Of, Object
<1>3. DeleteGroup(Object(base, dbase), g) = Object(m3, d3)
  <2> HIDE DEF base, dbase
  <2>1. Object(base, dbase).map = base /\ Object(base, dbase).dirty = dbase
    BY DEF Object
  <2>2. QED
    BY <2>1 DEF DeleteGroup
<1>4. /\ Leave(IF from = to THEN [x \in {to} |-> DeleteGroup(Object(m2, d2), g)]
               ELSE [x \in {from, to} |-> IF x = from THEN DeleteGroup(Of(from), g)
                                          ELSE Object(m2, d2)])
      /\ file' = file /\ mixed' = mixed \cup {<<to, h>>}
  <2> DEFINE copied == CopyGroup(from, g, Of(to), h, o)
  <2>1. /\ Leave(IF from = to THEN [x \in {to} |-> DeleteGroup(copied, g)]
                 ELSE [x \in {from, to} |-> IF x = from THEN DeleteGroup(Of(from), g) ELSE copied])
        /\ file' = file /\ mixed' = mixed \cup {<<to, h>>}
    BY DEF Reparent, Call
  <2> HIDE DEF m2, d2
  <2>2. copied = Object(m2, d2)
    BY <1>2
  <2> HIDE DEF copied
  <2>3. QED
    BY <2>1, <2>2
<1>5. d2 \in BOOLEAN /\ dbase \in BOOLEAN /\ d3 \in BOOLEAN
  <2>1. bDirty[from] \in BOOLEAN
    BY ObjectIs
  <2> HIDE DEF c, c3
  <2>2. d2 \in BOOLEAN
    OBVIOUS
  <2> HIDE DEF d2
  <2>3. dbase \in BOOLEAN
    BY <2>1, <2>2
  <2> HIDE DEF dbase
  <2>4. QED
    BY <2>2, <2>3
<1>6. Sound(source) /\ NothingLoose(source) /\ Sound(target) /\ NothingLoose(target)
  BY ObjectIs
<1>7. Changes(target, m2, {h}) /\ (c \/ (Undirtied(target) => Undirtied(m2)))
  <2> HIDE DEF source, target
  <2>1. /\ Changes(target, CopyMap(source, g, target, h, o), {h})
        /\ HasGroup(source, g)
           \/ (Undirtied(target) => Undirtied(CopyMap(source, g, target, h, o)))
    BY <1>1, <1>6, CopyKept
  <2>2. QED
    BY <2>1, Zenon
<1> HIDE DEF m2, c
<1>8. d2 \/ (~bDirty[to] /\ (Undirtied(target) => Undirtied(m2)))
  BY <1>7, Zenon
<1>9. Sound(base) /\ NothingLoose(base)
  BY <1>6, <1>7 DEF Changes
<1> HIDE DEF d2, base
<1>10. Changes(base, m3, {}) /\ (c3 \/ (Undirtied(base) => Undirtied(m3)))
  BY <1>1, <1>9, DeleteKept
<1> HIDE DEF m3, c3
<1>11. d3 \/ (~dbase /\ (Undirtied(base) => Undirtied(m3)))
  BY <1>10, Zenon
<1> HIDE DEF d3
<1>12. /\ entryMap' = [x \in Objects |-> IF x = from THEN m3 ELSE IF x = to THEN m2
                                         ELSE entryMap[x]]
       /\ bDirty' = [x \in Objects |-> IF x = from THEN d3 ELSE IF x = to THEN d2 ELSE bDirty[x]]
  <2>1. CASE from = to
    <3> DEFINE all == Object(m3, d3)
               changed == [x \in {to} |-> all]
    <3>1. base = m2 /\ dbase = d2
      BY <2>1 DEF base
    <3> HIDE DEF dbase
    <3>2. Leave(changed)
      BY <1>3, <1>4, <2>1, <3>1
    <3> HIDE DEF all
    <3>3. DOMAIN changed = {to} /\ changed[to] = all
      OBVIOUS
    <3> HIDE DEF changed
    <3>4. /\ entryMap' = [x \in Objects |-> IF x = to THEN m3 ELSE entryMap[x]]
          /\ bDirty' = [x \in Objects |-> IF x = to THEN d3 ELSE bDirty[x]]
      BY <1>5, <3>2, <3>3, LeaveOne DEF all
    <3>5. QED
      BY <2>1, <3>4
  <2>2. CASE from # to
    <3>1. base = source /\ dbase = bDirty[from]
      BY <2>2 DEF base
    <3>2. Of(from) = Object(base, dbase)
      BY <3>1 DEF Of
    <3> HIDE DEF dbase, source
    <3>3. Leave([x \in {from, to} |-> IF x = from THEN Object(m3, d3) ELSE Object(m2, d2)])
      BY <1>3, <1>4, <2>2, <3>2
    <3> DEFINE mine == Object(m3, d3)
               other == Object(m2, d2)
    <3>4. Leave([x \in {to, from} |-> IF x = to THEN other ELSE mine])
      <4> HIDE DEF mine, other
      <4>1. [x \in {from, to} |-> IF x = from THEN mine ELSE other]
                = [x \in {to, from} |-> IF x = to THEN other ELSE mine]
        BY <2>2
      <4>2. Leave([x \in {from, to} |-> IF x = from THEN mine ELSE other])
        BY <3>3 DEF mine, other
      <4>3. QED
        BY <4>1, <4>2, Zenon
    <3>5. QED
      BY <1>5, <2>2, <3>4, LeaveTwo
  <2>3. QED
    BY <2>1, <2>2
<1>13. d3 \/ (~bDirty[from] /\ (Undirtied(source) => Undirtied(m3)))
  <2>1. CASE from = to
    <3>1. base = m2 /\ dbase = d2 /\ source = target /\ bDirty[from] = bDirty[to]
      BY <2>1 DEF base
    <3> HIDE DEF dbase, source, target
    <3>2. ~dbase => ~bDirty[from] /\ (Undirtied(source) => Undirtied(base))
      BY <1>8, <3>1
    <3>3. QED
      BY <1>11, <3>2, Zenon
  <2>2. CASE from # to
    <3>1. base = source /\ dbase = bDirty[from]
      BY <2>2 DEF base
    <3> HIDE DEF dbase, source
    <3>2. QED
      BY <1>11, <3>1
  <2>3. QED
    BY <2>1, <2>2
<1> DEFINE G == IF from = to THEN {h} ELSE {}
<1>14. Changes(source, m3, G)
  <2>1. CASE from = to
    <3>1. Changes(target, m3, {h} \cup {})
      BY <1>7, <1>10, <2>1, ChangesOn DEF base
    <3>2. QED
      BY <2>1, <3>1
  <2>2. CASE from # to
    BY <1>10, <2>2 DEF base
  <2>3. QED
    BY <2>1, <2>2
<1>15. ASSUME NEW x \in Objects
       PROVE  /\ bDirty'[x] \/ Undirtied(entryMap'[x])
              /\ Legible(file'[x])
              /\ MapStored(SystemMap(x), entryMap'[x], Reread(x, file'[x]), MixedOf(x)')
  <2>1. file'[x] = file[x] /\ MixedOf(x) \subseteq MixedOf(x)'
    BY <1>4 DEF MixedOf
  <2>2. x = to => {h} \subseteq MixedOf(x)'
    BY <1>1, <1>4 DEF MixedOf
  <2>3. CASE x = from
    <3>1. G \subseteq MixedOf(x)'
      BY <2>2, <2>3
    <3> HIDE DEF G
    <3>2. ObjectKept(x, m3, d3, G)
      BY <1>12, <1>13, <1>14, <2>1, <2>3, <3>1 DEF ObjectKept
    <3>3. QED
      BY <1>5, <3>2, ObjectStays
  <2>4. CASE x = to /\ x # from
    <3>1. ObjectKept(x, m2, d2, {h})
      BY <1>7, <1>8, <1>12, <2>1, <2>2, <2>4 DEF ObjectKept
    <3>2. QED
      BY <1>5, <3>1, ObjectStays
  <2>5. CASE x # to /\ x # from
    <3>1. entryMap'[x] = entryMap[x] /\ bDirty'[x] = bDirty[x]
      BY <1>12, <2>5
    <3>2. QED
      BY <2>1, <3>1, ObjectAlone
  <2>6. QED
    BY <2>3, <2>4, <2>5
<1>16. bDirty' \in [Objects -> BOOLEAN]
  BY <1>5, <1>12 DEF StaysInv
<1>17. QED
  BY <1>15, <1>16 DEF StaysInv

\* KConfig::copyTo() keeps what is stored.
LEMMA CopyAllStays ==
    ASSUME Stores, StaysInv, ArrivesInv, NEW from \in Objects, NEW to \in Objects,
           CopyAll(from, to)
    PROVE  StaysInv'
<1> DEFINE m2 == CopiedAll(entryMap[from])
<1>1. /\ entryMap' = [x \in Objects |-> IF x = to THEN m2 ELSE entryMap[x]]
      /\ bDirty' = [x \in Objects |-> IF x = to THEN TRUE ELSE bDirty[x]]
  <2> DEFINE all == Object(m2, TRUE)
             changed == [x \in {to} |-> all]
  <2>1. Leave(changed)
    BY DEF CopyAll, CopiedAll
  <2> HIDE DEF all
  <2>2. DOMAIN changed = {to} /\ changed[to] = all
    OBVIOUS
  <2> HIDE DEF changed, m2
  <2>3. QED
    BY <2>1, <2>2, LeaveOne DEF all
<1>2. file' = file /\ mixed' = mixed \cup ({to} \X Groups)
  BY DEF CopyAll, Call
<1>3. /\ Sound(m2)
      /\ \A k \in EntryKey : /\ Has(m2, k) <=> Has(entryMap[from], k)
                             /\ Has(m2, k) => m2[k].dirty
  <2>1. Sound(entryMap[from])
    BY ObjectIs
  <2>2. QED
    BY <2>1, CopiedAllGives
<1> HIDE DEF m2
<1>4. Changes(entryMap[to], m2, Groups)
  <2>1. NothingLoose(m2)
    <3>1. NothingLoose(entryMap[from])
      BY ObjectIs
    <3>2. QED
      BY <3>1, <1>3 DEF NothingLoose, EntriesOf
  <2>2. ASSUME NEW k \in Keys
        PROVE  KeyChanges(entryMap[to], m2, Groups, k)
    <3>1. k \in EntryKey /\ k.group \in Groups
      BY KeyIsAt
    <3>2. Has(m2, k) => m2[k].dirty
      BY <1>3, <3>1
    <3>3. QED
      BY <3>1, <3>2 DEF KeyChanges
  <2>3. QED
    BY <1>3, <2>1, <2>2 DEF Changes
<1>5. ASSUME NEW x \in Objects
      PROVE  /\ bDirty'[x] \/ Undirtied(entryMap'[x])
             /\ Legible(file'[x])
             /\ MapStored(SystemMap(x), entryMap'[x], Reread(x, file'[x]), MixedOf(x)')
  <2>1. file'[x] = file[x] /\ MixedOf(x) \subseteq MixedOf(x)'
    BY <1>2 DEF MixedOf
  <2>2. CASE x = to
    <3>1. Groups \subseteq MixedOf(x)'
      BY <1>2, <2>2 DEF MixedOf
    <3>2. ObjectKept(x, m2, TRUE, Groups)
      BY <1>1, <1>4, <2>1, <2>2, <3>1 DEF ObjectKept
    <3>3. QED
      BY <3>2, ObjectStays
  <2>3. CASE x # to
    <3>1. entryMap'[x] = entryMap[x] /\ bDirty'[x] = bDirty[x]
      BY <1>1, <2>3
    <3>2. QED
      BY <2>1, <3>1, ObjectAlone
  <2>4. QED
    BY <2>2, <2>3
<1>6. bDirty' \in [Objects -> BOOLEAN]
  BY <1>1 DEF StaysInv
<1>7. QED
  BY <1>5, <1>6 DEF StaysInv

\* sync() keeps what is stored, and stores the rest.
LEMMA SyncStays ==
    ASSUME Stores, StaysInv, ArrivesInv, NEW o \in Objects, Sync(o)
    PROVE  StaysInv'
<1>1. mixed' = mixed /\ \A x : MixedOf(x)' = MixedOf(x)
  BY DEF Sync, MixedOf
<1>2. CASE ~bDirty[o]
  <2>1. entryMap' = entryMap /\ bDirty' = bDirty /\ file' = file
    BY <1>2 DEF Sync
  <2>2. ASSUME NEW x \in Objects
        PROVE  /\ bDirty'[x] \/ Undirtied(entryMap'[x])
               /\ Legible(file'[x])
               /\ MapStored(SystemMap(x), entryMap'[x], Reread(x, file'[x]), MixedOf(x)')
    BY <1>1, <2>1, ObjectAlone
  <2>3. QED
    BY <2>1, <2>2 DEF StaysInv
<1>3. CASE bDirty[o]
  <2> DEFINE m == entryMap[o]
             f == file[o]
             S == SystemMap(o)
             H == MixedOf(o)
             w == WriteConfig(m, f, FALSE)
             disk == ParseConfig(EmptyMap, f, DiskOpts)
  <2>1. w = MergeWith(m, f, disk, FALSE)
    BY DEF WriteConfig, DiskOpts
  <2>2. /\ Defaulting(S) /\ Reread(o, f) = ReadOver(S, f) /\ PlainFile(f) /\ Legible(f)
        /\ MapStored(S, m, ReadOver(S, f), H)
    <3>1. Defaulting(S) /\ Reread(o, f) = ReadOver(S, f)
      BY SystemIs
    <3>2. PlainFile(f) /\ Legible(f) /\ MapStored(S, m, Reread(o, f), H)
      BY DEF ArrivesInv, StaysInv
    <3> HIDE DEF S, m, f, H
    <3>3. QED
      BY <3>1, <3>2
  <2>3. /\ Leave([x \in {o} |-> Object(w.map, ~w.ok)])
        /\ file' = [file EXCEPT ![o] = w.file]
    BY <1>3 DEF Sync
  <2>4. f = file[o]
    OBVIOUS
  <2> HIDE DEF w, S, H, m, f
  <2>5. \/ /\ w.map = AfterWrite(m, FALSE) /\ w.ok
           /\ w.file = WriteEntries(Merge(m, DiskOf(f), FALSE))
        \/ w.map = m /\ w.file = f /\ ~w.ok
    <3>1. disk.map = DiskOf(f)
      BY DEF DiskOf
    <3> HIDE DEF disk
    <3>2. QED
      BY <2>1, <3>1 DEF MergeWith
  <2> DEFINE m2 == w.map
             d2 == ~w.ok
             f2 == w.file
  <2>6. (d2 \/ Undirtied(m2)) /\ Legible(f2) /\ MapStored(S, m2, ReadOver(S, f2), H)
    <3>1. CASE w.map = m /\ w.file = f /\ ~w.ok
      BY <2>2, <3>1
    <3>2. CASE /\ w.map = AfterWrite(m, FALSE)
               /\ w.file = WriteEntries(Merge(m, DiskOf(f), FALSE))
      BY <2>2, <3>2, WrittenStored
    <3>3. QED
      BY <2>5, <3>1, <3>2
  <2>7. d2 \in BOOLEAN
    OBVIOUS
  <2>8. /\ Leave([x \in {o} |-> Object(m2, d2)])
        /\ file' = [file EXCEPT ![o] = f2]
    BY <2>3
  <2> HIDE DEF m2, d2, f2
  <2>9. /\ entryMap' = [x \in Objects |-> IF x = o THEN m2 ELSE entryMap[x]]
        /\ bDirty' = [x \in Objects |-> IF x = o THEN d2 ELSE bDirty[x]]
    <3> DEFINE all == Object(m2, d2)
               changed == [x \in {o} |-> all]
    <3>1. Leave(changed)
      BY <2>8
    <3> HIDE DEF all
    <3>2. DOMAIN changed = {o} /\ changed[o] = all
      OBVIOUS
    <3> HIDE DEF changed
    <3>3. QED
      BY <2>7, <3>1, <3>2, LeaveOne DEF all
  <2>10. ASSUME NEW x \in Objects
         PROVE  /\ bDirty'[x] \/ Undirtied(entryMap'[x])
                /\ Legible(file'[x])
                /\ MapStored(SystemMap(x), entryMap'[x], Reread(x, file'[x]), MixedOf(x)')
    <3>1. CASE x = o
      <4>1. entryMap'[x] = m2 /\ bDirty'[x] = d2 /\ file'[x] = f2 /\ MixedOf(x)' = H
        <5>1. file = [y \in Objects |-> file[y]]
          BY DEF ArrivesInv
        <5>2. QED
          BY <1>1, <2>8, <2>9, <3>1, <5>1 DEF H
      <4>2. Reread(x, f2) = ReadOver(S, f2) /\ SystemMap(x) = S
        BY <3>1, SystemIs DEF S
      <4>3. QED
        BY <2>6, <4>1, <4>2
    <3>2. CASE x # o
      <4>1. entryMap'[x] = entryMap[x] /\ bDirty'[x] = bDirty[x] /\ file'[x] = file[x]
        BY <2>8, <2>9, <3>2
      <4>2. QED
        BY <1>1, <4>1, ObjectAlone
    <3>3. QED
      BY <3>1, <3>2
  <2>11. bDirty' \in [Objects -> BOOLEAN]
    BY <2>7, <2>9 DEF StaysInv
  <2>12. QED
    BY <2>10, <2>11 DEF StaysInv
<1>4. QED
  BY <1>2, <1>3

\* Every step keeps what is stored.
LEMMA StaysNext ==
    ASSUME Stores, StaysInv, ArrivesInv, [Next]_vars
    PROVE  StaysInv'
<1>1. CASE UNCHANGED vars
  BY <1>1 DEF vars, StaysInv, MixedOf
<1>2. ASSUME NEW from \in Objects, NEW to \in Objects, NEW g \in PlaceGroups,
             NEW h \in PlaceGroups, NEW o \in CallOptions,
             \/ \E n \in PlainNames : MoveValue(from, g, n, to, h, o)
             \/ CopyTo(from, g, to, h, o)
             \/ Reparent(from, g, to, h, o)
      PROVE  StaysInv'
  BY <1>2, MoveStays, CopyStays, ReparentStays
<1>3. ASSUME NEW from \in Objects, NEW to \in Objects, CopyAll(from, to)
      PROVE  StaysInv'
  BY <1>3, CopyAllStays
<1>4. ASSUME NEW o \in Objects, Sync(o)
      PROVE  StaysInv'
  BY <1>4, SyncStays
<1>5. QED
  BY <1>1, <1>2, <1>3, <1>4 DEF Next

\* What has been moved or copied is what is read of the files once all is written, whatever
\* other calls and writes come between.
LEMMA StoredIsShown ==
    ASSUME Stores, StaysInv, ArrivesInv
    PROVE  StaysThere
<1> SUFFICES ASSUME NEW p \in Objects \X Places, promised[p] # Unknown,
                    <<p[1], p[2][1]>> \in mixed => ~Overruled(p), ~bDirty[p[1]]
             PROVE  Reads(Reread(p[1], file[p[1]]), p[2]) = promised[p]
  BY Zenon DEF StaysThere, StoredAsShown
<1> DEFINE o == p[1]
           k == KeyOf(p)
           S == SystemMap(o)
           m == entryMap[o]
           R == Reread(o, file[o])
           H == MixedOf(o)
<1>1. /\ o \in Objects /\ k \in Keys /\ k \in EntryKey /\ k.group = p[2][1] /\ k.name = p[2][2]
      /\ p[2][1] \in Groups /\ p[2] \in Groups \X Names
  <2>1. /\ o \in Objects /\ k \in Keys /\ k \in EntryKey /\ p[2] \in Places
        /\ p[2][1] \in Groups /\ k.group = p[2][1] /\ k.name = p[2][2]
    BY KeysOfPlaces
  <2>2. p[2] \in Groups \X Names
    BY <2>1, CopyAssumption, IniAssumption
  <2>3. QED
    BY <2>1, <2>2
<1>2. Has(m, k) /\ m[k].value = promised[p]
  BY DEF ArrivesInv, Shows
<1>3. Undirtied(m) /\ MapStored(S, m, R, H)
  BY <1>1 DEF StaysInv
<1>4. Sound(R)
  <2>1. PlainFile(file[o])
    BY <1>1 DEF ArrivesInv
  <2>2. QED
    BY <1>1, <2>1, RereadSound DEF Stores
<1>5. k.group \in H => ~Barred(S, m, k)
  <2>1. DefaultOf(k) = Slot(p[2][1], p[2][2], FALSE, TRUE) /\ DefaultOf(k).group = p[2][1]
    BY <1>1, DefaultIsSlot DEF DefaultOf
  <2>2. Overruled(p) <=> Barred(S, m, k)
    BY <1>1, <2>1 DEF Overruled, Barred
  <2>3. k.group \in H => <<o, p[2][1]>> \in mixed
    BY <1>1 DEF MixedOf
  <2> HIDE DEF k, S, m, H
  <2>4. QED
    BY <2>2, <2>3
<1> HIDE DEF S, m, R, H
<1>6. KeyStored(S, m, R, H, k)
  BY <1>1, <1>3 DEF MapStored
<1>7. ~m[k].dirty
  BY <1>1, <1>2, <1>3 DEF Undirtied
<1> HIDE DEF k
<1>8. ValueOf(R, k) = promised[p]
  BY <1>2, <1>5, <1>6, <1>7 DEF KeyStored
<1>9. Reads(R, p[2]) = ValueOf(R, k)
  BY <1>1, <1>4, ReadsOf DEF ValueOf, k, KeyOf
<1>10. QED
  BY <1>8, <1>9 DEF R

\* What is moved or copied is in the file it was moved to, and no longer in the one it was
\* moved from, once both objects have written theirs (moveValuesTo(), copyTo() and reparent()
\* of KConfigGroup, copyTo() and sync() of KConfig): for any files, groups, names and values,
\* as long as the setup is one that stores.
THEOREM EverythingStays ==
    ASSUME Stores
    PROVE  Spec => []StaysThere
<1>1. Init => ArrivesInv /\ StaysInv
  BY ArrivesInit, StaysInit DEF Stores
<1>2. ArrivesInv /\ StaysInv /\ [Next]_vars => (ArrivesInv /\ StaysInv)'
  BY ArrivesNext, StaysNext
<1>3. ArrivesInv /\ StaysInv => StaysThere
  BY StoredIsShown
<1>4. QED
  BY <1>1, <1>2, <1>3, PTL DEF Spec
=============================================================================
