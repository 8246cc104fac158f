------------------------------ MODULE KEntryMap ------------------------------
(***************************************************************************)
(* The entry map every KConfig object keeps its configuration in           *)
(* (src/core/kconfigdata_p.h, src/core/kconfigdata.cpp).                   *)
(*                                                                         *)
(* std::map<KEntryKey, KEntry> is a total function from EntryKey: a slot   *)
(* that holds no entry is mapped to NoEntry.  Each key of a group has four *)
(* slots, one for every choice of bLocal and bDefault, and a group has a   *)
(* marker, the slot whose name is empty.  The operators below are the      *)
(* methods of KEntryMap: each takes the map and gives back the map the     *)
(* method leaves.                                                          *)
(***************************************************************************)
CONSTANTS
    Groups,    \* group names
    Names,     \* non-empty key names
    Values,    \* what an entry can hold
    NoValue,   \* the null QByteArray
    Marker,    \* the empty key name: the slot of a group's marker
    NoEntry    \* a slot of the map that holds nothing

EntryKey == [group : Groups, name : Names \cup {Marker}, local : BOOLEAN, default : BOOLEAN]

Entry == [value : Values \cup {NoValue}, dirty : BOOLEAN, global : BOOLEAN, immutable : BOOLEAN,
          deleted : BOOLEAN, expand : BOOLEAN, reverted : BOOLEAN, country : BOOLEAN,
          notify : BOOLEAN, overridesGlobal : BOOLEAN]

\* KEntryMap::EntryOption.  EntryRawKey is absent: the names of raw keys carry their locale.
Options == SUBSET {"Dirty", "Global", "Immutable", "Deleted", "Expansion", "LocalizedCountry",
                   "Notify", "Default", "Localized"}

EntryMap == [EntryKey -> Entry \cup {NoEntry}]

ASSUME SentinelAssumption ==
    /\ Marker \notin Names
    /\ NoValue \notin Values
    /\ NoEntry \notin Entry

-----------------------------------------------------------------------------
(* Slots and entries *)

Slot(g, n, l, d) == [group |-> g, name |-> n, local |-> l, default |-> d]

MarkerOf(g) == Slot(g, Marker, FALSE, FALSE)

Has(m, k) == m[k] # NoEntry

\* The entry the default constructor of KEntry builds.
FreshEntry == [value |-> NoValue, dirty |-> FALSE, global |-> FALSE, immutable |-> FALSE,
               deleted |-> FALSE, expand |-> FALSE, reverted |-> FALSE, country |-> FALSE,
               notify |-> FALSE, overridesGlobal |-> FALSE]

EmptyMap == [k \in EntryKey |-> NoEntry]

\* operator== of KEntry: what decides whether a write changes anything.
SameEntry(e1, e2) ==
    /\ e1.global = e2.global
    /\ e1.immutable = e2.immutable
    /\ e1.deleted = e2.deleted
    /\ e1.expand = e2.expand
    /\ e1.value = e2.value

-----------------------------------------------------------------------------
(* Lookups.  l and d are the search flags SearchLocalized, SearchDefaults. *)

\* The slot findEntry() stops at: the localized one when it exists.
FindEntry(m, g, n, l, d) ==
    IF l /\ Has(m, Slot(g, n, TRUE, d)) THEN Slot(g, n, TRUE, d) ELSE Slot(g, n, FALSE, d)

\* getEntry() with NoValue for the caller's default.
GetEntry(m, g, n, l, d) ==
    LET k == FindEntry(m, g, n, l, d)
    IN  IF Has(m, k) /\ ~m[k].deleted THEN m[k].value ELSE NoValue

\* getEntryOption(group, key, flags, EntryImmutable).
IsImmutable(m, k) == Has(m, k) /\ m[k].immutable

GroupIsImmutable(m, g) == IsImmutable(m, MarkerOf(g))

-----------------------------------------------------------------------------
(* setEntry() *)

\* Mutants: the checks of setEntry() are missing, and the one of the group is.
RefusedUnguarded(m, k) == FALSE
RefusedIgnoringGroup(m, k) == IsImmutable(m, k)

\* The call is turned away: the entry, or for a new key its group, is immutable.
Refused(m, k) == IF Has(m, k) THEN m[k].immutable ELSE GroupIsImmutable(m, k.group)

\* What setEntry() starts from.
Found(m, k) == IF Has(m, k) THEN m[k] ELSE FreshEntry

\* Mutant: a write does not end the reverted state.
StoredOverStillReverted(old, k, v, o) ==
    [old EXCEPT !.value = v, !.dirty = old.dirty \/ "Dirty" \in o, !.global = "Global" \in o,
                !.immutable = old.immutable \/ "Immutable" \in o,
                !.deleted = v = NoValue /\ (old.deleted \/ "Deleted" \in o),
                !.expand = "Expansion" \in o, !.notify = old.notify \/ "Notify" \in o]

\* The entry setEntry() computes for slot k from the one it found there.
StoredOver(old, k, v, o) ==
    [value     |-> v,
     dirty     |-> old.dirty \/ "Dirty" \in o,
     global    |-> "Global" \in o,
     immutable |-> old.immutable \/ "Immutable" \in o,
     deleted   |-> v = NoValue /\ (old.deleted \/ "Deleted" \in o),
     expand    |-> "Expansion" \in o,
     reverted  |-> FALSE,
     country   |-> "Localized" \in o /\ "LocalizedCountry" \in o,
     notify    |-> old.notify \/ "Notify" \in o,
     overridesGlobal |-> \/ old.overridesGlobal
                         \/ old.global /\ "Global" \notin o /\ ~k.default]

Stored(m, k, v, o) == StoredOver(Found(m, k), k, v, o)

\* Which way through setEntry() the call takes that wants e in slot k.
OutcomeOf(m, k, e) ==
    IF Refused(m, k) THEN "refused"
    ELSE IF ~Has(m, k) THEN (IF e.deleted THEN "insertedDeleted" ELSE "inserted")
    ELSE IF k.local /\ m[k].country /\ ~e.country THEN "lessSpecific"
    ELSE IF SameEntry(m[k], e) THEN "unchanged" ELSE "changed"

Outcome(m, k, v, o) == OutcomeOf(m, k, Stored(m, k, v, o))

\* Mutant: a new key does not make its group.
EnsureMarkerNot(m, g) == m

\* A new key makes its group.
EnsureMarker(m, g) ==
    IF Has(m, MarkerOf(g)) THEN m ELSE [m EXCEPT ![MarkerOf(g)] = FreshEntry]

\* insert_or_assign(k, e) or it->second = e.
AssignAs(m, k, e, out) ==
    CASE out \in {"inserted", "insertedDeleted"} -> [EnsureMarker(m, k.group) EXCEPT ![k] = e]
      [] out = "changed" -> [m EXCEPT ![k] = e]
      [] OTHER -> m

Assign(m, k, v, o) == AssignAs(m, k, Stored(m, k, v, o), Outcome(m, k, v, o))

\* Mutants: a changed entry does not replace the localized one, and the localized default always
\* goes with it.
DropLocalizedUnchanged(m, k, out) ==
    IF out = "unchanged" /\ ~k.local
    THEN [m EXCEPT ![Slot(k.group, k.name, TRUE, FALSE)] = NoEntry] ELSE m
DropLocalizedDefault(m, k, out) ==
    IF out \in {"changed", "unchanged"} /\ ~k.local
    THEN [m EXCEPT ![Slot(k.group, k.name, TRUE, FALSE)] = NoEntry,
                   ![Slot(k.group, k.name, TRUE, TRUE)] = NoEntry] ELSE m

\* "non-localized entry, remove localized one": for a key that was found, changed or not.  On
\* behalf of a default the localized default goes, too.
DropLocalized(m, k, out) ==
    IF out \in {"changed", "unchanged"} /\ ~k.local
    THEN [m EXCEPT ![Slot(k.group, k.name, TRUE, FALSE)] = NoEntry,
                   ![Slot(k.group, k.name, TRUE, TRUE)] = IF k.default THEN NoEntry ELSE @]
    ELSE m

\* setEntry() without EntryDefault.
SetPlain(m, k, v, o) == DropLocalized(Assign(m, k, v, o), k, Outcome(m, k, v, o))

\* setEntry() for a key name that is not empty.  With EntryDefault a slot that took the
\* value hands it on to the slot that is no default.
SetEntry(m, g, n, v, o) ==
    LET k   == Slot(g, n, "Localized" \in o, "Default" \in o)
        out == Outcome(m, k, v, o)
        own == Assign(m, k, v, o)
    IN  IF k.default /\ out \in {"inserted", "changed"}
        THEN DropLocalized(SetPlain(own, Slot(g, n, k.local, FALSE), v, o \ {"Default"}), k, out)
        ELSE DropLocalized(own, k, out)

\* Mutant: changing an entry that exists does not count.
SetEntryDirtiesNew(m, g, n, v, o) ==
    Outcome(m, Slot(g, n, "Localized" \in o, "Default" \in o), v, o) = "inserted"

\* What that call returns.
SetEntryDirties(m, g, n, v, o) ==
    LET k   == Slot(g, n, "Localized" \in o, "Default" \in o)
        out == Outcome(m, k, v, o)
    IN  \/ out \in {"inserted", "changed"}
        \/ /\ out = "unchanged" /\ ~k.local
           /\ \/ Has(m, Slot(g, n, TRUE, FALSE))
              \/ k.default /\ Has(m, Slot(g, n, TRUE, TRUE))

\* setEntry() for the empty key name with EntryImmutable: the group's marker.
LockedMarker == [FreshEntry EXCEPT !.immutable = TRUE]

-----------------------------------------------------------------------------
(* revertEntry(), which no caller gives a search flag *)

RevertDirties(m, g, n) ==
    LET k == Slot(g, n, FALSE, FALSE) IN Has(m, k) /\ ~m[k].reverted

RevertEntry(m, g, n, o) ==
    LET k == Slot(g, n, FALSE, FALSE)
        d == Slot(g, n, FALSE, TRUE)
        base == IF Has(m, d) THEN m[d] ELSE [m[k] EXCEPT !.value = NoValue]
    IN  IF RevertDirties(m, g, n)
        THEN [m EXCEPT ![k] = [base EXCEPT !.notify = base.notify \/ "Notify" \in o,
                                           !.dirty = TRUE, !.reverted = TRUE]]
        ELSE m

\* Mutant: markAsClean() leaves the entries alone.
CleanEntriesNot(m) == m

\* KConfig::markAsClean(): no entry is dirty or to be notified any more.
CleanEntries(m) ==
    [k \in DOMAIN m |-> IF Has(m, k) THEN [m[k] EXCEPT !.dirty = FALSE, !.notify = FALSE]
                        ELSE NoEntry]
=============================================================================
