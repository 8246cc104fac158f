----------------------------- MODULE KConfigCalls -----------------------------
(***************************************************************************)
(* What the calls of an application do to the entry map of a KConfig       *)
(* object (src/core/kconfig.cpp, src/core/kconfiggroup.cpp), and how the   *)
(* object reads its files.  KConfigCascade and KConfig put these operators *)
(* into actions.                                                           *)
(***************************************************************************)
EXTENDS KConfigIni

CONSTANT SubGroups    \* each group's own name and the names of the groups below it

ASSUME CallsAssumption ==
    /\ SubGroups \in [Groups -> SUBSET Groups]
    /\ \A g \in Groups : g \in SubGroups[g]
    /\ \A g \in Groups \ {NoGroup} : NoGroup \notin SubGroups[g]

\* convertToOptions(), and EntryExpansion for writePathEntry().
AppOptions == SUBSET {"Dirty", "Global", "Localized", "Notify", "Expansion"}

\* putData() asks for EntryDeleted when there is no value.
PutOptions(v, o) == o \cup When(v = NoValue, "Deleted")

PutMap(m, g, n, v, o) == SetEntry(m, g, n, v, PutOptions(v, o))

\* putData() sets bDirty.
PutDirties(m, g, n, v, o) == "Dirty" \in o /\ SetEntryDirties(m, g, n, v, PutOptions(v, o))

\* keyListImpl(): the keys with an entry that is not deleted, defaults included; none can be
\* found in a group without a marker.
KeyList(m, g) ==
    IF ~Has(m, MarkerOf(g)) THEN {}
    ELSE {n \in Names : \E l, d \in BOOLEAN : Has(m, Slot(g, n, l, d))
                                               /\ ~m[Slot(g, n, l, d)].deleted}

\* The keys deleteGroupImpl() deletes, in the group and in those below it: canWriteEntry().
Deletable(m, fileImmutable, g) ==
    {k \in EntryKey :
        /\ ~fileImmutable
        /\ k.group \in SubGroups[g] /\ k.name \in KeyList(m, k.group)
        /\ ~IsImmutable(m, FindEntry(m, k.group, k.name, TRUE, FALSE))}

\* deleteGroupImpl().  Its calls of setEntry() are for different keys and do not meet.
DeleteGroupMap(m, fileImmutable, g, o) ==
    LET chosen == Deletable(m, fileImmutable, g)
    IN  [k \in EntryKey |-> IF k \in chosen
                            THEN SetEntry(m, k.group, k.name, NoValue, o \cup {"Deleted"})[k]
                            ELSE m[k]]

\* Mutant: deleteGroupImpl() does not set bDirty.
DeleteGroupDirtiesNot(m, fileImmutable, g) == FALSE

DeleteGroupDirties(m, fileImmutable, g) == Deletable(m, fileImmutable, g) # {}
=============================================================================
