----------------------------- MODULE KConfigCopy -----------------------------
(***************************************************************************)
(* Entries on their way from one group or object to another                *)
(* (src/core/kconfiggroup.cpp: copyTo(), reparent(), moveValuesTo();       *)
(* src/core/kconfig.cpp: copyTo(), copyFrom(), copyGroup()), and whether   *)
(* they are still there once both objects were synced and are read again.  *)
(*                                                                         *)
(* Each object has one system file and one file of its own.  kdeglobals,   *)
(* other programs and files that cannot be written are the business of     *)
(* KConfig, groups within groups that of KConfigCalls.  Calls are made     *)
(* without Global and Localized.                                           *)
(***************************************************************************)
EXTENDS KConfigCalls

CONSTANTS
    Objects,       \* KConfig objects, each with a file of its own
    SystemFile,    \* the system's file of each object
    OwnFiles,      \* what each object's own file may hold
    Places,        \* the keys that are looked at, as <<group, name>>
    CallOptions,   \* the option sets of the calls
    InPlace,       \* whether a group is reparented to where it is already
    MaxCalls,      \* bound: calls of the application
    Unknown        \* nothing is promised of a key

ASSUME CopyAssumption ==
    /\ SystemFile \in [Objects -> Seq(Line)]
    /\ \A o \in Objects : OwnFiles[o] \subseteq Seq(Line)
    /\ Places \subseteq (Groups \ {NoGroup}) \X PlainNames
    /\ \A s, t \in Places : s[1] \in SubGroups[t[1]] => s[1] = t[1]
    /\ CallOptions \subseteq SUBSET {"Dirty", "Notify"}
    /\ InPlace \in BOOLEAN
    /\ MaxCalls \in Nat
    /\ Unknown \notin Values \cup {NoValue}

VARIABLES
    entryMap, bDirty,   \* KConfigPrivate of each object
    file,               \* the lines of each object's own file
    promised,           \* history: what each key is to read as after the calls
    mixed,              \* history: the groups that got entries of another, defaults included
    calls               \* calls so far

vars == <<entryMap, bDirty, file, promised, mixed, calls>>

\* reparseConfiguration(): the system's file, and then the object's own.
SystemMap(o) ==
    ParseConfig(EmptyMap, SystemFile[o],
                [default |-> TRUE, global |-> FALSE, merging |-> FALSE]).map

Reread(o, lines) ==
    ParseConfig(SystemMap(o), lines,
                [default |-> FALSE, global |-> FALSE, merging |-> FALSE]).map

\* The groups the calls are about.
PlaceGroups == {t[1] : t \in Places}

Reads(m, t) == GetEntry(m, t[1], t[2], TRUE, FALSE)

Init ==
    /\ file \in {f \in [Objects -> UNION {OwnFiles[o] : o \in Objects}] :
                    \A o \in Objects : f[o] \in OwnFiles[o]}
    /\ entryMap = [o \in Objects |-> Reread(o, file[o])]
    /\ bDirty = [o \in Objects |-> FALSE]
    /\ promised = [p \in Objects \X Places |-> Unknown]
    /\ mixed = {}
    /\ calls = 0

-----------------------------------------------------------------------------
(* The calls *)

Call == calls < MaxCalls /\ calls' = calls + 1 /\ UNCHANGED file

\* An object in the middle of a call: its entry map, and whether it is dirty.
Object(m, d) == [map |-> m, dirty |-> d]

Of(o) == Object(entryMap[o], bDirty[o])

\* The objects of a call as it leaves them.
Leave(changed) ==
    /\ entryMap' = [o \in Objects |-> IF o \in DOMAIN changed THEN changed[o].map
                                      ELSE entryMap[o]]
    /\ bDirty' = [o \in Objects |-> IF o \in DOMAIN changed THEN changed[o].dirty ELSE bDirty[o]]

\* A value for key t of object o is promised when it may be changed and is to be kept; what
\* moves or copies without Persistent, or to a locked key, is promised nothing.
Promise(o, t, v, options) ==
    IF "Dirty" \in options /\ ~Refused(entryMap[o], Slot(t[1], t[2], FALSE, FALSE))
    THEN v ELSE Unknown

Promises(new) ==
    promised' = [p \in Objects \X Places |-> IF p \in DOMAIN new THEN new[p] ELSE promised[p]]

DeleteEntry(x, g, n, o) ==
    Object(PutMap(x.map, g, n, NoValue, o), x.dirty \/ PutDirties(x.map, g, n, NoValue, o))

SetEntryData(x, g, n, v, o) ==
    Object(SetEntry(x.map, g, n, v, o), x.dirty \/ SetEntryDirties(x.map, g, n, v, o))

\* The entry moveValue() finds, unless it is null or of kdeglobals.
Movable(m, g, n) ==
    {m[k] : k \in {j \in {FindEntry(m, g, n, TRUE, FALSE)} :
                      Has(m, j) /\ m[j].value # NoValue /\ ~m[j].global}}

\* The options of the new entry do not depend on those of the call.
MovedOptions(e) == {"Dirty"} \cup When(e.expand, "Expansion")

\* moveValue(): the key is deleted here, and then written there.
MoveValue(from, g, n, to, h, o) ==
    /\ Call
    /\ \E e \in Movable(entryMap[from], g, n) :
          LET deleted == DeleteEntry(Of(from), g, n, o)
              There(x) == SetEntryData(x, h, n, e.value, MovedOptions(e))
          IN  /\ Leave(IF from = to THEN [x \in {to} |-> There(deleted)]
                       ELSE [x \in {from, to} |-> IF x = from THEN deleted ELSE There(Of(to))])
              /\ Promises([p \in {<<from, <<g, n>> >>, <<to, <<h, n>> >>} |->
                              IF p = <<to, <<h, n>> >>
                              THEN Promise(to, <<h, n>>, e.value, {"Dirty"})
                              ELSE Promise(from, <<g, n>>, NoValue, o)])
              /\ UNCHANGED mixed

CopiedEntry(e, o) == [e EXCEPT !.dirty = "Dirty" \in o, !.notify = @ \/ "Notify" \in o]

\* The entries of the group, defaults and marker included, replace those of the other group,
\* locked or not.
CopyMap(source, g, target, h, o) ==
    [k \in EntryKey |->
        LET origin == [k EXCEPT !.group = g]
        IN  IF k.group = h /\ Has(source, origin) THEN CopiedEntry(source[origin], o)
            ELSE target[k]]

HasGroup(m, g) == \E k \in EntryKey : k.group = g /\ Has(m, k)

\* Mutant: the other object does not know that it has changed.
CopyGroupClean(from, g, x, h, o) == Object(CopyMap(entryMap[from], g, x.map, h, o), x.dirty)

\* copyGroup() from an object to x.
CopyGroup(from, g, x, h, o) ==
    Object(CopyMap(entryMap[from], g, x.map, h, o),
           x.dirty \/ (HasGroup(entryMap[from], g) /\ "Dirty" \in o))

HasEntry(m, t) == Has(m, FindEntry(m, t[1], t[2], TRUE, FALSE))

\* What a copy of a group promises.
CopyPromises(from, g, to, h, o) ==
    [p \in {<<to, t>> : t \in {t \in Places : /\ t[1] = h
                                            /\ HasEntry(entryMap[from], <<g, t[2]>>)}} |->
        Promise(to, p[2], Reads(entryMap[from], <<g, p[2][2]>>), o)]

\* KConfigGroup::copyTo() to another group.
CopyTo(from, g, to, h, o) ==
    /\ Call
    /\ Leave([x \in {to} |-> CopyGroup(from, g, Of(to), h, o)])
    /\ Promises(CopyPromises(from, g, to, h, o))
    /\ mixed' = mixed \cup {<<to, h>>}

\* Mutant: reparent() leaves the old group alone.
DeleteGroupNot(x, g) == x

DeleteGroup(x, g) ==
    Object(DeleteGroupMap(x.map, FALSE, g, {"Dirty"}),
           x.dirty \/ DeleteGroupDirties(x.map, FALSE, g))

\* The keys of the old group that deleteGroup() may delete are gone.
DeletePromises(from, g) ==
    [p \in {<<from, t>> : t \in {t \in Places : t[1] = g /\ HasEntry(entryMap[from], t)}} |->
        Promise(from, p[2], NoValue, {"Dirty"})]

\* The one group is deleted once the other has its entries.
ReparentPromises(from, g, to, h, o) ==
    LET gone == DeletePromises(from, g)
        new  == CopyPromises(from, g, to, h, o)
    IN  [p \in DOMAIN gone \cup DOMAIN new |-> IF p \in DOMAIN gone THEN gone[p] ELSE new[p]]

\* reparent(): copyTo(), and then deleteGroup() for the old group.
Reparent(from, g, to, h, o) ==
    LET copied == CopyGroup(from, g, Of(to), h, o)
    IN  /\ Call
        /\ ~GroupIsImmutable(entryMap[from], g)
        /\ Leave(IF from = to THEN [x \in {to} |-> DeleteGroup(copied, g)]
                 ELSE [x \in {from, to} |-> IF x = from THEN DeleteGroup(Of(from), g) ELSE copied])
        /\ Promises(ReparentPromises(from, g, to, h, o))
        /\ mixed' = mixed \cup {<<to, h>>}

\* KConfig::copyTo() and copyFrom(): the other object gets every entry, each of them dirty.
CopyAll(from, to) ==
    /\ Call
    /\ Leave([x \in {to} |->
                 Object([k \in EntryKey |-> IF Has(entryMap[from], k)
                                            THEN [entryMap[from][k] EXCEPT !.dirty = TRUE]
                                            ELSE NoEntry], TRUE)])
    /\ Promises([p \in {to} \X Places |->
                    IF HasEntry(entryMap[from], p[2])
                    THEN Promise(to, p[2], Reads(entryMap[from], p[2]), {"Dirty"}) ELSE Unknown])
    /\ mixed' = mixed \cup ({to} \X Groups)

-----------------------------------------------------------------------------

\* sync(), when all goes well.
Sync(o) ==
    LET w == WriteConfig(entryMap[o], file[o], FALSE)
    IN  /\ IF bDirty[o]
           THEN /\ Leave([x \in {o} |-> Object(w.map, ~w.ok)])
                /\ file' = [file EXCEPT ![o] = w.file]
           ELSE UNCHANGED <<entryMap, bDirty, file>>
        /\ UNCHANGED <<promised, mixed, calls>>

Next ==
    \/ \E from, to \in Objects, g, h \in PlaceGroups, o \in CallOptions :
          \/ \E n \in PlainNames : MoveValue(from, g, n, to, h, o)
          \/ CopyTo(from, g, to, h, o)
          \/ /\ InPlace \/ <<from, g>> # <<to, h>>
             /\ Reparent(from, g, to, h, o)
    \/ \E from, to \in Objects : from # to /\ CopyAll(from, to)
    \/ \E o \in Objects : Sync(o)

Spec == Init /\ [][Next]_vars

-----------------------------------------------------------------------------
(* Safety *)

\* Whatever other calls came between, a key reads as the last one that concerns it wants it:
\* as the value that was moved or copied there, or as none when it was taken away.
Arrives ==
    \A p \in Objects \X Places :
        promised[p] # Unknown => Reads(entryMap[p[1]], p[2]) = promised[p]

\* The keys that are stored as they are shown.
StoredAsShown(p) ==
    ~bDirty[p[1]] => Reads(Reread(p[1], file[p[1]]), p[2]) = promised[p]

\* The key has a default, in the object or in the system's file, or that file locks its group.
Overruled(p) ==
    LET k == Slot(p[2][1], p[2][2], FALSE, TRUE)
        system == SystemMap(p[1])
    IN  Has(entryMap[p[1]], k) \/ Has(system, k) \/ GroupIsImmutable(system, k.group)

\* The same after both objects were synced and are read again: the value is in one of the
\* files, the one it was moved to, and not in both or neither.  Copies of whole groups and
\* objects, which replace locks and defaults in memory, keep this promise for the keys that
\* are not overruled only (see CopiesStay).
StaysThere ==
    \A p \in Objects \X Places :
        promised[p] # Unknown /\ (<<p[1], p[2][1]>> \in mixed => ~Overruled(p)) => StoredAsShown(p)

-----------------------------------------------------------------------------
(* What the documentation says and the code does not do: each is refuted by a run *)

\* "Copies all entries from this config object": the copy is what is read again.
CopiesStay == \A p \in Objects \X Places : promised[p] # Unknown => StoredAsShown(p)

\* "If parent is already the parent of this group, this method will have no effect."
NoEffectInPlace ==
    [][\A x \in Objects, g \in PlaceGroups, o \in CallOptions :
          Reparent(x, g, x, g, o) =>
              \A t \in Places : Reads(entryMap'[x], t) = Reads(entryMap[x], t)]_vars
=============================================================================
