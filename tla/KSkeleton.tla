------------------------------ MODULE KSkeleton ------------------------------
(***************************************************************************)
(* KCoreConfigSkeleton and its items (src/core/kcoreconfigskeleton.h and   *)
(* .cpp), and the setters and signals that kconfig_compiler generates for  *)
(* them (src/kconfig_compiler/).                                           *)
(*                                                                         *)
(* An item stands between a variable of the program (ref) and a key of a   *)
(* KConfig object.  It also keeps the value it last read or wrote and the  *)
(* default, which was read when the item was added.  Of the KConfig object *)
(* there is what an item can tell: for each key the user's own text, what  *)
(* is dirty, and the file; KConfig and KConfigIni have the rest.           *)
(***************************************************************************)
EXTENDS Integers

CONSTANTS
    Items,          \* the items of a skeleton, each with a key of its own
    Names,          \* the names under which the skeleton knows them
    NameOf,         \* the name the generated code has for each item
    OtherNames,     \* the names the program may give it instead
    Kind,           \* "number", "enum", "password", "path" or, for any other type, "plain"
    Choices,        \* for an ItemEnum its choices, in order
    Builtin,        \* the default in the code
    Low, High,      \* setMinValue() and setMaxValue() of a number
    Signalling,     \* the items in a KConfigCompilerSignallingItem
    Values,         \* what the program sets each item to
    OtherTexts,     \* what other programs write for it
    Systems,        \* what the system's files may be: for each item a text and a lock
    LaterSystems,   \* updates of the system's files
    Troubles,       \* what may go wrong in a sync
    Programs,       \* the items a program has, and whether it has a KConfigPropertyMap for them
    Absent, NoItem, NoBound  \* no text, no item, no bound

ASSUME SkeletonAssumption ==
    /\ NameOf \in [Items -> Names] /\ OtherNames \in [Items -> SUBSET Names]
    /\ Kind \in [Items -> {"number", "enum", "password", "path", "plain"}]
    /\ Builtin \in [Items -> Int]
    /\ Low \in [Items -> Int \cup {NoBound}] /\ High \in [Items -> Int \cup {NoBound}]
    /\ Programs \subseteq [items : SUBSET Items, mapped : BOOLEAN]
    /\ Signalling \subseteq Items
    /\ Values \in [Items -> SUBSET Int]
    /\ Troubles \subseteq {"none", "lock", "write"}
    /\ NoItem \notin Items

\* A text of item i that is a number has one, and so has a path.
IsText(i, t) == t[1] = "number" \/ Kind[i] = "path" => t[2] \in Int

ASSUME TextAssumption ==
    /\ \A i \in Items :
          /\ \A t \in OtherTexts[i] : IsText(i, t)
          /\ \A s \in Systems \cup LaterSystems : s[i].text = Absent \/ IsText(i, s[i].text)
          /\ DOMAIN Choices[i] \subseteq Nat
          /\ \A c \in DOMAIN Choices[i] : IsText(i, Choices[i][c]) /\ Choices[i][c] # Absent
    /\ Absent \notin {"number", "path"} \X Int

VARIABLES
    program,    \* the program that runs
    listed,     \* mItems
    dict,       \* mItemDict
    name,       \* KConfigSkeletonItem::mName
    ref,        \* mReference, the variable of the program
    default,    \* mDefault
    loaded,     \* mLoadedValue
    useDefaults,\* mUseDefaults
    changed,    \* mSettingsChanged of the generated class
    heard,      \* what each item was when its signal was emitted last
    own,        \* the user's entry for each key, in memory
    dirty,      \* the keys with a dirty entry
    bDirty,     \* KConfig::isDirty()
    disk,       \* the file
    system      \* the system's files, as the object has read them

skeleton == <<program, listed, dict, name>>
items == <<ref, default, loaded>>
object == <<own, dirty, bDirty>>
vars == <<skeleton, items, useDefaults, changed, heard, object, disk, system>>

-----------------------------------------------------------------------------
(* Values and texts *)

NumberText(v) == <<"number", v>>

\* ItemEnum::writeConfig(): a choice is stored by its name, any other value as a number.
PrintEnum(i, v) == IF v + 1 \in DOMAIN Choices[i] THEN Choices[i][v + 1] ELSE NumberText(v)

\* obscuredString(), which undoes itself.
Obscured(v) == -1 - v

\* ItemString::writeConfig(): a path is stored by writePathEntry(), a password obscured.
PrintString(i, v) == IF Kind[i] = "path" THEN <<"path", v>> ELSE NumberText(Obscured(v))

PrintItem(i, v) ==
    CASE Kind[i] = "enum" -> PrintEnum(i, v)
      [] Kind[i] \in {"path", "password"} -> PrintString(i, v)
      [] OTHER -> NumberText(v)

\* readEntry(key, int): a text that is no number reads as the default.
ParseInt(t, d) == IF t # Absent /\ t[1] = "number" THEN t[2] ELSE d

AtLeast(v, lo) == IF lo # NoBound /\ v < lo THEN lo ELSE v

AtMost(v, hi) == IF hi # NoBound /\ v > hi THEN hi ELSE v

Clamp(i, v) == AtMost(AtLeast(v, Low[i]), High[i])

\* readConfig() of ItemInt, ItemLongLong, ItemUInt, ItemULongLong and ItemDouble: the value is
\* brought into the range.
ParseNumber(i, t) == Clamp(i, ParseInt(t, Builtin[i]))

\* ItemEnum::readConfig(): the first choice that has the text, or else a number, in range or not.
ParseEnum(i, t) ==
    LET matching == {c \in DOMAIN Choices[i] : Choices[i][c] = t}
    IN  IF matching = {} THEN ParseInt(t, Builtin[i])
        ELSE (CHOOSE c \in matching : \A e \in matching : c <= e) - 1

\* ItemString::readConfig(): what another program wrote is a path or not.  The default of a
\* password is obscured, too, before it is read.
ParseString(i, t) ==
    IF Kind[i] = "path" THEN IF t = Absent THEN Builtin[i] ELSE t[2]
    ELSE Obscured(ParseInt(t, Obscured(Builtin[i])))

\* readConfig() of the other types.
ParsePlain(i, t) == ParseInt(t, Builtin[i])

ParseItem(i, t) ==
    CASE Kind[i] = "number" -> ParseNumber(i, t)
      [] Kind[i] = "enum" -> ParseEnum(i, t)
      [] Kind[i] = "plain" -> ParsePlain(i, t)
      [] OTHER -> ParseString(i, t)

-----------------------------------------------------------------------------
(* The KConfig object.  A record c has its own, dirty and bDirty. *)

Locked(s) == {i \in Items : s[i].locked}

\* lookupData(), with the defaults only after setReadDefaults(true).
Lookup(o, s, i) == IF o[i] = Absent THEN s[i].text ELSE o[i]

Now == [own |-> own, dirty |-> dirty, bDirty |-> bDirty]

HasDefault(i) == system[i].text # Absent

\* writeEntry(): a locked key and a text that is there already change nothing.
WriteEntry(c, i, t) ==
    IF i \in Locked(system) \/ t = Lookup(c.own, system, i) THEN c
    ELSE [own |-> [c.own EXCEPT ![i] = t], dirty |-> c.dirty \cup {i}, bDirty |-> TRUE]

\* revertToDefault() of a key without a default.
Revert(c, i) ==
    IF c.own[i] = Absent THEN c
    ELSE [own |-> [c.own EXCEPT ![i] = Absent], dirty |-> c.dirty \cup {i}, bDirty |-> TRUE]

Stored(c) == [i \in Items |-> IF i \in c.dirty THEN c.own[i] ELSE disk[i]]

\* sync() of an object with pending changes: it gives up without the lock, and when the file cannot
\* be written the entries are no longer dirty, but the object is.
SyncedObject(c, t) ==
    IF ~c.bDirty \/ t = "lock" THEN c
    ELSE [c EXCEPT !.dirty = {}, !.bDirty = t = "write" /\ c.dirty # {}]

SyncedDisk(c, t) == IF c.bDirty /\ t = "none" THEN Stored(c) ELSE disk

\* An object that is dirty without a dirty entry has nothing to write and cannot fail to.
SyncOk(c, t) == ~c.bDirty \/ t = "none" \/ (t = "write" /\ c.dirty = {})

Apply(c) == own' = c.own /\ dirty' = c.dirty /\ bDirty' = c.bDirty

-----------------------------------------------------------------------------
(* The items *)

\* Mutant: a change is not told.
NotifyNot(before) == changed' = changed

\* KConfigCompilerSignallingItem: the items whose value is another one than before.
Told(before, after) == changed \cup {i \in Signalling \cap listed : after[i] # before[i]}

Notify(before) == changed' = Told(before, ref')

Current(o, s, i) == ParseItem(i, Lookup(o, s, i))

DefaultOf(s, i) == ParseItem(i, s[i].text)

Default(i) == DefaultOf(system, i)

\* Mutants: every item is written, and only those that are not at their default.
ToWriteAll(i, r) == i \in listed
ToWriteNoDefault(i, r) == i \in listed /\ r[i] # default[i]

\* mReference != mLoadedValue, "Is this needed?"
ToWrite(i, r) == i \in listed /\ r[i] # loaded[i]

\* writeConfig(): the default is not written, but the entry removed, unless the system has one.
WriteConfig(c, i, v) ==
    IF default[i] = v /\ ~HasDefault(i) THEN Revert(c, i)
    ELSE WriteEntry(c, i, PrintItem(i, v))

\* writeConfig() of all items, with values r.  Each has its own key.
WriteItems(c, r) ==
    LET w == [i \in Items |-> IF ToWrite(i, r) THEN WriteConfig(c, i, r[i]) ELSE c]
    IN  [own    |-> [i \in Items |-> w[i].own[i]],
         dirty  |-> {i \in Items : i \in w[i].dirty},
         bDirty |-> \E i \in Items : w[i].bDirty]

-----------------------------------------------------------------------------
(* The skeleton *)

RemovedName(d, n) == [d EXCEPT ![n] = NoItem]

\* Mutant: the old name stays.
NamedAnew(i, n) == [dict EXCEPT ![n] = i]

\* addItem(): a listed item gives up its old name.
Named(i, n) ==
    [(IF i \in listed THEN RemovedName(dict, name[i]) ELSE dict) EXCEPT ![n] = i]

\* addItem(): readDefault() and readConfig().  readDefault() tells nobody that it changes the value
\* on the way; what was heard of a listed item before does not count any more.
AddItem(i, n) ==
    /\ i \in program.items
    /\ i \notin listed \/ name[i] # n
    /\ dict' = Named(i, n)
    /\ name' = [name EXCEPT ![i] = n]
    /\ listed' = listed \cup {i}
    /\ ref' = [ref EXCEPT ![i] = Current(own, system, i)]
    /\ default' = [default EXCEPT ![i] = Default(i)]
    /\ loaded' = [loaded EXCEPT ![i] = ref'[i]]
    /\ heard' = [heard EXCEPT ![i] = ref'[i]]
    /\ changed' = IF i \in listed
                  THEN changed \cup {s \in Signalling \cap {i} : ref'[i] # Default(i)}
                  ELSE changed \ {i}
    /\ UNCHANGED <<program, useDefaults, object, disk, system>>

\* addItemString() and the others make an item and add it.
AddItemX(i, n) == i \notin listed /\ AddItem(i, n)

Rename(i, n) == i \in listed /\ AddItem(i, n)

\* The items in gone are deleted.  What was in them does not matter any more.
Delete(gone, d) ==
    /\ listed' = listed \ gone
    /\ dict' = d
    /\ name' = [i \in Items |-> IF i \in gone THEN NameOf[i] ELSE name[i]]
    /\ ref' = [i \in Items |-> IF i \in gone THEN Builtin[i] ELSE ref[i]]
    /\ default' = [i \in Items |-> IF i \in gone THEN Builtin[i] ELSE default[i]]
    /\ loaded' = [i \in Items |-> IF i \in gone THEN Builtin[i] ELSE loaded[i]]
    /\ heard' = [i \in Items |-> IF i \in gone THEN Builtin[i] ELSE heard[i]]
    /\ changed' = changed \ gone
    /\ UNCHANGED <<program, useDefaults, object, disk, system>>

\* removeItem(): the item the name leads to.
RemoveItem(n) == dict[n] # NoItem /\ Delete({dict[n]}, RemovedName(dict, name[dict[n]]))

ClearItems == listed # {} /\ Delete(listed, [n \in Names |-> NoItem])

\* isImmutable(name): an item there is not cannot be changed.
IsImmutable(n) == dict[n] = NoItem \/ dict[n] \in Locked(system)

Set(i, v) ==
    /\ ref' = [ref EXCEPT ![i] = v]
    /\ Notify(ref)
    /\ UNCHANGED <<skeleton, default, loaded, useDefaults, heard, object, disk, system>>

\* The generated setX(v).
SetX(i, v) ==
    /\ i \in listed /\ ~IsImmutable(NameOf[i])
    /\ Set(i, Clamp(i, v))

\* setProperty() heeds neither the range nor a lock.
SetProperty(i, v) == i \in listed /\ Set(i, v)

\* setDefaults() and setDefault().
SetDefaults ==
    /\ ref' = [i \in Items |-> IF i \in listed THEN default[i] ELSE ref[i]]
    /\ Notify(ref)
    /\ UNCHANGED <<skeleton, default, loaded, useDefaults, heard, object, disk, system>>

\* useDefaults(b) and swapDefault().
UseDefaults(b) ==
    /\ b # useDefaults
    /\ useDefaults' = b
    /\ ref' = [i \in Items |-> IF i \in listed THEN default[i] ELSE ref[i]]
    /\ default' = [i \in Items |-> IF i \in listed THEN ref[i] ELSE default[i]]
    /\ Notify(ref)
    /\ UNCHANGED <<skeleton, loaded, heard, object, disk, system>>

\* read(): readConfig() of all items, from an object with entries o over the system's files s.
ReadFrom(o, s) ==
    /\ ref' = [i \in Items |-> IF i \in listed THEN Current(o, s, i) ELSE ref[i]]
    /\ loaded' = [i \in Items |-> IF i \in listed THEN ref'[i] ELSE loaded[i]]
    /\ Notify(ref)
    /\ UNCHANGED <<skeleton, default, useDefaults, heard>>

Read == ReadFrom(own, system) /\ UNCHANGED <<object, disk, system>>

\* load(): reparseConfiguration() stores what is pending and reads the files, those of the system
\* too, which may have been updated.  What the user's file has for a locked key does not count.
Load(t, s) ==
    /\ system' = s
    /\ disk' = SyncedDisk(Now, t)
    /\ own' = [i \in Items |-> IF i \in Locked(s) THEN Absent ELSE disk'[i]]
    /\ dirty' = {}
    /\ bDirty' = SyncedObject(Now, t).bDirty
    /\ ReadFrom(own', s)

\* usrSave() of the generated class emits the signals, before the sync.
EmitSignals(told, r) ==
    /\ heard' = [i \in Items |-> IF i \in told THEN r[i] ELSE heard[i]]
    /\ changed' = {}

SaveTo(c, t) == Apply(SyncedObject(c, t)) /\ disk' = SyncedDisk(c, t)

\* save(), when the items have the values r: they are written to the object and count as stored,
\* the signals go out, and the object is synchronized.
SaveValues(r, t) ==
    /\ ref' = r
    /\ loaded' = [i \in Items |-> IF i \in listed THEN r[i] ELSE loaded[i]]
    /\ EmitSignals(Told(ref, r), r)
    /\ SaveTo(WriteItems(Now, r), t)
    /\ UNCHANGED <<skeleton, default, useDefaults, system>>

Save(t) == SaveValues(ref, t)

\* save() emits configChanged() when it had something to synchronize and could.
ConfigChanged(r, t) == WriteItems(Now, r).bDirty /\ SyncOk(WriteItems(Now, r), t)

-----------------------------------------------------------------------------
(* Others *)

OtherProgram(i, t) ==
    /\ i \in program.items
    /\ disk' = [disk EXCEPT ![i] = t]
    /\ UNCHANGED <<skeleton, items, useDefaults, changed, heard, object, system>>

-----------------------------------------------------------------------------

Init ==
    /\ program \in Programs
    /\ listed = {}
    /\ dict = [n \in Names |-> NoItem] /\ name = NameOf
    /\ ref = Builtin /\ default = Builtin /\ loaded = Builtin
    /\ useDefaults = FALSE
    /\ changed = {} /\ heard = Builtin
    /\ own = [i \in Items |-> Absent] /\ dirty = {} /\ bDirty = FALSE
    /\ disk = own
    /\ system \in Systems

\* Everything but save().
Step ==
    \/ \E i \in Items :
          \/ \E n \in {NameOf[i]} \cup OtherNames[i] : AddItemX(i, n) \/ Rename(i, n)
          \/ \E v \in Values[i] : SetX(i, v) \/ SetProperty(i, v)
          \/ \E t \in OtherTexts[i] : OtherProgram(i, t)
    \/ \E n \in Names : RemoveItem(n)
    \/ ClearItems
    \/ SetDefaults
    \/ \E b \in BOOLEAN : UseDefaults(b)
    \/ Read
    \/ \E t \in Troubles, s \in {system} \cup LaterSystems : Load(t, s)

Next == Step \/ \E t \in Troubles : Save(t)

Spec == Init /\ [][Next]_vars

-----------------------------------------------------------------------------
(* Safety *)

\* The dictionary never leads to an item that was deleted, and to no item under a name it has
\* given up, however items are renamed, take each other's names and are removed.
DictIsLive ==
    \A n \in Names : dict[n] # NoItem => dict[n] \in listed /\ name[dict[n]] = n

\* Who listens to the signals of an item knows its value, or will know it after the next save():
\* however the value changes, the signal goes out or is due.
ListenersKnow == \A i \in Signalling \cap listed : heard[i] # ref[i] => i \in changed

\* A program that starts now has this for item i.
Fresh(i) == ParseItem(i, IF system[i].locked \/ disk[i] = Absent THEN system[i].text ELSE disk[i])

InRange(i, v) == v = Clamp(i, v)

\* The item knows what its key reads and what its default is, which it does not while
\* useDefaults(true) has them swapped or after an update of the system.
Knows(i) == default[i] = Default(i) /\ loaded[i] = Current(own, system, i)

Storable(i) == i \in listed /\ ~system[i].locked /\ Knows(i) /\ InRange(i, ref'[i])

Saves == \E t \in Troubles : SaveValues(ref', t)

SavesTrue == \E t \in Troubles : SaveValues(ref', t) /\ SyncOk(WriteItems(Now, ref'), t)

\* What save() had to write a program that starts later reads: also when it is the default, the
\* system's default or a choice.
SaveStores ==
    [][\A i \in Items :
          Storable(i) /\ ref'[i] # loaded[i] /\ SavesTrue => Fresh(i)' = ref'[i]]_vars

\* An item the program did not change does not undo what another program wrote ("Is this test
\* needed?"): save() and load() change no key in the file but those of items that were changed.
OthersKept ==
    [][\A i \in Items : disk'[i] # disk[i] =>
          \/ \E t \in OtherTexts[i] : OtherProgram(i, t)
          \/ Saves /\ i \in listed /\ ref'[i] # loaded[i]
          \/ i \in dirty]_vars

\* "The values of all registered items are written to disk and returns true upon success."
SaveTrueIsStored == [][SavesTrue => \A i \in Items : Storable(i) => Fresh(i)' = ref'[i]]_vars
=============================================================================
