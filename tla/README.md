# TLA+ models of KConfig

KConfig stores the settings of an application in INI files: a cascade of read-only files from the
system, the user's `kdeglobals`, and one file of the application's own that is written to. Many
programs read and write the same files at the same time, administrators lock entries, groups and
files, and every key may have a default and several localized variants. The models here are about
that core and what is built on it: what a parse of the cascade leaves in memory, what the calls of
an application do to it, what `sync()` writes, what programs that sync at the same time do to one
another's settings, the bytes of the files, the objects threads share, the notifications, the items
of generated classes, their two readers of `.kcfg` documents, the tool that updates files, and the
windows that are put back where they were.

Paths below are relative to the repository; the library is in `src/core` of `src/`.

## 1. Inventory

| component | source | state | operations |
|---|---|---|---|
| entry map | `kconfigdata_p.h`, `kconfigdata.cpp` | ordered map from (group, name, local, default) to entries with ten fields; one *marker* per group | `setEntry`, `revertEntry`, `findEntry`, `getEntry`, `getEntryOption` |
| INI backend | `kconfigini.cpp` | none between calls; a parse has a current group, lock-down flags and an error count | `parseConfig`, `writeEntries`, `writeConfig`, `stringToPrintable`, `printableToString`, `lock`, `unlock` |
| devices | `kconfiginibackendreader_p.h` | a file and its `QLockFile`, or a `QIODevice` | read, replace (`QSaveFile`), write in place, lock |
| `KConfig` | `kconfig.cpp`, `kconfig_p.h` | entry map, `bDirty`, `bFileImmutable`, open flags, `extraFiles`, a per-thread cache of the system's `kdeglobals` | open, `putData`, `revertEntry`, `deleteGroup`, `markAsClean`, `sync`, `reparseConfiguration`, `addConfigSources`, `copyTo`, `copyFrom`, `setLocale` |
| `KConfigGroup` | `kconfiggroup.cpp` | a name in a `KConfig` | `readEntry`, `writeEntry` and their texts, `deleteEntry`, `revertToDefault`, `copyTo`, `reparent`, `moveValuesTo` |
| `KSharedConfig` | `ksharedconfig.cpp` | per-thread list of open objects, the main one | `openConfig`, the end of an object or a thread, the migration of the state file |
| `KConfigWatcher` | `kconfigwatcher.cpp` | a D-Bus subscription, per-thread list | `create`, re-read on notification |
| `KCoreConfigSkeleton` | `kcoreconfigskeleton.cpp` | items with current, loaded and default values, a dictionary of names | `addItem`, `removeItem`, `load`, `read`, `save`, `useDefaults`, `setDefaults` |
| `KConfigPropertyMap` | `src/qml/kconfigpropertymap.cpp` | copies of the items' values by key | write a value, `writeConfig`, follow `configChanged()` |
| `kconf_update` | `src/kconf_update` | `kconf_updaterc`: when a file was seen last, the ids that are done | find files, run scripts, record |
| `kconfig_compiler` | `src/kconfig_compiler` | the entries of a document, the group the generator is at | parse, generate a constructor, setters, signals |
| `KConfigLoader` | `src/gui/kconfigloader.cpp` | the members of its XML handler, items, names by group and key | parse, `findItem` |
| standard shortcuts | `src/gui/kstandardshortcut.cpp`, `kstandardshortcutwatcher.cpp` | a table that is filled when it is used | `initialize`, `saveShortcut`, refresh |
| window state | `src/gui/kwindowconfig.cpp`, `kwindowstatesaver.cpp` | a timer | save and restore size, place and state |
| `KAuthorized` | `kauthorized.cpp` | rules about actions and URLs, read from a config | decide |
| other | `KDesktopFile`, `KEMailSettings`, `kreadconfig`, `kwriteconfig`, registry | none of their own | - |

How they interact. A `KConfigGroup` call becomes `KConfig::putData()` or `revertEntry()`, which
changes the entry map and `bDirty` and nothing else. `KConfig::sync()` locks the object's own
file, then `kdeglobals` if it has pending entries for it, and for each has the backend read
the file again, lay the dirty entries over it, and replace it. `reparseConfiguration()` syncs,
clears the map, and has the backend parse every file of the cascade into it. The files are shared
memory: other programs replace them at any time that no lock forbids. After a sync, D-Bus signals
tell watchers in other programs which keys changed; a watcher re-reads its object.

Which behaviours are hard, and what correctness means for each part:

- **Entry map.** A key has up to four slots (localized or not, default or not) that shadow one
  another; a write to one may erase others. Right when: an unlocalized write is read back, writes
  never change defaults, every key's group has its marker (iteration starts there), and an entry
  that counts as reverted reads as its default.
- **Parsing the cascade.** Lock-down depends on the order of lines and files. Right when: no later
  line and no call changes a locked entry or adds a key to a locked group; what was just read
  carries no pending change.
- **sync().** A dirty entry is written, erased, or marked deleted, depending on its flags and on
  defaults; the file is merged with whatever other programs made of it. Right when: an object that
  is not dirty reads the same as an object opened now; keys of others survive; files that were made
  immutable are not written; failures leave the object dirty.
- **Concurrency of sync().** Two locks, taken one after the other, given up after a while; programs
  die. Right when: a write changes only keys of its writer, whoever leaves sync() has given
  back its locks, and every sync returns.
- **Copies and moves.** Entries go from group to group and object to object, with locks and defaults
  on either side. Right when: what was moved reads as it did, at the place it was moved to only, and
  still does when both objects were synced and are read again.
- **The text of a file.** Values are put into lists, lists into entries, entries into lines, each with
  its own escapes. Right when: what is written as text is read back.
- **Shared objects and watchers.** Plain pointers in per-thread lists to objects that any thread may
  free, addresses that are used again, removals that run in another thread. Right when: a list leads to
  a freed object only where another thread gave up the last reference to it, a thread has one object per
  file that it opens and one watcher per object.
- **Notifications.** They are sent after the lock is given back, arrive late and in any order, and a
  re-read drops what could not be stored. Right when: a table that is behind the file has a message to
  come, and in the end all programs agree with the file.
- **Items.** An item has a value, the one it loaded and the one that is its default, over a key that
  others write. Right when: what `save()` had to write is read back, keys of unchanged items are left
  alone, the names lead to items that exist, listeners hear of every change, and a property map shows
  what the items have.
- **`.kcfg` documents.** Two programs read them, one with a state machine over tokens, one with a
  generator, and read the texts of values by different rules. Right when: both make the same items, in
  the groups of the document, with the same defaults and bounds but for the texts that are known to be
  read differently.
- **kconf_update.** Processes run at the same time, die between a script and its record, and files are
  upgraded while they are worked at. Right when: only what ran is recorded, nothing is forgotten, and
  all that can run does.
- **Windows.** Changes are told one by one, in an order the window system chooses, and stored with a
  delay under keys that depend on the screens. Right when: a window comes back as it was, on every
  arrangement of screens, and every change reaches the file.

`PROJECT.json` lists every component with what is modelled of it, and under `hazards` each place
in the code where something can go wrong that a test would hardly reach, with the properties that
would notice.

## 2. Modules

| module | models | how |
|---|---|---|
| `KEntryMap` | `KEntryMap`, `KEntry`, `KEntryKey` | the methods as operators from maps to maps |
| `KConfigIni` | `KConfigIniBackend` on lines | `parseConfig()` as a step per line (`LineMap`, `LineCursor`, `LockGroups`) and as a whole (`ParseConfig`, a recursive function over the lines); `writeEntries()`, `writeConfig()` |
| `KConfigText` | `KConfigIniBackend` on bytes, and the texts of `KConfigGroup` | writers and readers of entries, headers, lists, paths and typed values as operators on sequences of bytes; the state machine writes one thing and reads it |
| `KConfigCalls` | `KConfigPrivate::putData()`, `KConfig::deleteGroupImpl()`, `keyListImpl()` | operators on maps, shared by the next three |
| `KConfigCascade` | one object in memory | state machine; files are arbitrary |
| `KConfig` | one object and its files | state machine; files are state, other programs replace them |
| `KConfigCopy` | two objects: `copyTo()`, `copyFrom()`, `copyGroup()`, `reparent()`, `moveValuesTo()` | state machine over two maps and two files |
| `KConfigProcs` | files and programs | constants and operators shared by the next two |
| `KConfigStore` | what `sync()` promises | abstract specification |
| `KConfigSync` | `KConfig::sync()` and `KConfigIniBackend::lock()` in several programs | state machine, one action per step of a sync |
| `KSharedConfig` | `KSharedConfig`, `KConfigWatcher::create()` | state machine over threads and addresses |
| `KWatcher` | what `sync()` sends, `onConfigChangeNotification()`, the standard shortcuts | state machine over programs and messages |
| `KSkeleton` | `KCoreConfigSkeleton`, its items, the setters and signals of generated classes | state machine over a program, an abstract `KConfig` and another program |
| `KPropertyMap` | `KConfigPropertyMap` | extends `KSkeleton` by the map |
| `KConfigXt` | `KConfigLoader`, and the constructor `kconfig_compiler` writes | state machine that writes a document while the loader reads it |
| `KConfUpdate` | `kconf_update` | state machine over processes, update files and `kconf_updaterc` |
| `KWindow` | `KWindowConfig`, `KWindowStateSaver` | state machine over a window, the screens and a file |
| `KConfigIniProofs` | what parses and merges of `KConfigIni` do, and the round trip of a file | lemmas for `KConfigProofs` and `KConfigCopyProofs`, section 5 |
| `KConfigCascadeProofs`, `KConfigProofs`, `KConfigCopyProofs`, `KConfigSyncProofs`, `KSharedConfigProofs`, `KSkeletonProofs`, `KClientsProofs` | theorems about the modules of those names; `KSharedConfigProofs` is about `KWatcher`, too, `KSkeletonProofs` about `KPropertyMap`, and `KClientsProofs` about `KWindow`, `KConfigXt` and `KConfUpdate` | section 5 |
| `MC...` | instances for TLC | values of the constants; `MCKConfigCopy` extends `KConfigCopyProofs`, so that TLC evaluates the hypotheses of a theorem on its instance |

`KConfigIni` extends `KEntryMap`; `KConfigCalls` extends `KConfigIni`; `KConfigCascade`, `KConfig`
and `KConfigCopy` extend `KConfigCalls`, so all three run the same parser, merge and calls.
`KConfigSync` instantiates `KConfigStore` with a refinement mapping. `KConfigText` ends where
`KConfigIni` starts: with the lines. `KSkeleton`, `KWatcher`, `KConfUpdate` and `KWindow` have a
`KConfig` object of their own that is as much as they can tell of it (own entries, what is dirty, a
file); that an object keeps what they rely on is what `KConfig` and `KConfigSync` are about.

### State and actions against the code

- `entryMap`, `bDirty`, `bFileImmutable`, `flags` (`openFlags`) and `extraFiles` are the members of
  `KConfigPrivate` of those names. A slot of the map without an entry holds `NoEntry`, so the map is
  a total function.
- A **line** of a file stands for the decisions the parser takes on its text: a group header, with
  or without `[$i]`; an entry with its locale tag, its option letters *in their order* and its
  value; an entry it cannot use (`bad`, `garbled`); a header without a closing bracket
  (`badHeader`). The order of the letters matters: the loop stops at `d`.
- A **locale tag** is told apart as far as the parser does: none, the language, language and
  country, foreign. `Tagged` names are the raw keys (`key[xx]`) that a merge keeps and that a
  deletion with a tag produces.
- `KConfigCascade.OpenFile`, `ReadLine`, `CloseFile`, `NextStage` are the loops of
  `reparseConfiguration()`, `parseGlobalSystemFiles()`, `parseSystemConfigFiles()`,
  `parseGlobalUserFiles()` and `parseUserConfigFiles()`, one line at a time; `Reparse` clears the
  map. `WriteEntry`, `DeleteEntry`, `RevertToDefault`, `DeleteGroup`,
  `MarkAsClean` and `Sync` are calls of the application.
- `KConfig.Sync(t)` is the whole of `sync()`, with `t` saying what goes wrong in it: the file or
  its lock out of reach, the lock of `kdeglobals` out of reach, either file not written.
  `Reparse(t)` and `AddConfigSources(file, t)` include the sync they make. `OtherProgram` replaces
  one of the two user files. A `KConfig` object that is destroyed syncs: that is the action `Sync`.
- `KConfigSync` takes `Sync` apart: `Sync`, `LockOwn`, `GiveUpOwn`, `LockGlobal`, `GiveUpGlobal`,
  `Merge`, `Write`, `FailWrite`, `UnlockGlobal`, `UnlockOwn`, with `Change` between syncs and
  `Crash` anywhere. `Merge` reads the file, `Write` replaces it; between the two, and between
  any other two steps, other programs take theirs.
- `KConfigCopy.promised` remembers what the last call that concerns a key wants it to read as; the maps
  and files are those of `KConfigIni`.
- `KConfigText` has a loop of the code as a fold over bytes: `PutByte` and `GetByte` are the bodies of
  the loops of `stringToPrintable()` and `printableToString()`, `ListByte` that of
  `deserializeList()`, `ExpandByte` that of `expandString()`. Bytes are numbers, and a UTF-8 sequence
  is the count of bytes it still needs.
- `KSharedConfig`'s objects and watchers are addresses. The C++ code's references are `held` (by the
  code of a thread), `mainConfig` and a watcher's `m_config`. `Hand` is program code that passes a
  `KSharedConfig::Ptr` to another thread. An object whose last reference goes is freed by the thread that
  drops it, and leaves that thread's list (`Forget`, the destructor); its address may come back. `dangling`
  remembers which entries of which list that leaves behind. When `openConfig()` comes by an entry
  whose object is gone, it reads freed memory: it may find anything there, or crash (`FollowsDangling`),
  and the model says nothing of a program after that (`broken`). It may also read nothing that matters
  and go on, and when the address was used again it finds what is there now (`Matches`). A `destroyed()` signal in another thread puts a removal into
  the `queue` of the main thread.
- `KWatcher.SyncFile` is a sync, `NotifyClients` the signals it sends afterwards, `Receive` and
  `Refresh` the handling of one message, its sync and its re-read; messages to a program are handled in the order in
  which they arrive. `Restart` is a program that died at any point and was started again.
- `KSkeleton`'s items have `ref`, `default` and `loaded` (`mReference`, `mDefault`, `mLoadedValue`).
  Values are numbers. A text keeps how it was written: a number, a name of a choice, a path; a
  password's text is not its value. `Load(t, s)` and `Save(t)` include the sync, with `t` the trouble
  it meets; `s` is what the system's files have become. `heard` is what the listeners know.
- `KPropertyMap.strayed` are the items that were changed past the map.
- `KConfigXt`'s actions are the tokens of the document, and the loader's handler takes each one as it
  is written; `Construct` is the generated constructor for the whole document. The value of a default or
  a bound is the sequence of its parts. Each type has its own way to read a text, on either side:
  `LoaderDefault` is the chain of `addItem()`, `LoaderBounds` what `toInt()` reads, `WrittenDefault`
  what `preProcessDefault()` makes of a text and C++ of that, `MissingDefault` the defaults of the
  constructors of items (and of `defaultValue()` for those of a parameter), and `CompilesAsWritten` says
  which texts C++ takes where they are pasted into the class as they are. What a text is as a number or
  a time are the constants `Number` and `Times`, since Qt and C++ read decimal numbers alike.
- `KConfUpdate` has a step for each kind of line, for the run of a script with each of its ends, for
  each sync of `kconf_updaterc` and for the end of a file; `config` of a process is `kconf_updaterc` as
  it was when the process read it.
- `KWindow`'s `due` is what the window system has not told yet. `TellState` and `TellGeometry` call the
  handlers the saver has connected, `TimerEvent` its timer.

### The abstract specification

`KConfigStore` knows two files and each program's unsaved changes by file. A program changes a key,
commits its changes for one file (all of them, and nothing else in the file is touched), or dies and
loses what it has not committed; a program whose writes may fail may lose changes, too (`Drop`).
`KConfigSync!KeepsPromise` says that the stepwise sync implements it, with the entries between merge
and write counted as unsaved: locking, waiting, giving up and unlocking are stutters, `Write` is the
commit, a crash loses, and so does a write that fails: `sync()` has taken the dirty flags off by then
and the changes are never written, although the program lives on (`MCFailedWrite`). `KeepsPromise` is
checked and proved for programs that lock (`ReadOnly = {}`).

## 3. Runs

Passing runs: every property holds.

| run | question | properties |
|---|---|---|
| `MCCascade` | Do lock-down, markers, defaults and reverts hold for every cascade of up to three lines, about locks and deletion or about locales, cut into files anywhere, and any calls behind it? | `TypeOK`, `GroupsAreMarked`, `RevertedIsDefault`, `ReadIsClean`, `WriteIsRead`, `LockedEntryKept`, `LockedGroupGainsNoKey`, `DefaultsKept` |
| `MCConfig` | In three setups (over the system's files; over `kdeglobals`, writing both files; with localized entries), next to a program that edits, locks or deletes, with files the application adds and syncs that cannot reach the files: do memory, dirty flags and files agree? | `CleanIsStored`, `PendingIsDirty`, `OthersKept`, `ImmutableFileKept`, `ChangeIsDirty` |
| `MCSync` | Three programs, two of them with one file, sync and crash in any interleaving, and the writes of one of them may fail: are updates lost, do locks stay, does every sync return? | `LocksMatch`, `PendingIsDirty`, `OnlyOwnKeysChange`, `KeepsPromise`, `SyncReturns` |
| `MCCopy` | Two objects, one with a default and one with a locked group, and calls that move or copy a key or all of an object: does the value arrive and stay? | `Arrives`, `StaysThere` |
| `MCText` | Is every short key, value, header, list, path and typed value, of the bytes that mean something, read back as it was written? | `ReadsBack` |
| `MCShared` | Two threads open, drop and watch objects at three addresses, or pass them to each other and drop them there, and end; the test mode is switched: are the lists right? | `ListIsLive`, `OneConfig`, `OneWatcher` |
| `MCWatcher` | Two programs save shortcuts, hear of it late, fail and die: is anyone left behind? | `StaleIsTold`, `Settles` |
| `MCSkeleton` | A program with a number and an enum, one with a password and a path, and one with a property map, with the system's defaults and locks, updates of those, another program and a lock that is taken: do items, names, signals, file and map agree? | `DictIsLive`, `ListenersKnow`, `MapShows`, `SaveStores`, `OthersKept` |
| `MCXt` | Do the loader and the compiled class have the same items, with the same defaults and bounds, for every document of two entries, of thirteen types? | `SameItems`, `CompiledGroupsApart`, `FindsItem` |
| `MCUpdate` | A login and a call of `checkUpdate()` work at a file that is upgraded twice, with scripts that time out, and one process may die: what is run, recorded and forgotten? | `DoneWasRun`, `NothingForgotten`, `UpdatesRun` |
| `MCWindow` | A window on one screen or two is moved, resized, maximized, closed, lost and opened again: does it come back as it was? | `ComesBack`, `ScreensRemembered`, `ChangesAreStored` |

The properties, in words, stand above their definitions. The deepest are `CleanIsStored` (an object
that is not dirty shows, for every key, what an object opened now would read from the files),
`OthersKept` (a key the application never called for reads in the file as another program left it,
through any number of merges), `LockedEntryKept`, `KeepsPromise`, `StaysThere`, `SameItems`,
`StaleIsTold` and `NothingForgotten`.

Some say what they leave out, because the code does not promise it:

- `CleanIsStored` leaves out the keys where the application asked for memory and files to differ
  (`apart`): calls without `Persistent`, `markAsClean()`, a `Global` write to a key that the object's
  own file hides, and a file that another program has replaced since the last parse. A sync that
  stores the key in the object's own file ends that, unless another program has replaced `kdeglobals`
  since it was read (`behind`): the merge then knows more of `kdeglobals` than memory does, and only
  a parse brings them together again. A parse always does. It is stated for applications that make no
  localized calls. Its writes succeed in `MCConfig`: entries are marked clean before the file is written, so
  that it does not hold when a write fails, which `MCFailedWrite` shows.
- `StaleIsTold` and `Settles` leave out a key whose writer died before it sent the message (`untold`)
  and one whose change a re-read threw away (`lost`).
- `NothingForgotten` and `UpdatesRun` leave out groups with a script that had trouble, and a file that
  was replaced while it was worked at (`overtaken`): it is recorded as seen with its new time.
- `ListIsLive` leaves out the entries of a list whose object another thread has freed (`dangling`), and
  says that nothing else makes the program's behaviour undefined (`RepositoryIsOwn` is what the
  documentation promises); `OneConfig` is about objects that the thread opened itself.
- `OneWatcher` leaves out an object whose watcher a late removal took from the list (`strayed`).
- `SaveStores` is about what `save()` had to write, in range, by an item that knows its key and its
  default. `MapShows` leaves out what was changed past the map: `load()`, `read()` and the setters tell
  it nothing.
- `ReadsBack` leaves out what `Exempt` names: broken UTF-8 sequences (`BytesReadBack`), an empty list of
  paths, which deletes the entry, and home directories with a comma or a backslash in their name
  (`PathsReadBack`), values that are not valid, the milliseconds of a time without a date, which the code
  drops, a key that is empty or begins with `#`, a deletion with a locale or a lock, and a group name
  that has a space at an end and a byte to escape.
- `StaysThere` leaves out, for what was copied with its whole group or object, the keys that are
  `Overruled`: copying replaces the markers and defaults of the copy in memory and says nothing of them
  in its file, so that a default in memory or in the system's file, or a lock of that file, is what is
  read again (`CopiesStay`).
- `SameItems` leaves out what `Plain` names: entries with a parent or a parameter, names with spaces that
  are keys, texts with spaces at an end, labels that are missing, types the loader does not know, and
  (`SameText`) the texts of values that the two readers take for different ones (`SameValues`). Without
  a default a Bool, a Color and a Font have another default in the compiled class. The loader takes a
  Bool that is a number for false, a Color of three numbers for none, a number that is none, or that the
  type does not hold, for 0; it drops the empty parts of a list, a bound that is not an int (0.5 of a
  Double, say), and the bounds of an Enum. The compiled class has no milliseconds in a Time. A default
  of a Point, Rect or Size, of a DateTime or of a Password does not compile as it is written.
- `CompiledGroupsApart` leaves out groups that share a variable and parameters in a group with a parent
  (`CompiledGroups`), `FindsItem` items that read the same with group and key written in one
  (`FindsGroupAndKey`), `ComesBack` a window left of everything at x = -1, which is stored as no
  place, and one that has the size the system's files give.

### Refuted by runs

`MCFailedWrite` checks what the documentation says of `isDirty()`, and TLC finds a behaviour of the code
that contradicts it: after a failed write the next sync writes nothing and returns true. `findings` in
`PROJECT.json` quotes the sentence and gives the line of code.

Further configurations lie beside it and are not among the regular runs. TLC refutes each of their
properties with `tlc -config X.cfg M`; where there are several it stops at the first that fails, so
leave that one out to see the next:

| configuration (module) | property | what the code does |
|---|---|---|
| `MCLockedLocalized` (`MCKConfigCascade`) | `LockedIsRead` | a locked key is hidden by a localized line of a later file |
| `MCContradicted` (`MCKConfig`) | `PendingKept` | a reparse whose sync fails drops pending changes |
| | `GroupLocksKept` | a sync takes the lock off a group that another program locked since |
| | `NoGroupGetsLocked` | a write to `kdeglobals` locks a group because the group before it is locked |
| | `LocalizedIsStored` | an unlocalized write removes a localized entry in memory but not in the file |
| `MCUnlockedSync` (`MCKConfigSync`) | `OnlyOwnKeysChange` | a program whose file was not writable when opened syncs without a lock |
| `MCCopyLost` (`MCKConfigCopy`) | `CopiesStay` | a copy of defaults is written behind the values that override them |
| | `NoEffectInPlace` | `reparent()` to the parent a group has deletes the group |
| `MCTextLost` (`MCKConfigText`) | `BytesReadBack` | bytes that break off a UTF-8 sequence come back in another order |
| | `PathsReadBack` | a list of paths below a home directory with a comma comes back as another list |
| `MCWatcherThread` (`MCKSharedConfig`) | `CreateGivesWatcher` | a thread gets no watcher, because a dead one is still in its list |
| | `RepositoryIsOwn` | an object whose last reference another thread drops stays in the list of the thread that opened it |
| `MCSaveRetry` (`MCKSkeleton`) | `SaveTrueIsStored` | a `save()` after one that failed returns true and stores nothing |
| `MCXtConfused` (`MCKConfigXt`) | `FindsGroupAndKey` | `findItem()` returns an item of another group whose name and key read the same in one |
| | `CompiledGroups` | the compiled class keeps items in another group than the document says |
| | `SameValues` | a Bool that is a number, or without a default, and the bound 0.5 of a Double differ in the two readers |
| `MCUpdateSameId` (`MCKConfUpdate`) | `DoneWasRun` | the id of the last group of a file is recorded for the next file |
| `MCWindowOrder` (`MCKWindow`) | `ComesBack` | a window that is told of its maximized size before its state loses its own size |

### Bounds

- `MaxLines = 3` in `KConfigCascade`: lines per parse, in any order and cut into files of any of the
  four stages. Lock-down involves a line that locks, a line that is locked, and a header that says
  for which group; the theorems of section 5 hold for any number.
- `MaxCalls = 3` in `KConfig` and `KConfigCopy`: calls of the application. A reverted state takes a
  write, a revert and a write to go through; sync, reparse and added sources are not counted.
- `MaxOthers = 1`: one change of a file by another program, at any point. The properties compare the
  file with what *the last* other program left, and a second change starts that over.
- `MaxExtra = 1`: one added source, at any point.
- `MaxChanges = 3` in `KConfigSync`: unsaved changes of three programs, so that each may have one,
  or one of them has one for each file and another interferes. Syncs and crashes are not bounded.
- `MaxErrors` is `MAX_ERRORS`, 100 in the code. `MCCascade` sets it to 1, so
  that the limit is reached; the theorems hold for any.
- `MaxSaves = 3` in `KWatcher`: two programs save at the same time, and one again when it has heard of
  the other. Failures, deaths and messages are not bounded.
- `MaxQueue = 1` in `KSharedConfig`: one removal waits for the main thread while addresses are used
  again; three objects and two watchers, so that an address comes back for something else. Objects and
  watchers are symmetric there: they are addresses, and nothing tells them apart. `Setups` says which
  threads use watchers, which pass references on, and how many addresses there are: three where both
  use watchers and none passes references, two where both pass references, or one does and one
  uses watchers. A dangling entry takes one object and its coming back another. The theorems hold for
  any `Setups`, so for all of it at once.
- `MaxInstalls = 2`, `MaxKills = 1` in `KConfUpdate`: a file comes, is upgraded, and a process dies at any
  point; what a killed process left is taken up by a second one, which is not killed.
- `MaxEntries = 2` in `KConfigXt`: what is carried from one entry to the next shows with two. Texts are
  given by the type of the entry, one or two of each kind that a reader treats apart. `IntSpan = 8` and
  `LongSpan = 64` stand for 2^32 and 2^64, so that 9 is too large for an int and not for a qlonglong; the
  theorems hold for any.
- `MaxEvents = 4` in `KWindow`: maximize, close, open and restore, for instance, or a move on one
  arrangement, a move on another and back. Of the three arrangements two are alike, since their keys
  read the same. `Wayland` is FALSE: places are not stored there. The theorems hold for either, and for
  any number of events.
- `KSkeleton` has no bound: values, texts and the states of files are finite sets.
- `KConfigText` stores values of up to three bytes of those that mean something to a reader and of up to
  four pieces of UTF-8 sequences, keys of up to three, lists of up to three items, paths of up to four
  fragments, and numbers at the ends of their ranges: an escape takes one byte and what is around it.
- One key and two groups where lock-down matters, two keys where a merge matters (the application's
  and another's), one value where only presence matters (`KConfigSync`), two where a change must be
  seen. Elsewhere symmetry is not used: the sets are small, and groups and keys have an order in the
  file.
- `CHECK_DEADLOCK` is off in `MCText`, `MCXt` and `MCWindow`, where the text is read, the document ends
  and the user's events are used up; elsewhere something can always happen.

### Fairness

- `KConfigSync`: weak fairness of `Step(p)` for each program `p`, nothing of `Change`, `Sync` or
  `Crash`. `sync()` is a sequential function on a thread that does nothing else until it returns, and
  it waits only in `QLockFile::tryLock()`, with a timeout: whether the lock is free, held or
  abandoned, one of `Lock*`, `GiveUp*` is enabled, so the thread's next step always is. No program has
  to give up its lock for another to return, and no fairness of locks is assumed.
- `KWatcher`: weak fairness of `Step(p)`, which is the event loop of a program: a message that has
  arrived is handled and a signal that is due is sent. Nothing of saves, troubles or restarts.
- `KConfUpdate`: weak fairness of a running process' steps, and of `Login` for each session: the user logs
  in again and again. Nothing of installs, deaths or `checkUpdate()`.
- `KWindow`: weak fairness of `TimerEvent`, since the program has an event loop. Nothing of the user and
  nothing of the window system.

## 4. External parts

`QLockFile` and `QSaveFile` belong to Qt and are modelled from their use. A lock file whose holder
is gone is stale and can be taken (`Held(f)` asks whether the holder is alive); a holder that is
alive keeps its lock. `QSaveFile::commit()` replaces the file in one step. D-Bus delivers messages in
order. Trimming, `split()`, numbers, colors and dates as text are Qt's, the conversions of
numbers C++'s; Qt's, too, are the references of `QExplicitlySharedDataPointer`, the test mode of `QStandardPaths`, screens and windows. The rest of the
system is represented by `OtherProgram`, `Install`, `Kill`, `Crash`, `Restart` and `Rearrange`.

## 5. Theorems

`KConfigCascadeProofs` proves, for every set of groups, names and values, for every set of lines
(`Lines` is any subset of `Line`, so for every content of every file), for any number of lines and
files, and for any calls:

| theorem | statement |
|---|---|
| `TypeCorrect` | `Spec => []TypeOK` |
| `EntryLockdown` | `Spec => LockedEntryKept` |
| `GroupLockdown` | `Spec => LockedGroupGainsNoKey` |
| `MarkedGroups` | `Spec => []GroupsAreMarked` |
| `CleanWhenRead` | `Spec => []ReadIsClean` |
| `DefaultsSurvive` | `Spec => DefaultsKept` |
| `RevertedEntries` | `Spec => []RevertedIsDefault` |
| `WritesAreRead` | `Spec => []WriteIsRead` |

Assumptions: `SentinelAssumption` (the marker's name, the null value and the empty slot are none of
the names, values and entries), `IniAssumption` (in particular that the object's own locale is not
foreign to it, that a name with a tag is no plain name, and that the orders of the map have every group
and name once), `CallsAssumption` and `CascadeAssumption` (types of the constants). TLC evaluates
them on every run.

The argument. `setEntry()` is up to three elementary steps: assign a slot, assign its twin that is
no default, drop localized slots. For each there is a *frame*, a relation between the map before
and the map after:

- `Kept`: an immutable entry that is not localized stays as it is; a locked group gains no key; a
  slot that appears has its group's marker; only localized slots disappear. Frames compose
  (`KeptComposes`), so `Kept` holds of `setEntry()`, of every line of a file, of the end of a file
  and of `deleteGroup()`.
- `Trims`: same entries, flags of a change go. Holds of `markAsClean()` and of what a sync does to
  the map.
- `Respects` follows from either, and allows a revert besides: it is what *every* step between two
  parses obeys (`StepRespects`). `LockedEntryKept`, `LockedGroupGainsNoKey` and `GroupsAreMarked`
  are consequences.
- `Pristine`: no entry is dirty, to be notified or reverted. It is kept by lines of files, because
  none of them sets `EntryDirty`; with `OpenInStage` (a file is open only during a parse) this makes
  `ReadIsClean` inductive.
- `AppStep`: what every step while the object is ready does: the defaults stay, and an entry that is
  reverted afterwards either was before and has the same value, or has its default's. It gives
  `DefaultsKept` and makes `RevertedIsDefault` inductive.

`ReadIsClean` and `RevertedIsDefault` are not inductive by themselves: the first needs that a parse
starts with an empty map and no file open when it ends, the second needs the first, because a line
that gives a default changes the default of an entry, and only that nothing is reverted during a
parse saves the property.

`KConfigSyncProofs` proves, for any number of programs, keys and values, and any assignment of files
to programs:

| theorem | statement |
|---|---|
| `SyncTypeCorrect` | `Spec => []TypeOK` |
| `LocksAreMatched` | `Spec => []LocksMatch` |
| `PendingKnown` | `Spec => []PendingIsDirty` |
| `NoLostUpdates` | `Spec => OnlyOwnKeysChange`, if `ReadOnly = {}` |
| `SyncKeepsPromise` | `Spec => KeepsPromise`, if `ReadOnly = {}` |

The hypothesis is needed: with a program that does not lock, `MCUnlockedSync` shows an update
lost. Otherwise the constants are only assumed to be of their types, with `Absent`, `Free` and `Dead`
none of the values or programs (`ProcsAssumption`, `SyncAssumption`, `HolderAssumption`). `TypeOK` of
`KConfigSync` is no property of a run: the theorem holds for all instances.

The argument. `AtFile` says which file a program can be at in which phase; with it `LocksMatch` is
inductive, because taking, giving up and losing a lock each change one file's holder and one
program's phase. `LocksMatch` gives mutual exclusion (`Exclusion`) among programs that lock.
`Merged`, which says that what a program in its write phase is about to write is the file as it *now*
is, overlaid with its own changes, is then inductive: nobody else can write that file. A
write therefore changes only keys of its writer (`NoLostUpdates`), and it is the commit of
`KConfigStore` (`WriteImplements`); all other steps of a sync leave files and unsaved changes as they
are (`SyncUnnoticed`). `Drained` says which pending changes may be left in which phase; it is
inductive for each program by itself (`OthersUntouched`) and gives `PendingKnown`.

`KConfigIniProofs` proves `ReadWritten`, of any map, and `KConfigProofs` of an object and its files, for
any groups, names and values, any content of the files, any calls, and whatever goes wrong in a sync:

| theorem | statement |
|---|---|
| `PendingAlwaysTold` | `Spec => [](Persistent => PendingIsDirty)` |
| `ChangeAlwaysDirty` | `Spec => ChangeIsDirty` |
| `ImmutableFilesKept` | `Spec => [](Legible => ImmutableFileKept)` |
| `ReadWritten` | `Writable(M) => IsRead(ParseConfig(EmptyMap, WriteEntries(M), Merging(g)).map, EntryKey, M)` |
| `OthersMerged` | `Spec => ([](Unlocalized /\ PlainFiles /\ LocksNoGroup(entryMap)) => []OthersKept)` |

`Persistent` says that the application calls with that flag, as the default arguments of
`KConfigGroup` do. Without it the property is false, and TLC shows why: a deletion of a key that is
not there leaves a dirty entry and `bDirty` as it was, and a value that is then written without
`Persistent` keeps the entry's dirty flag. `Legible` says that no entry of a foreign locale is
garbled in what other programs leave. Without it the last one is false: a parse of the object skips
the entries of other locales and counts no error in them, the merge of a sync (the same parser over
the same file) counts them, so that it stops before a `[$i]` that 100 of them precede, and writes the
file. All setups of `MCConfig` are legible; one writes without `Persistent`, and keeps `PendingIsDirty`
because its key always has an entry.

The argument. `CountUp` is an induction over the numbers up to `n` on a *set*: a lemma with an
operator for the property could not be instantiated. It gives the existence of the recursive
functions that run over the lines of a file and over the files of a cascade (`ParsesStep`,
`StagesStep`), and what each line keeps a whole parse keeps: what is read is clean, an entry that is
dirty stays what it is, a file is immutable iff one of the lines it gets to says so. `PendingIsDirty`
needs that an entry that is dirty but to be written nowhere is a deletion, which is where
`Persistent` comes in.
`ImmutableFileKept` needs that `bFileImmutable`, read when the object parsed its files, or the merge's
own look at the file is right at the moment of the write.

`ReadWritten` is the round trip of the INI backend: what `writeEntries()` writes of a map is read back
by the parser of the next merge, every entry in its slot with its value, deletion and lock, and no
other. `Writable` says which maps: no default, nothing under the empty group name (it is written without
a header, so that a parser puts it into the group above), no locked group but `<default>`
(whose lock is not written), nothing localized that is deleted (the line of a deletion is read as one
of a raw key), and localized names that are plain or carry the tag of another locale. Its
proof goes through the file in its own order: an entry's line (`EntryTurn`), the four slots of a
key, the keys of a group, the groups, with `EndOfFlatten` for each of the loops; the state between
two lines is what has been read so far (`IsRead`) and the group whose header was last (`AtGroup`).

`OthersMerged` rests on it. `KeepsOthers` is its invariant: only slots of keys the application called
for are dirty, and what a merge finds in either file can be written again as it is (`DiskOk`). A
sync then merges these slots with the file as it *now* is, writes a map that is `Writable`, and
`ReadWritten` tells what the next program finds. The hypotheses are what the code needs:

- `Unlocalized`: a localized call replaces, or is replaced by, other slots of its key.
- `PlainFiles`: a file that can be merged with has no locked group, no entry under the empty name, and
  none that is both deleted and locked: `[$id]` is read as both, written as `[$di]`, and the parser
  stops at the `d`, so that the lock is lost.
- `LocksNoGroup(entryMap)`: the marker of a group locked in any file of the cascade is written to the
  object's own one as `[group][$i]`, and locks what others have there. `MCContradicted` is about that
  code, too.

TLC finds the invariant and all hypotheses true in every state of `MCConfig`'s setups without
localized calls (`OverSystem` and `OverGlobals`, 43314 states), whose files lock entries, the default
group and themselves.

`KConfigCopyProofs` proves of two objects, for any groups, names, values, files and number of calls:

| theorem | statement |
|---|---|
| `EverythingArrives` | `Unlocalized => (Spec => []Arrives)` |
| `EverythingStays` | `Stores => (Spec => []StaysThere)` |

`Unlocalized` says that no line of the files is for a locale, as nothing in `KConfigCopy` is: a
localized line would hide what is moved there (`MCLockedLocalized`). The argument. The calls that
move and copy write slots of memory past one another: `moveValue()` goes through `setEntry()`, `copyGroup()`
puts entries into the map as they are, `deleteGroup()` goes through the keys by name. What
`Arrives` needs of memory is that it is `Sound`: no entry is localized, global or reverted, one that is
deleted has no value, and every group with an entry has its marker. Lines of files keep that
(`LineSound`), and so do writes (`SoundSet`), copies (`CopyMapGives`), deletions (`DeleteGroupGives`) and the
merge of a sync (`SoundMerge`), whose map is what memory has afterwards. In such a map a key that was written
reads as written (`AssignGives`, `SetKeyGives`); a write that is refused promised nothing, because the slot was locked
when the call began and a deletion of another key takes no lock away. The promises of `reparent()` are a
case of their own: the old group is deleted after the new one has its entries, and the groups may be the same.

`StaysThere` is about what is read again of the files when nothing is dirty any more. Its hypothesis
`Stores` is `Unlocalized` and what else the code needs:

- `Persistent`: calls are made with that flag. Without it a written entry may be left that is not dirty,
  and a move of its value to the same key is a write that changes nothing and is never stored.
- `Legible`: the objects' own files can be read to their end, and have nothing under the empty group name.
  A parse that has met `MAX_ERRORS` errors stops there and succeeds (`kconfigini.cpp:85`; the check behind the
  loop asks for more errors than the loop lets pass, and is never true), so that a merge writes such a file
  anew without what follows; what is under the empty name is written without a header, into the group
  above.
- `Orderly`: the same of the empty name in the system's file, and that a group it locks has its keys
  locked. The lock of a group is looked at when its header is read, so that keys of a group whose lock
  comes later in the file are taken from there and stay changeable in memory; but what is
  written for them is skipped when the own file is read again.

Its instance meets all of that: `MCKConfigCopy` assumes `Stores`, and TLC evaluates it.

The argument. `WrittenIsRead` says of what a sync writes of a sound map, defaults and locks among it, that
a merge reads every key without a default as the map has it: the walk through the file that
`ReadWritten` makes, but past the entries that the writer leaves out. What is read again is not that file by itself, but over
what the system's file left:
`RereadGives` runs two parsers side by side over the same lines, one from the empty map, as a merge
does, and one from the system's; they stay in the same group (`CursorsFollow`), and the second has the
entries of the first but for those that the system refuses (`MapFollows`). `DefaultsFirst` says that what
the system's file gives has a default, so that a written entry without one has nothing of the system's below it. The invariant is
`StaysInv` together with that of `EverythingArrives`: an entry that is not dirty reads in memory as
it would be read again of the files (`MapStored`), and an object that is not dirty has no dirty
entry. In the groups that got the entries of another object it says so only of keys without a default
or lock in the way (`Barred`), because `copyTo()` replaces defaults and locks in memory that no file
can replace. Every call changes only entries that are dirty afterwards or gone (`Changes`,
`StillStored`); a sync writes those and makes them clean (`WrittenStored`). TLC finds `StaysInv`
true in all 179267 states of `MCCopy`.

`KSharedConfigProofs` proves, for any number of threads, objects and watchers:

| theorem | statement |
|---|---|
| `ListAlwaysLive` | `Spec => []ListIsLive` |
| `AlwaysOneConfig` | `Spec => []OneConfig` |
| `AlwaysOneWatcher` | `Spec => []OneWatcher` |

The argument. What any thread refers to is there, and nothing else is (`ReferencesLive`). An entry of a list is
an object the thread has opened and that is there, or it dangles (`Listed`): a thread that frees an object
takes it off its own list, and when it had been opened by another one, that entry dangles from then on,
until the list is cleared, the thread ends or frees what is at the address, or gets that address for a new
object. What a thread has opened is in its list if it was opened in the mode the thread knows of, and is
from before the test mode otherwise (`Modes`); with `MainListed` and `Unique` that gives `OneConfig`.
`broken` needs an entry that leads to nothing, which is then one that dangles. For watchers the invariant follows a removal
from the signal to the main thread's queue: a watcher is in the list, or a late removal took it off.

Of `KWatcher` it proves `AlwaysTold` (`WatcherSpec => []StaleIsTold`), for any number of programs, shortcuts
and saves. It is not inductive by itself: a shortcut that is read is as fresh as the entry it is read
from, so the invariant says the same of the entries each program has (`EntriesTold`), including that a
program whose object is not dirty has nothing unsaved.

`KSkeletonProofs` proves, of `KSkeleton` with a property map, for any items, names, texts and files:

| theorem | statement |
|---|---|
| `DictAlwaysLive` | `MapSpec => []DictIsLive` |
| `ListenersAlwaysKnow` | `MapSpec => []ListenersKnow` |
| `MapAlwaysShows` | `MapSpec => []MapShows` |
| `OthersAlwaysKept` | `MapSpec => OthersKept` |
| `SavesAlwaysStore` | `Distinct => (MapSpec => SaveStores)` |

`Distinct` says that no two choices of an enumeration have the same text: what is stored for the
second is read as the first. The `.kcfg` format demands nothing of the kind, so it is a hypothesis and
no assumption. `SavesAlwaysStore` goes through the kinds of items: numbers, texts, paths, passwords
and enumerations each have a step that says that what they write reads as what they had.

`KClientsProofs` proves of `KConfUpdate`, for any number of update files, processes, upgrades and crashes:

| theorem | statement |
|---|---|
| `DoneAlwaysRun` | `OwnIds /\ OnceEach => (UpdateSpec => []DoneWasRun)` |
| `NothingEverForgotten` | `OwnIds /\ OnceEach /\ Stable => (UpdateSpec => []NothingForgotten)` |

The hypotheses are about what is shipped: no two files share an id (else `MCUpdateSameId` shows what
happens), a file has an id once, and a group does not change under its id. The program checks none
of them, and TLC refutes the properties without them. The invariant says of each process which lines of which
content of its file it has read (`ReadTo`) and that the groups before are done, run, or had trouble;
it needs the content as it was when the file was opened, since an upgrade may come at any line.

It proves of `KWindow`, for any screens, arrangements, sizes and places, and any number of events:

| theorem | statement |
|---|---|
| `AlwaysComesBack` | `StateFirst`, `PlacesWhole` imply `Spec => []ComesBack` |
| `ScreensAlwaysRemembered` | `StateFirst`, `PlacesWhole` imply `Spec => []ScreensRemembered` |

`StateFirst` says that a window hears of being maximized before it hears of the size that makes; the
code relies on it, and `MCWindowOrder` shows what becomes of it in the other order. `PlacesWhole` says
that the files of the system name a screen only together with a place: without a place of its own a
window would be put on a screen it was not on. What the code itself writes has that (`EntriesOk`). The
invariant says what the entries hold while changes are due (`SizeStored`, `PlaceStored`): the size and
place a window goes back to (`GoesBack`) are stored as long as it is maximized, also when a change
of the state has not been told yet. `KeptApart` says that arrangements with different keys do
not share entries.

It proves of `KConfigXt`, for any names, keys, types, labels, defaults, bounds and choices, and any
number of entries:

| theorem | statement |
|---|---|
| `LoaderFindsItem` | `XtSpec => []FindsItem` |
| `GroupsApartCompiled` | `XtSpec => []CompiledGroupsApart` |
| `LoaderAgrees` | `XtSpec => []SameItems` |

`XtAssumption` says of the texts no more than that the empty one is no number, time or truth value,
that the names of choices and the truth values are no numbers, and which of `TrueTexts` are which. `FindsItem` follows from what the loader's table of names holds (`FiledBy`: the joint of a
group and a key leads to an item with that joint). `CompiledGroupsApart` and `SameItems` are about a generator
that is a fold over the document: `Constructs` and `Parsed` are recursive functions, so a lemma says by
`CountUp` what is true of each of their prefixes (the group the constructor is in, the
entry each item comes from), and `IsCompiled` that the class is made of the finished document.
`SameItems` needs two invariants of the loader, whose conjunction is `LoaderInv`. `HandlerReads`: in the middle of an element the handler holds what that
element has had so far and nothing of an earlier one (`IsReset`, `FieldsAgree`, `ChoicesAgree`);
here `resetState()`, which leaves the last choice as it is, has to be enough. `ItemsShown`: the
items of the entries written so far are those that the document says, as long as all of these
entries are among those about which the two readers are meant to agree (`Plain`). That the values agree
(`LoaderDefaultShows`, `LoaderBoundsShow`) goes through the types of entries: numbers, which C++ would
wrap to the width of the type and Qt refuses out of its range; lists, which are taken apart alike when no
part is empty; enumerations, where a number and a name are looked for in another order; and texts.

## 6. Only model-checked

For good: `SyncReturns`, `Settles`, `UpdatesRun` and `ChangesAreStored`, because liveness under
fairness is out of the prover's reach.

So far, by `MCConfig` and `MCText`:

- `CleanIsStored` of `KConfig`: that memory reads the same as the whole cascade of files does.
  `EverythingStays` has that for one own file over one of the system. `KConfig` has two files that are written,
  `kdeglobals` among them, entries that are reverted or global, syncs that fail half way and files that other
  programs change at any time: `RereadGives` would have to be stated for a cascade of them. So is
  `OthersKept` of `KConfig` with localized calls, or with locked groups.
- `ReadsBack`: folds over bytes with the state of an escape; the induction would be one per reader
  and writer.

## 7. Not modelled

- *`KAuthorized`*: lookups in groups of a `KConfig` and a walk over a list of rules in which the last
  match wins. A second definition to check it against would be the same walk.
- *`KDesktopFile`, `KDesktopFileAction`, `KEMailSettings`, `kreadconfig`, `kwriteconfig`*: calls of
  `KConfigGroup` one after the other, with no state of their own. *The Windows registry* and the
  *conversion checks*: another platform, and checks at compile time.
- *`KPropertySkeletonItem`* reads and writes a property of a QObject and no file.
- *Unreadable files*, and files that cannot be opened for a merge: an unreadable file is an empty one
  to a parse.
- *Writing in place*: a file of another owner is truncated and written instead of replaced
  (`kconfiginibackendreader_p.h`), and the `QIODevice` device. Nothing in the code promises anything
  about a crash or a reader in between.
- *Parse cache* of the system's `kdeglobals`: parsing it is modelled, caching it is not.
- *`setLocale()`, `setForceGlobal()`, `isConfigWritable()`* and KDE's kiosk exception at run time
  (`KioskException` is a constant).
- *`KSharedConfig`*: the one-time migration of the state file; watchers that are passed to another thread or
  destroyed there; `openConfig()` and the destructor of an object it looks at in another thread at the same
  time, each of which is one step here.
- *`KConfigCopy`*: the flags `Global` and `Localized`, and groups within the groups that are copied.
- *`KConfigText`*: reals, byte arrays, URLs, fonts, named colors, `file:` paths, variables of the
  environment other than `HOME`, and local times that a change of the clock makes ambiguous.
- *`KSkeleton`*: items with lists of paths, several items for one key, and defaults that the program
  replaces by `setDefaultValue()`. *`KPropertyMap`*: the defaults it shows, and items of different groups
  with the same key, which share a value of the map.
- *`KConfUpdate`*: `autoUpdateDisabled`, `updateInfoAdded`, `ScriptArguments` and files of one name in
  several directories; the times of creation and of change are one.
- *`KConfigXt`*: parameters in the names of groups, code in defaults (`code="true"`, and texts that are C++
  otherwise: calls, other bases, quoted strings), defaults for an index, numbers that no qlonglong holds, `include`,
  elements that are repeated, errors in the document, tool tips and contexts, and the options of the
  generator but `SetUserTexts`, which is taken to be on.
- *`KWindow`*: syncs that fail (the saver does not look at what its sync returns, and a change is then left
  to the next sync of anybody), other programs that write the state file, and the platform where places are
  not restored; width and height are one size, x and y one place.
- *The data* of the standard shortcuts and actions: tables of names, labels and keys.

## 8. Plan

Done: all modules of section 2; proofs of every safety property that a run checks but for those of
section 6.

Next:

1. `KConfig`: `CleanIsStored`, from `RereadGives` for the files of a cascade.
2. `KConfigCopy`: `StaysThere` with files in which the system locks a group but not its keys.

Abstract specifications worth stating: `KConfigStore` (done); an eventually consistent register for
`KWatcher`; a set of done ids for `KConfUpdate`.
