------------------------------- MODULE KConfig -------------------------------
(***************************************************************************)
(* One KConfig object and its files (src/core/kconfig.cpp): opening, the   *)
(* calls of the application, sync(), reparseConfiguration(), and what      *)
(* other programs do to the files in between.                              *)
(*                                                                         *)
(* A sync holds the locks of the files it writes from the merge to the     *)
(* last write, so it is one step here; KConfigSync takes it apart.         *)
(***************************************************************************)
EXTENDS KConfigCalls

CONSTANTS
    Setups,           \* files and flags an object may be opened with, and what happens to it
    Touched,          \* the keys the application changes, as <<group, name>>; none is in
                      \* NoGroup, whose name the API reads as DefaultGroup's
    MaxCalls,         \* bound: calls of the application
    MaxOthers,        \* bound: changes of the files by other programs
    MaxExtra          \* bound: files added

\* The file or its lock is out of reach, the lock of kdeglobals is, or a file cannot be written.
Trouble == {"unreachable", "globalLock", "globalWrite", "localWrite"}

\* A setup is a record: systemGlobals and systemFiles are sequences of files, least specific
\* first; globalFiles, localFiles and extraFiles are what the user's kdeglobals, the object's
\* own file and the files the application adds may hold; flags are the open flags (none is
\* SimpleConfig), writeOptions the option sets of the application's calls, and troubles what
\* may go wrong in a sync.
ASSUME ConfigAssumption ==
    /\ \A s \in Setups :
          /\ DOMAIN s = {"systemGlobals", "systemFiles", "globalFiles", "localFiles",
                         "extraFiles", "flags", "writeOptions", "troubles"}
          /\ s.systemGlobals \in Seq(Seq(Line)) /\ s.systemFiles \in Seq(Seq(Line))
          /\ s.globalFiles \cup s.localFiles \cup s.extraFiles \subseteq Seq(Line)
          /\ s.flags \subseteq {"IncludeGlobals", "CascadeConfig"}
          /\ s.writeOptions \subseteq AppOptions
          /\ s.troubles \subseteq SUBSET Trouble
    /\ Touched \subseteq (Groups \ {NoGroup}) \X PlainNames
    /\ {MaxCalls, MaxOthers, MaxExtra} \subseteq Nat

VARIABLES
    entryMap,          \* KConfigPrivate::entryMap
    bDirty,            \* KConfigPrivate::bDirty
    bFileImmutable,    \* KConfigPrivate::bFileImmutable
    setup,             \* how the object was opened
    extraFiles,        \* KConfigPrivate::extraFiles, by content
    localFile,         \* the lines of the object's own file
    globalFile,        \* the lines of the user's kdeglobals
    apart,             \* history: the touched keys that memory and files were told to differ on
    behind,            \* history: another program changed kdeglobals since it was read
    theirs,            \* history: the files as other programs left them last
    ours,              \* history: the keys the application called for
    calls, others      \* the calls and the changes so far

object == <<entryMap, bDirty, bFileImmutable>>
files == <<localFile, globalFile>>
bounds == <<calls, others>>
history == <<apart, behind, theirs, ours>>
vars == <<object, setup, extraFiles, files, history, bounds>>

\* KConfigPrivate::openFlags.
flags == setup.flags

-----------------------------------------------------------------------------
(* Reading the files *)

Parsed(r) == [map |-> r.map, immutable |-> r.info = "Immutable"]

\* The next file of a loop that ends at an immutable file.
ReadFile(s, file, opts) ==
    IF s.immutable THEN s ELSE Parsed(ParseConfig(s.map, file, opts))

\* What there is behind each file of a loop.
Stages(s, seq, opts) ==
    LET read[i \in 0 .. Len(seq)] == IF i = 0 THEN s ELSE ReadFile(read[i - 1], seq[i], opts)
    IN  read

ReadFiles(s, seq, opts) == Stages(s, seq, opts)[Len(seq)]

Defaults(g)  == [default |-> TRUE, global |-> g, merging |-> FALSE]
Own(g)       == [default |-> FALSE, global |-> g, merging |-> FALSE]

WhenSet(fl, flag, seq) == IF flag \in fl THEN seq ELSE <<>>

\* The system's kdeglobals, into the map that was cleared.
ReadSystemGlobals(fl) ==
    ReadFiles([map |-> EmptyMap, immutable |-> FALSE],
              WhenSet(fl, "IncludeGlobals", setup.systemGlobals), Defaults(TRUE))

\* The system's files of the object's name; g is what the system's kdeglobals left.
\* bFileImmutable is only set by the loops over the files of the object's name.
ReadSystem(fl, g) ==
    [own |-> ReadFiles([g EXCEPT !.immutable = FALSE],
                       WhenSet(fl, "CascadeConfig", setup.systemFiles), Defaults(FALSE)),
     globalsLocked |-> g.immutable]

\* The user's kdeglobals, unless a system kdeglobals is immutable.
ReadUserGlobals(fl, global, s) ==
    IF "IncludeGlobals" \in fl /\ ~s.globalsLocked
    THEN [s.own EXCEPT !.map = ParseConfig(@, global, Own(TRUE)).map] ELSE s.own

\* reparseConfiguration() once the map is cleared: the files from the least to the most
\* specific.
Reread(fl, extra, local, global) ==
    ReadFile(ReadFiles(ReadUserGlobals(fl, global, ReadSystem(fl, ReadSystemGlobals(fl))),
                       IF fl = {} THEN <<>> ELSE extra, Defaults(FALSE)),
             local, Own(FALSE))

\* The object reads its files.
Load(r) ==
    /\ entryMap' = r.map /\ bFileImmutable' = r.immutable
    /\ apart' = {} /\ behind' = FALSE

\* What a program that merges a file finds in it.
Disk(file, g) ==
    ParseConfig(EmptyMap, file, [default |-> FALSE, global |-> g, merging |-> TRUE]).map

\* What readEntry() gives: a localized entry first, nothing for a deleted one.
Reads(m, t) == GetEntry(m, t[1], t[2], TRUE, FALSE)

-----------------------------------------------------------------------------
(* sync() *)

\* Mutant: the early return forgets that everything is still dirty.
GiveUpClean(s) == [s EXCEPT !.dirty = FALSE]

\* "Couldn't lock global file".
GiveUp(s) == [s EXCEPT !.dirty = TRUE]

\* There is a dirty entry for kdeglobals, or for the object's own file.
Pending(m, g) == \E k \in EntryKey : Has(m, k) /\ m[k].dirty /\ m[k].global = g

\* What becomes of s when w is written to file f, which may fail.
WrittenTo(s, f, w, fails) ==
    LET ok == w.ok /\ ~fails
    IN  [s EXCEPT !.map = w.map, !.dirty = @ \/ ~ok, !.ok = @ /\ ok,
                  ![f] = IF ok THEN w.file ELSE @]

SyncFile(s, f, todo, fails) ==
    IF todo THEN WrittenTo(s, f, WriteConfig(s.map, s[f], f = "global"), fails) ELSE s

\* kdeglobals is written before the object's own file; writeGlobals and writeLocals say whether
\* each has to be.
SyncBoth(s, t, writeGlobals, writeLocals) ==
    IF writeGlobals /\ "globalLock" \in t THEN GiveUp(s)
    ELSE SyncFile(SyncFile([s EXCEPT !.dirty = FALSE, !.ok = TRUE],
                           "global", writeGlobals, "globalWrite" \in t),
                  "local", writeLocals, "localWrite" \in t)

\* The state a sync leaves, and what it returns, when it meets the troubles in t.
SyncEffect(t) ==
    LET now == [map |-> entryMap, dirty |-> bDirty, local |-> localFile, global |-> globalFile,
                ok |-> FALSE]
    IN  IF bFileImmutable \/ "unreachable" \in t THEN now
        ELSE IF ~bDirty THEN [now EXCEPT !.ok = TRUE]
        ELSE SyncBoth(now, t, "IncludeGlobals" \in flags /\ Pending(entryMap, TRUE),
                      Pending(entryMap, FALSE))

SyncFiles(s) == localFile' = s.local /\ globalFile' = s.global

\* The touched keys whose value goes into the object's own file, which is read last.
Settled(m) ==
    {t \in Touched : \E l \in BOOLEAN :
        LET k == Slot(t[1], t[2], l, FALSE)
        IN  ToWrite(m, k, FALSE) /\ ~m[k].deleted /\ ~m[k].reverted}

Sync(t) ==
    \E s \in {SyncEffect(t)} :
        /\ SyncFiles(s)
        /\ entryMap' = s.map
        /\ bDirty' = s.dirty
        /\ apart' = IF bDirty /\ s.ok /\ ~behind THEN apart \ Settled(entryMap) ELSE apart
        /\ UNCHANGED <<bFileImmutable, setup, extraFiles, behind, theirs, ours, bounds>>

\* reparseConfiguration(): a sync, whatever comes of it, and a new parse.
Reparse(t) ==
    \E s \in {SyncEffect(t)} :
        /\ SyncFiles(s)
        /\ bDirty' = s.dirty
        /\ Load(Reread(flags, extraFiles, s.local, s.global))
        /\ UNCHANGED <<setup, extraFiles, theirs, ours, bounds>>

\* addConfigSources() with one file, which the parse puts in front of the object's own.
AddConfigSources(file, t) ==
    \E s \in {SyncEffect(t)} :
        /\ Len(extraFiles) < MaxExtra
        /\ extraFiles' = Append(extraFiles, file)
        /\ SyncFiles(s)
        /\ bDirty' = s.dirty
        /\ Load(Reread(flags, extraFiles', s.local, s.global))
        /\ UNCHANGED <<setup, theirs, ours, bounds>>

-----------------------------------------------------------------------------
(* The application, and other programs *)

\* A call for the keys in chosen.
Call(chosen) ==
    /\ calls < MaxCalls /\ calls' = calls + 1
    /\ ours' = ours \cup chosen
    /\ UNCHANGED <<others, bFileImmutable, setup, extraFiles, files, behind, theirs>>

\* The application asks for memory and files to differ: without Persistent, and with Global for
\* a key the object's own file holds, because that file is read last.
Parted(chosen, o) ==
    LET own    == Disk(localFile, FALSE)
        hidden == {t \in chosen : \E l \in BOOLEAN : Has(own, Slot(t[1], t[2], l, FALSE))}
    IN  apart' = apart \cup (Touched \cap IF "Dirty" \notin o THEN chosen
                                          ELSE IF "Global" \in o THEN hidden ELSE {})

PutData(g, n, v, o) ==
    /\ Call({<<g, n>>})
    /\ entryMap' = PutMap(entryMap, g, n, v, o)
    /\ bDirty' = (bDirty \/ PutDirties(entryMap, g, n, v, o))
    /\ Parted({<<g, n>>}, o)

WriteEntry(g, n, v, o) == v \in Values /\ PutData(g, n, v, o)

DeleteEntry(g, n, o) == "Expansion" \notin o /\ PutData(g, n, NoValue, o)

RevertToDefault(g, n, o) ==
    /\ Call({<<g, n>>})
    /\ entryMap' = RevertEntry(entryMap, g, n, o)
    /\ bDirty' = (bDirty \/ RevertDirties(entryMap, g, n))
    /\ UNCHANGED apart

DeleteGroup(g, o) ==
    /\ Call({<<k.group, k.name>> : k \in Deletable(entryMap, bFileImmutable, g)})
    /\ "Expansion" \notin o
    /\ entryMap' = DeleteGroupMap(entryMap, bFileImmutable, g, o)
    /\ bDirty' = (bDirty \/ DeleteGroupDirties(entryMap, bFileImmutable, g))
    /\ Parted(SubGroups[g] \X PlainNames, o)

MarkAsClean ==
    /\ Call({})
    /\ entryMap' = CleanEntries(entryMap)
    /\ bDirty' = FALSE
    /\ apart' = Touched

\* Another program, or the user's editor, replaces a file.
OtherProgram ==
    /\ others < MaxOthers /\ others' = others + 1 /\ UNCHANGED calls
    /\ \/ /\ localFile' \in setup.localFiles /\ UNCHANGED globalFile
          /\ theirs' = [theirs EXCEPT !.local = localFile']
       \/ /\ globalFile' \in setup.globalFiles /\ UNCHANGED localFile
          /\ theirs' = [theirs EXCEPT !.global = globalFile']
    /\ apart' = Touched
    /\ behind' = (behind \/ globalFile' # globalFile)
    /\ UNCHANGED <<object, setup, extraFiles, ours>>

-----------------------------------------------------------------------------

\* The constructor.
Init ==
    /\ setup \in Setups
    /\ extraFiles = <<>>
    /\ localFile \in setup.localFiles /\ globalFile \in setup.globalFiles
    /\ LET r == Reread(flags, <<>>, localFile, globalFile)
       IN  entryMap = r.map /\ bFileImmutable = r.immutable
    /\ bDirty = FALSE
    /\ apart = {} /\ behind = FALSE /\ ours = {}
    /\ theirs = [local |-> localFile, global |-> globalFile]
    /\ calls = 0 /\ others = 0

Next ==
    \/ \E key \in Touched, o \in setup.writeOptions :
          \/ \E v \in Values : WriteEntry(key[1], key[2], v, o)
          \/ DeleteEntry(key[1], key[2], o)
          \/ RevertToDefault(key[1], key[2], o)
          \/ DeleteGroup(key[1], o)
    \/ MarkAsClean
    \/ \E t \in setup.troubles :
          \/ Sync(t)
          \/ Reparse(t)
          \/ \E file \in setup.extraFiles : AddConfigSources(file, t)
    \/ OtherProgram

Spec == Init /\ [][Next]_vars

-----------------------------------------------------------------------------
(* Safety *)

\* What the files would give to an object that is opened now.
FilesNow == Reread(flags, extraFiles, localFile, globalFile).map

\* The application makes no localized calls.
Unlocalized == \A o \in setup.writeOptions : "Localized" \notin o

ReadingOf(m) == [t \in Touched \ apart |-> Reads(m, t)]

\* A clean object stores what it shows: unless it was told otherwise, every key reads the same
\* from memory as from the files.  Localized entries are another matter (LocalizedIsStored).
CleanIsStored == ~bDirty /\ Unlocalized => ReadingOf(entryMap) = ReadingOf(FilesNow)

\* A call that changes what a key reads as leaves something for sync() to store (deleting a
\* localized entry that is not there does not: the unlocalized one shows, and nothing is dirty).
ChangeIsDirty ==
    [][calls' # calls /\ Unlocalized =>
          \A t \in Touched \ apart' : Reads(entryMap', t) # Reads(entryMap, t) => bDirty']_vars

\* A change that waits for a sync is one isDirty() tells of, so that the destructor and
\* reparseConfiguration() write it.
PendingIsDirty ==
    ~bDirty => \A k \in EntryKey :
        Has(entryMap, k) /\ entryMap[k].dirty =>
            entryMap[k].deleted \/ (entryMap[k].global /\ "IncludeGlobals" \notin flags)

SameText(m1, m2, k) ==
    /\ Has(m1, k) <=> Has(m2, k)
    /\ Has(m1, k) => /\ m1[k].value = m2[k].value
                     /\ m1[k].deleted = m2[k].deleted
                     /\ m1[k].immutable = m2[k].immutable

\* "Unrelated concurrent changes to the same file are merged and thus not overwritten": a key
\* of a file that the application did not ask to change stays as another program left it.
OthersKept ==
    \A k \in EntryKey : k.name # Marker /\ <<k.group, k.name>> \notin ours =>
        /\ SameText(Disk(localFile, FALSE), Disk(theirs.local, FALSE), k)
        /\ SameText(Disk(globalFile, TRUE), Disk(theirs.global, TRUE), k)

\* A file that the user or another program made immutable is not written any more, also by an
\* object that was open when it happened.
ImmutableFileKept ==
    /\ ParseConfig(EmptyMap, theirs.local, Own(FALSE)).info = "Immutable"
          => localFile = theirs.local
    /\ ParseConfig(EmptyMap, theirs.global, Own(TRUE)).info = "Immutable"
          => globalFile = theirs.global
-----------------------------------------------------------------------------
(* What the documentation says and the code does not do: each is refuted by a run *)

\* isDirty() "Returns true if sync has any changes to write out": what a clean object shows is
\* stored, localized entries included.
LocalizedIsStored == ~bDirty => ReadingOf(entryMap) = ReadingOf(FilesNow)

\* "If this object has pending changes, this method will call sync() first so as not to lose
\* those changes": they are still read when no one else interferes.
PendingKept ==
    [][UNCHANGED <<bounds, extraFiles>> =>
          \A t \in Settled(entryMap) : Reads(entryMap', t) = Reads(entryMap, t)]_vars

\* "Unrelated concurrent changes to the same file are merged and thus not overwritten": a group
\* that another program locks stays locked.
GroupLocksKept ==
    \A g \in Groups : GroupIsImmutable(Disk(theirs.local, FALSE), g)
                          => GroupIsImmutable(Disk(localFile, FALSE), g)

\* "The only thing we care about groups is, is it immutable?": a group of kdeglobals is written
\* as locked only when it is.
NoGroupGetsLocked ==
    \A g \in Groups : GroupIsImmutable(Disk(globalFile, TRUE), g)
                          => GroupIsImmutable(Disk(theirs.global, TRUE), g)
=============================================================================
