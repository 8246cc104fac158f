--------------------------- MODULE KConfigCascade ---------------------------
(***************************************************************************)
(* One KConfig object in memory (src/core/kconfig.cpp): the entry map is   *)
(* filled line by line from a cascade of files, from the least to the most *)
(* specific, and then changed by the application.                          *)
(*                                                                         *)
(* The files are not fixed: any sequence of at most MaxLines lines taken   *)
(* from Lines, cut into files anywhere, is one behaviour.  What holds of   *)
(* this module holds for every content of the files.  The files themselves *)
(* and sync() are the business of KConfig.tla; here a sync is only what it *)
(* does to the map.                                                        *)
(***************************************************************************)
EXTENDS KConfigCalls

CONSTANTS
    Scenes,         \* what the files and the calls are made of
    Touched,        \* the keys the application changes, as <<group, name>>
    MaxLines        \* bound: lines read by one parse of the cascade

\* A scene is a record of the lines a file may consist of and the option sets the application's
\* calls are made with.
ASSUME CascadeAssumption ==
    /\ \A s \in Scenes : s.lines \subseteq Line /\ s.options \subseteq AppOptions
    /\ Touched \subseteq Groups \X PlainNames
    /\ MaxLines \in Nat

VARIABLES
    entryMap,          \* KConfigPrivate::entryMap
    bDirty,            \* KConfigPrivate::bDirty
    bFileImmutable,    \* KConfigPrivate::bFileImmutable
    globalImmutable,   \* globalConfigFileIsImmutable of reparseConfiguration()
    stage,             \* which loop over files is running, or "ready" when none is
    open,              \* whether a file is open
    opts,              \* the parse options of the file that is open or was last
    cursor,            \* the parser's place in that file
    linesRead,         \* lines read since the map was cleared
    scene              \* the scene all this happens in

reading == <<scene, globalImmutable, stage, open, opts, cursor, linesRead>>
vars == <<entryMap, bDirty, bFileImmutable, reading>>

Stage == {"globalSystem", "system", "globalUser", "user", "ready"}

\* reparseConfiguration() reads the files in this order.
Following == [globalSystem |-> "system", system |-> "globalUser", globalUser |-> "user",
              user |-> "ready", ready |-> "ready"]

\* The parse options of the files of a stage.  The last file of the user's two stages is the
\* one that is written to, and is not parsed with ParseDefaults.
StageOpts(s) ==
    {o \in ParseOpts :
        /\ ~o.merging
        /\ o.global <=> s \in {"globalSystem", "globalUser"}
        /\ s \in {"globalSystem", "system"} => o.default}

TypeOK ==
    /\ entryMap \in EntryMap
    /\ bDirty \in BOOLEAN
    /\ bFileImmutable \in BOOLEAN
    /\ globalImmutable \in BOOLEAN
    /\ stage \in Stage
    /\ open \in BOOLEAN
    /\ opts \in ParseOpts
    /\ cursor \in Cursor
    /\ linesRead \in Nat
    /\ scene \in Scenes

Init ==
    /\ entryMap = EmptyMap
    /\ bDirty = FALSE
    /\ bFileImmutable = FALSE
    /\ globalImmutable = FALSE
    /\ stage = "globalSystem"
    /\ open = FALSE
    /\ opts = [default |-> TRUE, global |-> TRUE, merging |-> FALSE]
    /\ cursor = StartOfFile
    /\ linesRead = 0
    /\ scene \in Scenes

-----------------------------------------------------------------------------
(* Reading the cascade *)

\* A stage is passed over: user files when the file is immutable, the user's kdeglobals when a
\* system kdeglobals is.
Blocked == (stage = "user" /\ bFileImmutable) \/ (stage = "globalUser" /\ globalImmutable)

OpenFile ==
    /\ stage # "ready" /\ ~open /\ ~Blocked
    /\ opts' \in StageOpts(stage)
    /\ open' = TRUE
    /\ cursor' = StartOfFile
    /\ UNCHANGED <<entryMap, bDirty, bFileImmutable, globalImmutable, stage, linesRead, scene>>

ReadLine(line) ==
    /\ open
    /\ linesRead < MaxLines
    /\ entryMap' = LineMap(entryMap, cursor, line, opts)
    /\ cursor' = LineCursor(entryMap, cursor, line, opts)
    /\ linesRead' = linesRead + 1
    /\ UNCHANGED <<bDirty, bFileImmutable, globalImmutable, stage, open, opts, scene>>

\* The end of a file.  An immutable file ends the loop it was read in.
CloseFile ==
    LET immutable == ParseResult(cursor) = "Immutable"
    IN  /\ open
        /\ entryMap' = LockGroups(entryMap, cursor)
        /\ open' = FALSE
        /\ stage' = IF immutable \/ ~opts.default THEN Following[stage] ELSE stage
        /\ globalImmutable' = (globalImmutable \/ (immutable /\ stage = "globalSystem"))
        /\ bFileImmutable' = (bFileImmutable \/ (immutable /\ stage \in {"system", "user"}))
        /\ UNCHANGED <<bDirty, opts, cursor, linesRead, scene>>

\* A loop runs out of files, has none, or is passed over.
NextStage ==
    /\ stage # "ready" /\ ~open
    /\ stage' = Following[stage]
    /\ UNCHANGED <<entryMap, bDirty, bFileImmutable, globalImmutable, open, opts, cursor,
                   linesRead, scene>>

\* reparseConfiguration() starts over.  (Its sync() is the step Sync before it.)
Reparse ==
    /\ stage = "ready"
    /\ entryMap' = EmptyMap
    /\ bFileImmutable' = FALSE
    /\ globalImmutable' = FALSE
    /\ stage' = "globalSystem"
    /\ linesRead' = 0
    /\ UNCHANGED <<bDirty, open, opts, cursor, scene>>

-----------------------------------------------------------------------------
(* The application *)

\* putData() with a value, or with none: then the entry is deleted.
PutData(g, n, v, o) ==
    /\ stage = "ready"
    /\ entryMap' = PutMap(entryMap, g, n, v, o)
    /\ bDirty' = (bDirty \/ PutDirties(entryMap, g, n, v, o))
    /\ UNCHANGED <<bFileImmutable, reading>>

WriteEntry(g, n, v, o) == v \in Values /\ PutData(g, n, v, o)

DeleteEntry(g, n, o) == "Expansion" \notin o /\ PutData(g, n, NoValue, o)

RevertToDefault(g, n, o) ==
    /\ stage = "ready"
    /\ entryMap' = RevertEntry(entryMap, g, n, o)
    /\ bDirty' = (bDirty \/ RevertDirties(entryMap, g, n))
    /\ UNCHANGED <<bFileImmutable, reading>>

DeleteGroup(g, o) ==
    /\ stage = "ready"
    /\ "Expansion" \notin o
    /\ entryMap' = DeleteGroupMap(entryMap, bFileImmutable, g, o)
    /\ bDirty' = (bDirty \/ DeleteGroupDirties(entryMap, bFileImmutable, g))
    /\ UNCHANGED <<bFileImmutable, reading>>

MarkAsClean ==
    /\ stage = "ready"
    /\ entryMap' = CleanEntries(entryMap)
    /\ bDirty' = FALSE
    /\ UNCHANGED <<bFileImmutable, reading>>

\* A sync() that wrote the local file, and with g the global one, too.
Sync(g) ==
    /\ stage = "ready"
    /\ bDirty /\ ~bFileImmutable
    /\ entryMap' = AfterWrite(IF g THEN AfterWrite(entryMap, TRUE) ELSE entryMap, FALSE)
    /\ bDirty' = FALSE
    /\ UNCHANGED <<bFileImmutable, reading>>

-----------------------------------------------------------------------------

Next ==
    \/ OpenFile
    \/ \E line \in scene.lines : ReadLine(line)
    \/ CloseFile
    \/ NextStage
    \/ Reparse
    \/ \E t \in Touched, o \in scene.options :
          \/ \E v \in Values : WriteEntry(t[1], t[2], v, o)
          \/ DeleteEntry(t[1], t[2], o)
          \/ RevertToDefault(t[1], t[2], o)
          \/ DeleteGroup(t[1], o)
    \/ MarkAsClean
    \/ \E g \in BOOLEAN : Sync(g)

Spec == Init /\ [][Next]_vars

-----------------------------------------------------------------------------
(* Safety *)

\* Keys are only enumerated from their group's marker on (forEachEntryOfGroup), so a key in a
\* group without one would be missing from keyList(), entryMap() and deleteGroup().
GroupsAreMarked ==
    \A k \in EntryKey : Has(entryMap, k) => Has(entryMap, MarkerOf(k.group))

\* An entry a file gave carries no pending change, and a default never gets one: writeConfig()
\* tells defaults from changes by their dirty flag ("not dirty, doesn't overwrite entry in
\* writeMap. skips default entries, too").
ReadIsClean ==
    \A k \in EntryKey : Has(entryMap, k) /\ (k.default \/ stage # "ready") =>
        ~entryMap[k].dirty /\ ~entryMap[k].notify /\ ~entryMap[k].reverted

\* An entry stays reverted only as long as it reads as its default, whatever is written to it,
\* synced or marked clean in between.
RevertedIsDefault ==
    \A g \in Groups, n \in Names :
        LET k == Slot(g, n, FALSE, FALSE)
            d == Slot(g, n, FALSE, TRUE)
        IN  Has(entryMap, k) /\ entryMap[k].reverted =>
                entryMap[k].value = IF Has(entryMap, d) THEN entryMap[d].value ELSE NoValue

\* Between two parses.
SameParse == stage = "ready" => stage' = "ready"

\* Lock-down of an entry: no later line of any file and no call of the application but
\* revertToDefault() changes an immutable entry that is not localized.
LockedEntryKept ==
    [][SameParse => \A g \in Groups, n \in Names, d \in BOOLEAN :
          LET k == Slot(g, n, FALSE, d)
          IN  IsImmutable(entryMap, k) =>
                /\ Has(entryMap', k)
                /\ \/ entryMap'[k].reverted
                   \/ /\ entryMap'[k].immutable
                      /\ entryMap'[k].value = entryMap[k].value
                      /\ entryMap'[k].deleted = entryMap[k].deleted]_vars

\* Lock-down of a group: it stays locked, and no key appears in it, localized or not.
LockedGroupGainsNoKey ==
    [][SameParse => \A k \in EntryKey :
          GroupIsImmutable(entryMap, k.group) =>
              /\ GroupIsImmutable(entryMap', k.group)
              /\ Has(entryMap', k) => Has(entryMap, k)]_vars

\* What the application does leaves every default as the files gave it, so hasDefault() and
\* a later revertToDefault() answer for the files.
DefaultsKept ==
    [][stage = "ready" /\ stage' = "ready" =>
          \A k \in EntryKey : k.default => entryMap'[k] = entryMap[k]]_vars

\* In every state an unlocalized write to an existing entry that may be changed is read back,
\* also by a lookup that prefers the localized entry.
WriteIsRead ==
    \A g \in Groups, n \in PlainNames, v \in Values :
        LET k == Slot(g, n, FALSE, FALSE)
        IN  Has(entryMap, k) /\ ~entryMap[k].immutable =>
                GetEntry(SetEntry(entryMap, g, n, v, {"Dirty"}), g, n, TRUE, FALSE) = v
-----------------------------------------------------------------------------
(* What the documentation says and the code does not do: each is refuted by a run *)

\* "The immutable entries or groups cannot be overridden by later files of the same name": what
\* a key reads as once its entry is locked.
LockedIsRead ==
    [][SameParse => \A t \in Touched :
          IsImmutable(entryMap, Slot(t[1], t[2], FALSE, FALSE)) =>
              GetEntry(entryMap', t[1], t[2], TRUE, FALSE)
                  = GetEntry(entryMap, t[1], t[2], TRUE, FALSE)]_vars
=============================================================================
