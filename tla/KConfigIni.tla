------------------------------ MODULE KConfigIni ------------------------------
(***************************************************************************)
(* The INI backend (src/core/kconfigini.cpp): what parseConfig() does with *)
(* the lines of a file and what writeConfig() puts back.                   *)
(*                                                                         *)
(* A file is a sequence of lines.  The characters of a line are abstracted *)
(* to the decisions the parser takes on them: a group header, an entry     *)
(* with its locale tag and its option letters in the order the loop sees   *)
(* them, an entry it cannot use, or a header that is not closed.  Escaping *)
(* keeps keys and values apart and unchanged, so names and values are      *)
(* members of small sets.                                                  *)
(***************************************************************************)
EXTENDS KEntryMap, Sequences, SequencesExt, Naturals

CONSTANTS
    DefaultGroup,    \* "<default>": the entries above the first header
    NoGroup,         \* the empty name, which the header line "[$i]" leaves current
    GroupOrder,      \* the other groups, in the order of the map
    NameOrder,       \* Names, in the order of the map
    PlainNames,      \* names without a locale tag
    OwnTag,          \* the tag of localized entries: KConfig's whole locale
    MaxErrors,       \* MAX_ERRORS
    KioskException   \* kde_kiosk_exception: lock-down is switched off

\* What a key's locale tag is to the object that reads it: none, its language ("de"), its
\* language and country ("de_AT"), or any other one.
Locale == {"none", "language", "country", "foreign"}

\* The name of an entry whose text still has its tag: a raw key, or a deleted localized key.
Tagged(n, loc) == IF loc = "none" THEN n ELSE <<n, loc>>

IsTagged(n) == n \notin PlainNames

OptionLetters == {"i", "e", "d"}

GroupLine == [kind : {"group"}, group : Groups, immutable : BOOLEAN]

\* A name that reads like one with a tag (its brackets are escaped) has no other tag.
EntryText == {l \in [kind : {"entry"}, name : Names, locale : Locale,
                     options : Seq(OptionLetters), value : Values \cup {NoValue},
                     garbled : BOOLEAN] :
                 /\ Tagged(l.name, l.locale) \in Names
                 /\ l.locale # "none" => l.name \in PlainNames}

Line == GroupLine \cup EntryText \cup [kind : {"bad", "badHeader"}]

\* seq has each element of S, once.
Lists(seq, S) ==
    /\ seq \in Seq(S)
    /\ \A x \in S : \E i \in DOMAIN seq : \A j \in DOMAIN seq : seq[j] = x <=> j = i

ASSUME IniAssumption ==
    /\ {DefaultGroup, NoGroup} \subseteq Groups /\ DefaultGroup # NoGroup
    /\ PlainNames \subseteq Names
    /\ \A n \in PlainNames, loc \in Locale \ {"none"} : Tagged(n, loc) \notin PlainNames
    /\ Lists(GroupOrder, Groups \ {DefaultGroup}) /\ Lists(NameOrder, Names)
    /\ OwnTag \in Locale \ {"foreign"}
    /\ MaxErrors \in Nat \ {0}
    /\ KioskException \in BOOLEAN

-----------------------------------------------------------------------------
(* parseConfig(): the parser between two lines                             *)
(*                                                                         *)
(* opts is what the caller asks for: default (ParseDefaults), global       *)
(* (ParseGlobal) and merging, each a BOOLEAN.  Every caller in src/core    *)
(* sets ParseExpansions.                                                   *)

Cursor == [group : Groups, fileImmutable : BOOLEAN, groupImmutable : BOOLEAN, skip : BOOLEAN,
           immutableGroups : SUBSET Groups, errors : 0 .. MaxErrors]

ParseOpts == [default : BOOLEAN, global : BOOLEAN, merging : BOOLEAN]

StartOfFile == [group |-> DefaultGroup, fileImmutable |-> FALSE, groupImmutable |-> FALSE,
                skip |-> FALSE, immutableGroups |-> {}, errors |-> 0]

\* Mutant: the loop over the lines runs once too often.
ReadingOneMore(c) == c.errors <= MaxErrors

\* The condition of the loop over the lines.
Reading(c) == c.errors < MaxErrors

\* "[G]", "[G][$i]" or, with NoGroup, "[$i]".
HeaderCursor(m, c, line, opts) ==
    LET locks == line.immutable /\ ~KioskException
        own   == c.fileImmutable \/ (locks /\ line.group # NoGroup)
        skip  == GroupIsImmutable(m, line.group)
    IN  [c EXCEPT !.group = line.group,
                  !.fileImmutable = c.fileImmutable \/ (locks /\ line.group = NoGroup),
                  !.groupImmutable = own,
                  !.skip = skip,
                  !.immutableGroups = IF own /\ (~skip \/ opts.default)
                                      THEN c.immutableGroups \cup {line.group}
                                      ELSE c.immutableGroups]

\* groupSkip: the group was locked by an earlier file.
Skipped(c, opts) == c.skip /\ ~opts.default

IsDeletion(line) == Contains(line.options, "d")

\* The option letters that count: 'd' ends the line, and with it the loop over the letters.
Seen(line) ==
    LET before == {i \in DOMAIN line.options :
                      \A j \in 1 .. i : line.options[j] # "d"}
    IN  {line.options[i] : i \in before}

When(condition, option) == IF condition THEN {option} ELSE {}

\* Mutant: what is read counts as a change.
LineOptionsDirty(c, line, opts) ==
    When(c.groupImmutable \/ ("i" \in Seen(line) /\ ~KioskException), "Immutable")
    \cup When("e" \in Seen(line), "Expansion") \cup When(opts.default, "Default") \cup {"Dirty"}

\* What every use of an entry line hands to setEntry().
LineOptions(c, line, opts) ==
    When(c.groupImmutable \/ ("i" \in Seen(line) /\ ~KioskException), "Immutable")
    \cup When("e" \in Seen(line), "Expansion") \cup When(opts.default, "Default")

\* key[..$d]: everything left of the bracket, a locale tag included, is the name, and neither
\* EntryGlobal nor EntryLocalized is set.
ParseDeletion(m, c, line, opts) ==
    SetEntry(m, c.group, Tagged(line.name, line.locale), NoValue,
             LineOptions(c, line, opts) \cup {"Deleted"})

IsOwn(loc) == loc = OwnTag \/ (loc = "language" /\ OwnTag = "country")

IsForeign(line) == line.locale # "none" /\ ~IsOwn(line.locale)

\* key=value, key[locale]=value.  Entries of other locales are only kept when merging, under a
\* name that contains the tag.
ParseValue(m, c, line, opts) ==
    SetEntry(m, c.group, IF IsForeign(line) THEN Tagged(line.name, line.locale) ELSE line.name,
             line.value,
             LineOptions(c, line, opts) \cup When(opts.global, "Global")
             \cup When(line.locale # "none", "Localized")
             \cup When(line.locale = "country", "LocalizedCountry"))

IsIgnored(c, line, opts) == Skipped(c, opts) \/ (IsForeign(line) /\ ~opts.merging)

\* One turn of the loop: what the line does to the entry map and to the parser.
LineMap(m, c, line, opts) ==
    IF ~Reading(c) \/ line.kind # "entry" \/ Skipped(c, opts) THEN m
    ELSE IF IsDeletion(line) THEN ParseDeletion(m, c, line, opts)
    ELSE IF IsIgnored(c, line, opts) THEN m
    ELSE ParseValue(m, c, line, opts)

LineCursor(m, c, line, opts) ==
    IF ~Reading(c) THEN c
    ELSE IF line.kind = "group" THEN HeaderCursor(m, c, line, opts)
    ELSE IF line.kind = "badHeader" THEN [c EXCEPT !.groupImmutable = c.fileImmutable]
    ELSE IF \/ line.kind = "bad" /\ ~Skipped(c, opts)
            \/ /\ line.kind = "entry" /\ line.garbled
               /\ ~IsDeletion(line) /\ ~IsIgnored(c, line, opts)
         THEN [c EXCEPT !.errors = c.errors + 1]
    ELSE c

\* Behind the loop: the groups this file locked get an immutable marker.
LockGroups(m, c) ==
    LET locked == IF c.errors > MaxErrors THEN {}
                  ELSE {MarkerOf(g) : g \in {h \in c.immutableGroups : ~GroupIsImmutable(m, h)}}
    IN  [k \in DOMAIN m |-> IF k \in locked THEN LockedMarker ELSE m[k]]

ParseResult(c) ==
    IF c.errors > MaxErrors THEN "OpenError"
    ELSE IF c.fileImmutable THEN "Immutable" ELSE "Ok"

AtEnd(s) == [map |-> LockGroups(s.map, s.cursor), info |-> ParseResult(s.cursor)]

\* One turn of the loop.
ParseLine(s, line, opts) ==
    [map    |-> LineMap(s.map, s.cursor, line, opts),
     cursor |-> LineCursor(s.map, s.cursor, line, opts)]

\* The map and the parser behind each line, from s on.
Parses(s, file, opts) ==
    LET parsed[i \in 0 .. Len(file)] ==
            IF i = 0 THEN s ELSE ParseLine(parsed[i - 1], file[i], opts)
    IN  parsed

AtStart(m) == [map |-> m, cursor |-> StartOfFile]

\* parseConfig() on a whole file.
ParseConfig(m, file, opts) == AtEnd(Parses(AtStart(m), file, opts)[Len(file)])

-----------------------------------------------------------------------------
(* writeEntries()                                                          *)

\* Mutant: entries of other locales are written for this one.
EntryLineOwnTag(m, k) ==
    LET e == m[k]
    IN  [kind |-> "entry", name |-> IF IsTagged(k.name) THEN k.name[1] ELSE k.name,
         locale |-> IF k.local THEN OwnTag ELSE "none",
         options |-> IF e.deleted THEN <<"d">> ELSE IF e.immutable THEN <<"i">> ELSE <<>>,
         value |-> e.value, garbled |-> FALSE]

\* The line for the entry in slot k.  A raw key is written as it was read.
EntryLine(m, k) ==
    LET e   == m[k]
        raw == k.local /\ IsTagged(k.name)
    IN  [kind    |-> "entry",
         name    |-> IF raw THEN k.name[1] ELSE k.name,
         locale  |-> IF raw THEN k.name[2] ELSE IF k.local THEN OwnTag ELSE "none",
         options |-> IF e.deleted
                     THEN (IF e.immutable THEN <<"d", "i">> ELSE <<"d">>)
                     ELSE (IF e.immutable THEN <<"i">> ELSE <<>>)
                          \o (IF e.expand THEN <<"e">> ELSE <<>>),
         value   |-> IF e.deleted THEN NoValue ELSE e.value,
         garbled |-> FALSE]

LineOf(m, k) == IF Has(m, k) THEN <<EntryLine(m, k)>> ELSE <<>>

\* The order of the map: localized before not localized, the default behind its entry.
KeyLines(m, g, n) == LineOf(m, Slot(g, n, TRUE, FALSE)) \o LineOf(m, Slot(g, n, TRUE, TRUE))
                     \o LineOf(m, Slot(g, n, FALSE, FALSE)) \o LineOf(m, Slot(g, n, FALSE, TRUE))

EntryLines(m, g) == FlattenSeq([i \in DOMAIN NameOrder |-> KeyLines(m, g, NameOrder[i])])

\* groupIsImmutable when the header of the i-th group is written: it belongs to the last
\* marker that was passed, the group's own if it has one.
HeaderLock(m, i) ==
    LET passed == {j \in 1 .. i : Has(m, MarkerOf(GroupOrder[j]))}
    IN  /\ passed # {}
        /\ GroupIsImmutable(m, GroupOrder[CHOOSE j \in passed : \A h \in passed : h <= j])

\* The empty group gets no header.
GroupLines(m, i) ==
    LET body == EntryLines(m, GroupOrder[i])
    IN  IF body = <<>> \/ GroupOrder[i] = NoGroup THEN body
        ELSE << [kind |-> "group", group |-> GroupOrder[i], immutable |-> HeaderLock(m, i)] >>
             \o body

WriteEntries(m) ==
    EntryLines(m, DefaultGroup) \o FlattenSeq([i \in DOMAIN GroupOrder |-> GroupLines(m, i)])

-----------------------------------------------------------------------------
(* writeConfig()                                                           *)

\* Mutant: an entry is written whether it has changed or not.
ToWriteClean(em, k, isGlobal) ==
    Has(em, k) /\ ~k.default /\ em[k].global = isGlobal

\* The entries written to a file of this globality: the dirty ones, and all group markers.
ToWrite(em, k, isGlobal) ==
    Has(em, k) /\ (k.name = Marker \/ em[k].dirty) /\ em[k].global = isGlobal

\* Mutants: a default, and an entry of kdeglobals, come back when theirs is deleted.
ErasesOverDefault(em, k) == ~em[k].overridesGlobal /\ (em[k].reverted \/ em[k].deleted)
ErasesOverGlobal(em, k) ==
    em[k].reverted \/ (em[k].deleted /\ ~Has(em, [k EXCEPT !.default = TRUE]))

\* A dirty entry that takes its slot out of the file.
Erases(em, k) ==
    LET e == em[k]
    IN  /\ ~e.overridesGlobal
        /\ e.reverted \/ (e.deleted /\ ~Has(em, [k EXCEPT !.default = TRUE]))

\* The entry as the loop leaves it, with its dirty flag still set.
Written(e) == IF e.reverted /\ e.overridesGlobal THEN [e EXCEPT !.deleted = TRUE] ELSE e

\* Mutant: the file is written from memory alone.
MergeIgnoringDisk(em, disk, isGlobal) ==
    [k \in DOMAIN em |-> IF Has(em, k) /\ em[k].global = isGlobal /\ ~Erases(em, k) /\ ~k.default
                         THEN Written(em[k]) ELSE NoEntry]

\* The map that is written: what is in the file, overlaid with the entries to write.
Merge(em, disk, isGlobal) ==
    [k \in DOMAIN em |-> IF ~ToWrite(em, k, isGlobal) THEN disk[k]
                         ELSE IF Erases(em, k) THEN NoEntry ELSE Written(em[k])]

\* Mutant: what was written is still dirty.
AfterWriteStillDirty(em, isGlobal) ==
    [k \in DOMAIN em |-> IF ToWrite(em, k, isGlobal) THEN Written(em[k]) ELSE em[k]]

\* The entry map once the loop has run: what was written is not dirty any more.
AfterWrite(em, isGlobal) ==
    [k \in DOMAIN em |-> IF ToWrite(em, k, isGlobal)
                         THEN [Written(em[k]) EXCEPT !.dirty = FALSE] ELSE em[k]]

\* Mutant: a file that is immutable is written like any other.
MergeWithAnyway(em, file, disk, isGlobal) ==
    [ok |-> TRUE, map |-> AfterWrite(em, isGlobal),
     file |-> WriteEntries(Merge(em, disk.map, isGlobal))]

\* What comes of writing em over a file that was parsed into disk: ok is FALSE when it cannot
\* be merged with, and then nothing has changed.
MergeWith(em, file, disk, isGlobal) ==
    IF disk.info = "Ok"
    THEN [ok |-> TRUE, map |-> AfterWrite(em, isGlobal),
          file |-> WriteEntries(Merge(em, disk.map, isGlobal))]
    ELSE [ok |-> FALSE, map |-> em, file |-> file]

\* writeConfig() up to the call of writeToDevice().
WriteConfig(em, file, isGlobal) ==
    MergeWith(em, file,
              ParseConfig(EmptyMap, file,
                          [default |-> FALSE, global |-> isGlobal, merging |-> TRUE]),
              isGlobal)
=============================================================================
