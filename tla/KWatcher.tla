------------------------------- MODULE KWatcher -------------------------------
(***************************************************************************)
(* Notifications of changes: what sync() sends (src/core/kconfig.cpp), the *)
(* KConfigWatcher that receives it (src/core/kconfigwatcher.cpp) and the   *)
(* table of standard shortcuts that is kept up to date with it             *)
(* (src/gui/kstandardshortcut.cpp, kstandardshortcutwatcher.cpp).          *)
(*                                                                         *)
(* Each program has one shared KConfig object for all this, a table of     *)
(* shortcuts that is filled from it when it is needed, and a queue of      *)
(* D-Bus messages.  Everything a program does it does in its event loop.   *)
(* The steps of the write itself are in KConfigSync.                       *)
(***************************************************************************)
EXTENDS Naturals, Sequences

CONSTANTS
    Procs,      \* programs
    Keys,       \* the names of the shortcuts, keys of group Shortcuts in kdeglobals
    Shortcuts,  \* lists of key sequences, without duplicates
    Hardcoded,  \* hardcodedDefaultShortcut()
    Troubles,   \* what may go wrong in a sync
    MaxSaves,   \* bound: calls of saveShortcut()
    Absent      \* no entry

ASSUME WatcherAssumption ==
    /\ Hardcoded \in [Keys -> Shortcuts]
    /\ Troubles \subseteq {"none", "lock", "write"}
    /\ MaxSaves \in Nat
    /\ Absent \notin Shortcuts

VARIABLES
    globals,        \* the group in kdeglobals
    entries,        \* the group in each program's object
    unsaved,        \* the dirty entries, all written with Notify
    bDirty,         \* KConfig::isDirty()
    cut,            \* KStandardShortcutInfo::cut
    isInitialized,  \* the shortcuts that were initialized
    toNotify,       \* a sync that was done has to send a notification for these keys
    inbox,          \* the messages on their way to each program: sets of keys
    handling,       \* the message onConfigChangeNotification() is at
    saves,          \* calls so far
    untold,         \* keys that were written and of which no message tells (history)
    lost            \* keys whose change a reparse threw away (history)

object == <<entries, unsaved, bDirty>>
table == <<cut, isInitialized>>
history == <<saves, untold, lost>>
watcherVars == <<globals, object, table, toNotify, inbox, handling, history>>

NoMessage == {}

WatcherInit ==
    /\ globals = [k \in Keys |-> Absent]
    /\ entries = [p \in Procs |-> globals]
    /\ unsaved = [p \in Procs |-> {}] /\ bDirty = [p \in Procs |-> FALSE]
    /\ cut = [p \in Procs |-> Hardcoded] /\ isInitialized = [p \in Procs |-> {}]
    /\ toNotify = [p \in Procs |-> {}]
    /\ inbox = [p \in Procs |-> <<>>]
    /\ handling = [p \in Procs |-> NoMessage]
    /\ saves = 0 /\ untold = {} /\ lost = [p \in Procs |-> {}]

-----------------------------------------------------------------------------
(* sync() *)

\* The entries of program p, what is dirty of them, and whether the object is.
Object(c, u, b) == [entries |-> c, unsaved |-> u, bDirty |-> b]

Of(p) == Object(entries[p], unsaved[p], bDirty[p])

Writes(o, t) == o.bDirty /\ t = "none"

\* The loop over the dirty entries is behind the lock and before the writes.
Collects(o, t) == o.bDirty /\ t # "lock"

\* A write that fails leaves the object dirty, but none of its entries.
Synced(o, t) ==
    IF Collects(o, t) THEN Object(o.entries, {}, t = "write" /\ o.unsaved # {}) ELSE o

\* Mutant: only a write that was successful is told.
SyncTellingSuccess(p, o, t) ==
    /\ globals' = IF Writes(o, t)
                  THEN [k \in Keys |-> IF k \in o.unsaved THEN o.entries[k] ELSE globals[k]]
                  ELSE globals
    /\ toNotify' = [toNotify EXCEPT ![p] = IF Writes(o, t) THEN o.unsaved ELSE {}]
    /\ untold' = IF Writes(o, t) THEN untold \cup o.unsaved ELSE untold

\* sync() of an object o: the file, and what is to be sent when the locks are given back,
\* whether or not the write failed.
SyncFile(p, o, t) ==
    /\ globals' = IF Writes(o, t)
                  THEN [k \in Keys |-> IF k \in o.unsaved THEN o.entries[k] ELSE globals[k]]
                  ELSE globals
    /\ toNotify' = [toNotify EXCEPT ![p] = IF Collects(o, t) THEN o.unsaved ELSE {}]
    /\ untold' = IF Writes(o, t) THEN untold \cup o.unsaved ELSE untold

SetObject(p, o) ==
    /\ entries' = [entries EXCEPT ![p] = o.entries]
    /\ unsaved' = [unsaved EXCEPT ![p] = o.unsaved]
    /\ bDirty' = [bDirty EXCEPT ![p] = o.bDirty]

\* notifyClients(): the bus takes the message to every watcher, the sender's own included.
NotifyClients(p) ==
    /\ toNotify[p] # {}
    /\ inbox' = [q \in Procs |-> Append(inbox[q], toNotify[p])]
    /\ untold' = untold \ toNotify[p]
    /\ toNotify' = [toNotify EXCEPT ![p] = {}]
    /\ UNCHANGED <<globals, object, table, handling, saves, lost>>

-----------------------------------------------------------------------------
(* The table of shortcuts *)

Idle(p) == toNotify[p] = {} /\ handling[p] = NoMessage

\* initialize(): the entry, or the default in the code.
Reading(c, k) == IF c[k] = Absent THEN Hardcoded[k] ELSE c[k]

\* shortcut(id), and find() for all.
Initialize(p, ks) ==
    /\ cut' = [cut EXCEPT ![p] = [k \in Keys |-> IF k \in ks \ isInitialized[p]
                                                 THEN Reading(entries[p], k) ELSE cut[p][k]]]
    /\ isInitialized' = [isInitialized EXCEPT ![p] = @ \cup ks]

Shortcut(p, ks) ==
    /\ Idle(p) /\ ~(ks \subseteq isInitialized[p])
    /\ Initialize(p, ks)
    /\ UNCHANGED <<globals, object, toNotify, inbox, handling, history>>

\* writeEntry() and deleteEntry(): only what changes the entry makes it dirty.
WithEntry(o, k, v) ==
    IF o.entries[k] = v THEN o
    ELSE Object([o.entries EXCEPT ![k] = v], o.unsaved \cup {k}, TRUE)

\* saveShortcut(): the default is not stored.  There is no sync when there is nothing to delete.
SaveShortcut(p, k, v, t) ==
    /\ Idle(p) /\ saves < MaxSaves /\ saves' = saves + 1
    /\ cut' = [cut EXCEPT ![p][k] = v]
    /\ IF v = Hardcoded[k] /\ entries[p][k] = Absent
       THEN UNCHANGED <<globals, object, toNotify, untold>>
       ELSE LET o == WithEntry(Of(p), k, IF v = Hardcoded[k] THEN Absent ELSE v)
            IN  SyncFile(p, o, t) /\ SetObject(p, Synced(o, t))
    /\ lost' = [lost EXCEPT ![p] = @ \ {k}]
    /\ UNCHANGED <<isInitialized, inbox, handling>>

-----------------------------------------------------------------------------
(* The watcher *)

\* onConfigChangeNotification(): reparseConfiguration() stores what is pending first ...
Receive(p, t) ==
    /\ Idle(p) /\ inbox[p] # <<>>
    /\ handling' = [handling EXCEPT ![p] = Head(inbox[p])]
    /\ inbox' = [inbox EXCEPT ![p] = Tail(@)]
    /\ SyncFile(p, Of(p), t)
    /\ SetObject(p, Synced(Of(p), t))
    /\ UNCHANGED <<table, saves, lost>>

\* Mutant: the object is not read anew before the table is filled from it.
RefreshUnread(p) ==
    /\ handling[p] # NoMessage /\ toNotify[p] = {}
    /\ UNCHANGED entries
    /\ unsaved' = [unsaved EXCEPT ![p] = {}]
    /\ cut' = [cut EXCEPT ![p] = [k \in Keys |-> IF k \in handling[p] THEN Reading(entries[p], k)
                                                 ELSE cut[p][k]]]
    /\ isInitialized' = [isInitialized EXCEPT ![p] = @ \cup handling[p]]
    /\ handling' = [handling EXCEPT ![p] = NoMessage]
    /\ lost' = [lost EXCEPT ![p] = (@ \cup unsaved[p]) \ handling[p]]
    /\ UNCHANGED <<globals, bDirty, toNotify, inbox, saves, untold>>

\* ... and reads the files, with what could not be stored gone.  Then configChanged() has the
\* shortcuts in the message initialized again.
Refresh(p) ==
    /\ handling[p] # NoMessage /\ toNotify[p] = {}
    /\ entries' = [entries EXCEPT ![p] = globals]
    /\ unsaved' = [unsaved EXCEPT ![p] = {}]
    /\ cut' = [cut EXCEPT ![p] = [k \in Keys |-> IF k \in handling[p] THEN Reading(globals, k)
                                                 ELSE cut[p][k]]]
    /\ isInitialized' = [isInitialized EXCEPT ![p] = @ \cup handling[p]]
    /\ handling' = [handling EXCEPT ![p] = NoMessage]
    /\ lost' = [lost EXCEPT ![p] = (@ \cup unsaved[p]) \ handling[p]]
    /\ UNCHANGED <<globals, bDirty, toNotify, inbox, saves, untold>>

-----------------------------------------------------------------------------

\* A program dies anywhere, and starts again with what the file has.
Restart(p) ==
    /\ SetObject(p, Object(globals, {}, FALSE))
    /\ cut' = [cut EXCEPT ![p] = Hardcoded]
    /\ isInitialized' = [isInitialized EXCEPT ![p] = {}]
    /\ toNotify' = [toNotify EXCEPT ![p] = {}]
    /\ inbox' = [inbox EXCEPT ![p] = <<>>]
    /\ handling' = [handling EXCEPT ![p] = NoMessage]
    /\ lost' = [lost EXCEPT ![p] = {}]
    /\ UNCHANGED <<globals, saves, untold>>

\* What the event loop of a program runs on its own.
Step(p) ==
    \/ NotifyClients(p)
    \/ \E t \in Troubles : Receive(p, t)
    \/ Refresh(p)

WatcherNext ==
    \E p \in Procs :
        \/ \E k \in Keys, v \in Shortcuts, t \in Troubles : SaveShortcut(p, k, v, t)
        \/ \E k \in Keys : Shortcut(p, {k})
        \/ Shortcut(p, Keys)
        \/ Step(p)
        \/ Restart(p)

Fairness == \A p \in Procs : WF_watcherVars(Step(p))

WatcherSpec == WatcherInit /\ [][WatcherNext]_watcherVars /\ Fairness

-----------------------------------------------------------------------------
(* Safety *)

\* A message that tells program p of k is still to be sent, on its way or in hand.
Coming(p, k) ==
    \/ k \in toNotify[p] \cup handling[p]
    \/ \E n \in DOMAIN inbox[p] : k \in inbox[p][n]

\* p's table has what the file has.
UpToDate(p, k) == cut[p][k] = Reading(globals, k)

\* A shortcut in use that is not the one in the file is one the program is going to be told of,
\* or one it has saved and not stored, however the programs save at the same time, whatever fails
\* and whichever message comes first.  Two ways there are to stay behind for good: the writer died
\* between the write and the message, and a reparse threw a change away that was not stored.
StaleIsTold ==
    \A p \in Procs : \A k \in isInitialized[p] :
        UpToDate(p, k) \/ Coming(p, k) \/ k \in unsaved[p] \cup untold \cup lost[p]

-----------------------------------------------------------------------------
(* Liveness *)

\* When nobody saves any more all programs come to use what is in the file.  Handling a message
\* may store changes and send messages again, but that comes to an end.
Settles ==
    <>[](\A p \in Procs : \A k \in isInitialized[p] :
            UpToDate(p, k) \/ k \in unsaved[p] \cup untold \cup lost[p])
=============================================================================
