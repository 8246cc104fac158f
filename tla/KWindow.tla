------------------------------- MODULE KWindow -------------------------------
(***************************************************************************)
(* KWindowStateSaver and KWindowConfig (src/gui/kwindowstatesaver.cpp and  *)
(* kwindowconfig.cpp): the size, the place and the state of a window are   *)
(* stored as they change, and restored when the window is opened again.    *)
(*                                                                         *)
(* What the window system reports is external: in which order it tells of  *)
(* a new state and of the geometry that goes with it, where it puts a new  *)
(* window, and where one goes whose screen is taken away.  Width and       *)
(* height are stored together, as are x and y: there is one size and one   *)
(* place.  Of the KConfig object there are the entries and the file;       *)
(* KConfig has the rest.                                                   *)
(***************************************************************************)
EXTENDS Integers, FiniteSets

CONSTANTS
    Screens,        \* the names of the screens
    Arrangements,   \* the sets of screens that may be connected
    Primary,        \* the primary screen of each
    ScreenSize,     \* the size of each screen
    Sizes,          \* what the user makes the size of a window
    InitialSize,    \* the size the program gives it
    Places,         \* where the user moves it, as its x
    ScreenAt,       \* the screen each of them is on
    PlacedAt,       \* where a new window goes on each screen
    Systems,        \* the entries the system's files may have
    FirstTold,      \* what the window system tells first, when maximizing and when not
    Wayland,        \* QGuiApplication::platformName()
    Absent,         \* no entry
    Deleted,        \* an entry that hides what the system has
    Unknown,        \* no window
    MaxEvents       \* bound: what the user does

Unset == -1

ASSUME WindowAssumption ==
    /\ Arrangements \subseteq (SUBSET Screens) \ {{}} /\ Primary \in [Arrangements -> Screens]
    /\ \A a \in Arrangements : Primary[a] \in a
    /\ Places \subseteq Int /\ ScreenAt \in [Places -> Screens]
    /\ PlacedAt \in [Screens -> Places]
    /\ \A s \in Screens : PlacedAt[s] # Unset /\ ScreenAt[PlacedAt[s]] = s
    /\ FirstTold \in [BOOLEAN -> SUBSET {"state", "geometry"}]
    /\ Wayland \in BOOLEAN /\ MaxEvents \in Nat
    /\ Absent \notin Sizes \cup {InitialSize} \cup {ScreenSize[s] : s \in Screens}
    /\ Absent \notin Places /\ Absent \notin Screens /\ Absent \notin BOOLEAN

VARIABLES
    connected,  \* QGuiApplication::screens()
    open,       \* whether there is a window, and a KWindowStateSaver for it
    window,     \* its size, place, screen and state, and what it was at first
    normal,     \* the geometry it goes back to when it is no longer maximized
    due,        \* what the window system has not told yet
    goal,       \* the state it is about to tell
    own,        \* the user's entries, in memory
    disk,       \* the file
    system,     \* the system's entries
    timerId,    \* KWindowStateSaverPrivate::timerId: whether a timer runs
    unsaved,    \* whether this window's last change is not in the file
    told,       \* what of it was stored for, or restored from, the screens there are
    kept,       \* what the window was like when the screens changed last, for each arrangement
    events

object == <<own, disk>>
platform == <<normal, due, goal>>
vars == <<connected, open, window, platform, object, system, timerId, unsaved, told, kept, events>>

-----------------------------------------------------------------------------
(* The keys *)

\* Mutant: the resolution of the primary screen, however many there are.
ConfigFileStringPrimary(a) == <<"resolution", ScreenSize[Primary[a]]>>

\* configFileString(): what one screen has is kept by its resolution, what several have by their
\* number.
ConfigFileString(a) ==
    IF Cardinality(a) = 1 THEN <<"resolution", ScreenSize[Primary[a]]>>
    ELSE <<"screens", Cardinality(a)>>

SizeKey(a) == <<"Size", ConfigFileString(a)>>
MaximizedKey(a) == <<"Window-Maximized", ConfigFileString(a)>>
PositionKey(a) == <<"Position", ConfigFileString(a)>>

\* windowScreenPositionString(): the names of the screens, sorted.
ScreenKey(a) == <<"Screen", a>>

Key == UNION {{SizeKey(a), MaximizedKey(a), PositionKey(a), ScreenKey(a)} : a \in Arrangements}

Read(o, k) == IF o[k] = Absent THEN system[k] ELSE o[k]

HasDefault(k) == system[k] # Absent

\* A value that is read already is not written again.
WriteEntry(o, k, v) == IF v = Read(o, k) THEN o ELSE [o EXCEPT ![k] = v]

RevertToDefault(o, k) == [o EXCEPT ![k] = Absent]

DeleteEntry(o, k) == [o EXCEPT ![k] = Deleted]

-----------------------------------------------------------------------------
(* KWindowConfig *)

\* The window is what it was when it was opened, on a screen of the same size.
IsInitial(w) == w.size = w.initialSize /\ ScreenSize[w.screen] = w.initialScreenSize

SavedSize(o, a, w) ==
    IF IsInitial(w) THEN RevertToDefault(o, SizeKey(a))
    ELSE DeleteEntry(WriteEntry(o, SizeKey(a), w.size), MaximizedKey(a))

SavedState(o, a, w) ==
    IF ~w.maximized /\ ~HasDefault(MaximizedKey(a)) THEN RevertToDefault(o, MaximizedKey(a))
    ELSE WriteEntry(o, MaximizedKey(a), w.maximized)

\* Mutant: the size of a maximized window is stored.
SaveWindowSizeAlways(o, a, w) == SavedState(SavedSize(o, a, w), a, w)

\* saveWindowSize(): "Save size only if window is not maximized".
SaveWindowSize(o, a, w) == SavedState(IF w.maximized THEN o ELSE SavedSize(o, a, w), a, w)

WrittenPosition(o, a, w) ==
    WriteEntry(WriteEntry(o, PositionKey(a), w.place), ScreenKey(a), w.screen)

\* saveWindowPosition(): not on Wayland, and not of a maximized window.
SaveWindowPosition(o, a, w) == IF Wayland \/ w.maximized THEN o ELSE WrittenPosition(o, a, w)

\* findScreenByName(): the screen the window is on when that screen is not connected.
FindScreenByName(a, w, name) == IF name \in a THEN name ELSE w.screen

\* A window follows its place to another screen.
At(a, w, place) ==
    [w EXCEPT !.place = place, !.screen = FindScreenByName(a, w, ScreenAt[place])]

\* restoreWindowSize().  A window gets its initial size but once.
RestoreWindowSize(o, a, w) ==
    [w EXCEPT
        !.initialSize = w.size,
        !.initialScreenSize = ScreenSize[FindScreenByName(a, w, Read(o, ScreenKey(a)))],
        !.size = IF Read(o, SizeKey(a)) = Absent THEN w.size ELSE Read(o, SizeKey(a)),
        !.maximized = Read(o, MaximizedKey(a)) = TRUE]

\* Mutant: a place to the left of zero is none.
RestoreWindowScreenPositionRight(o, a, w) ==
    IF Read(o, PositionKey(a)) = Absent \/ Read(o, PositionKey(a)) < 0 THEN w
    ELSE At(a, w, Read(o, PositionKey(a)))

\* restoreWindowScreenPosition(): a place of -1 is none.
RestoreWindowScreenPosition(o, a, w) ==
    IF Read(o, PositionKey(a)) \in {Absent, Unset} THEN w ELSE At(a, w, Read(o, PositionKey(a)))

\* restoreWindowPosition(): not on Wayland, and not of a maximized window.
RestoreWindowPosition(o, a, w) ==
    IF Wayland \/ w.maximized THEN w
    ELSE RestoreWindowScreenPosition(o, a,
             [w EXCEPT !.screen = FindScreenByName(a, w, Read(o, ScreenKey(a)))])

\* A window that the program has made and not shown yet.
NewWindow(a) ==
    [size |-> InitialSize, place |-> PlacedAt[Primary[a]], screen |-> Primary[a],
     maximized |-> FALSE, initialSize |-> InitialSize, initialScreenSize |-> ScreenSize[Primary[a]]]

Restored(o, a) == RestoreWindowPosition(o, a, RestoreWindowSize(o, a, NewWindow(a)))

Geometry(w) == [size |-> w.size, place |-> w.place]

-----------------------------------------------------------------------------
(* KWindowStateSaver *)

\* What is stored for the screens of now.
SizeTold(w) == IF w.maximized THEN {} ELSE {"size"}
PlaceTold(w) == IF w.maximized THEN {} ELSE {"place"}

\* init(), when the window is made or a widget is shown for the first time.
Open ==
    /\ ~open
    /\ open' = TRUE
    /\ window' = Restored(own, connected)
    /\ normal' = Geometry(window')
    /\ goal' = window'.maximized
    /\ due' = IF window'.maximized THEN {"geometry"} ELSE {}
    /\ timerId' = FALSE /\ unsaved' = FALSE
    /\ told' = {"size"} \cup PlaceTold(window')
    /\ UNCHANGED <<connected, object, system, kept, events>>

\* A change of the size or the state.
SaveSize(w) ==
    /\ own' = SaveWindowSize(own, connected, w)
    /\ timerId' = TRUE /\ unsaved' = TRUE
    /\ told' = told \cup SizeTold(w)
    /\ UNCHANGED disk

\* Mutant: the place is stored, and no timer started.
SavePositionUntimed(w) ==
    /\ own' = SaveWindowPosition(own, connected, w)
    /\ timerId' = timerId /\ unsaved' = TRUE
    /\ told' = told \cup PlaceTold(w)
    /\ UNCHANGED disk

\* A change of the place.
SavePosition(w) ==
    /\ own' = SaveWindowPosition(own, connected, w)
    /\ timerId' = TRUE /\ unsaved' = TRUE
    /\ told' = told \cup PlaceTold(w)
    /\ UNCHANGED disk

\* A change of both, when the window system reports a new geometry.
SaveBoth(w) ==
    /\ own' = SaveWindowSize(SaveWindowPosition(own, connected, w), connected, w)
    /\ timerId' = TRUE /\ unsaved' = TRUE
    /\ told' = told \cup SizeTold(w) \cup PlaceTold(w)
    /\ UNCHANGED disk

\* timerEvent(), which syncs, and does not look at what that returns.
TimerEvent ==
    /\ open /\ timerId
    /\ disk' = own
    /\ timerId' = FALSE /\ unsaved' = FALSE
    /\ UNCHANGED <<connected, open, window, platform, own, system, told, kept, events>>

\* The window is closed, and the saver goes with it.  The KConfig object is synchronized when
\* nothing else uses it.
Close(inUse) ==
    /\ open
    /\ open' = FALSE
    /\ disk' = IF inUse THEN disk ELSE own
    /\ UNCHANGED <<connected, window, platform, own, system, timerId, unsaved, told, kept, events>>

-----------------------------------------------------------------------------
(* The user, and the window system *)

Event == events < MaxEvents /\ events' = events + 1

AtRest == open /\ due = {}

Resize(s) ==
    /\ AtRest /\ ~window.maximized /\ s # window.size
    /\ Event
    /\ window' = [window EXCEPT !.size = s]
    /\ SaveSize(window')
    /\ UNCHANGED <<connected, open, platform, system, kept>>

Move(p) ==
    /\ AtRest /\ ~window.maximized /\ p # window.place /\ ScreenAt[p] \in connected
    /\ Event
    /\ window' = At(connected, window, p)
    /\ SavePosition(window')
    /\ UNCHANGED <<connected, open, platform, system, kept>>

\* The user maximizes the window or takes that back; the window system has yet to tell.
Toggle ==
    /\ AtRest
    /\ Event
    /\ goal' = ~window.maximized
    /\ normal' = IF goal' THEN Geometry(window) ELSE normal
    /\ due' = {"state", "geometry"}
    /\ UNCHANGED <<connected, open, window, object, system, timerId, unsaved, told, kept>>

Due(what) ==
    /\ open /\ what \in due
    /\ Cardinality(due) = 2 => what \in FirstTold[goal]
    /\ due' = due \ {what}
    /\ UNCHANGED <<connected, open, normal, goal, system, kept, events>>

TellState ==
    /\ Due("state")
    /\ window' = [window EXCEPT !.maximized = goal]
    /\ SaveSize(window')

\* A maximized window fills its screen.
TellGeometry ==
    /\ Due("geometry")
    /\ window' = IF goal
                 THEN [window EXCEPT !.size = ScreenSize[window.screen],
                                     !.place = PlacedAt[window.screen]]
                 ELSE [At(connected, window, normal.place) EXCEPT !.size = normal.size]
    /\ SaveBoth(window')

\* What is stored is stored for any arrangement like this one.
Alike(a, b) ==
    /\ Cardinality(a) = Cardinality(b)
    /\ Cardinality(a) = 1 => ScreenSize[Primary[a]] = ScreenSize[Primary[b]]

\* The size a window goes back to, or has.
NormalSize == IF window.maximized THEN normal.size ELSE window.size

\* A window at its initial size is not stored, and gets the size the system has for it.
SystemSizes == HasDefault(SizeKey(connected)) /\ NormalSize = window.initialSize

\* The place that is stored is the one that stands for none.
StoredAsNone == Read(own, PositionKey(connected)) = Unset

\* What the window is like, if it was stored and can be restored.
Kept ==
    IF due = {} /\ told = {"size", "place"} /\ ~SystemSizes /\ ~StoredAsNone
    THEN [window EXCEPT !.size = NormalSize]
    ELSE Unknown

\* Screens come and go.  A window whose screen goes is put on the primary one.
Rearrange(a) ==
    /\ due = {}
    /\ a # connected
    /\ Event
    /\ connected' = a
    /\ told' = {}
    /\ kept' = [b \in Arrangements |->
                   IF Alike(a, b) THEN Unknown ELSE IF b = connected THEN Kept ELSE kept[b]]
    /\ IF ~open \/ window.screen \in a
       THEN UNCHANGED <<window, own, timerId, unsaved>>
       ELSE /\ window' = At(a, window, PlacedAt[Primary[a]])
            /\ own' = SaveWindowPosition(own, a, window')
            /\ timerId' = TRUE /\ unsaved' = TRUE
    /\ UNCHANGED <<open, platform, disk, system>>

\* The program dies, and with it what was not in the file.
Crash ==
    /\ open' = FALSE /\ due' = {}
    /\ own' = disk
    /\ told' = {} /\ kept' = [a \in Arrangements |-> Unknown]
    /\ UNCHANGED <<connected, window, normal, goal, disk, system, timerId, unsaved, events>>

-----------------------------------------------------------------------------

Init ==
    /\ connected \in Arrangements
    /\ open = FALSE
    /\ window = NewWindow(connected) /\ normal = Geometry(window)
    /\ due = {} /\ goal = FALSE
    /\ system \in Systems
    /\ own = [k \in Key |-> Absent] /\ disk = own
    /\ timerId = FALSE /\ unsaved = FALSE
    /\ told = {} /\ kept = [a \in Arrangements |-> Unknown] /\ events = 0

Next ==
    \/ Open
    \/ TimerEvent
    \/ \E inUse \in BOOLEAN : Close(inUse)
    \/ \E s \in Sizes : Resize(s)
    \/ \E p \in Places : Move(p)
    \/ Toggle
    \/ TellState
    \/ TellGeometry
    \/ \E a \in Arrangements : Rearrange(a)
    \/ Crash

\* The event loop of the program delivers what the timer reports.
Spec == Init /\ [][Next]_vars /\ WF_vars(TimerEvent)

-----------------------------------------------------------------------------
(* Safety *)

\* A window w that is opened now for the screens in a is as the one before it, v.
SameSize(w, v) == w.maximized = v.maximized /\ w.size = v.size

SamePlace(w, v) == v.maximized \/ Wayland \/ (w.place = v.place /\ w.screen = v.screen)

\* A window comes back as it was, while it is open or after it was closed: maximized or not, with
\* the size it has when it is not, and where it was, however often it was moved, resized,
\* maximized and put back since.
ComesBack ==
    LET again == Restored(own, connected)
        now == [window EXCEPT !.size = NormalSize]
    IN  /\ due = {} /\ "size" \in told /\ ~SystemSizes => SameSize(again, now)
        /\ due = {} /\ told = {"size", "place"} /\ ~StoredAsNone => SamePlace(again, now)

\* "we save data based on the number of screens": what becomes of a window while other screens are
\* connected does not change how it is when those are back that were there before.
ScreensRemembered ==
    \A a \in Arrangements \ {connected} :
        kept[a] # Unknown =>
            SameSize(Restored(own, a), kept[a]) /\ SamePlace(Restored(own, a), kept[a])

-----------------------------------------------------------------------------
(* Liveness *)

\* "monitor the window for subsequent changes to persist": every change of a window that stays
\* open reaches the file, whatever else changes in between, and without the program's help.
ChangesAreStored == open /\ unsaved ~> ~open \/ ~unsaved
=============================================================================
