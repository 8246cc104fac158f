---------------------------- MODULE KClientsProofs ----------------------------
(***************************************************************************)
(* Proofs about what is built on KConfig: about KWindow, for any screens,  *)
(* arrangements of them, sizes and places, and any number of changes;      *)
(* about KConfigXt, for any documents, of any texts and numbers of entries *)
(* and choices, and loaders of any base group; and about KConfUpdate, for  *)
(* any number of update files, processes, upgrades and crashes.            *)
(*                                                                         *)
(* In KConfUpdate a process goes through the lines that were there when it *)
(* opened a file.  So the invariant says of each process which lines it    *)
(* has read of which content of the file (ReadTo), and what has become of  *)
(* the groups in them.  The theorems need of what is shipped what update   *)
(* files are to fulfil: OwnIds, OnceEach and, for the second, Stable.      *)
(***************************************************************************)
EXTENDS KWindow, KConfigXt, KConfUpdate, FiniteSetTheorems, SequenceTheorems,
        WellFoundedInduction, TLAPS

-----------------------------------------------------------------------------
(* KWindow: what is stored *)

StoredSize(o, a) == IF Read(o, SizeKey(a)) = Absent THEN InitialSize ELSE Read(o, SizeKey(a))

StoredState(o, a) == Read(o, MaximizedKey(a)) = TRUE

HasPlace(o, a) == Read(o, PositionKey(a)) \notin {Absent, Unset}

StoredPlace(o, a) == IF HasPlace(o, a) THEN Read(o, PositionKey(a)) ELSE PlacedAt[Primary[a]]

NamedScreen(o, a) == FindScreenByName(a, NewWindow(a), Read(o, ScreenKey(a)))

StoredScreen(o, a) ==
    IF HasPlace(o, a) /\ ScreenAt[StoredPlace(o, a)] \in a THEN ScreenAt[StoredPlace(o, a)]
    ELSE NamedScreen(o, a)

-----------------------------------------------------------------------------
(* The invariant *)

\* Entries of the user, which say where a window was only together with the screen.
EntriesOk(o) ==
    /\ o = [k \in Key |-> o[k]]
    /\ \A a \in Arrangements :
          Read(o, ScreenKey(a)) # Absent => Read(o, PositionKey(a)) # Absent

Fields == {"size", "place", "screen", "maximized", "initialSize", "initialScreenSize"}

IsWindow(w) ==
    /\ DOMAIN w = Fields
    /\ w.maximized \in BOOLEAN /\ w.initialSize = InitialSize
    /\ w.size # Absent /\ w.place # Absent

WindowOk ==
    /\ IsWindow(window)
    /\ open => window.screen \in connected
    /\ normal.size # Absent /\ normal.place # Absent

\* The window system has told of the new state or not, and of the geometry after it, when it is
\* that of a maximized window.
PhaseOk ==
    /\ goal \in BOOLEAN /\ due \subseteq {"state", "geometry"}
    /\ open => (window.maximized <=> IF "state" \in due THEN ~goal ELSE goal)
    /\ open /\ goal /\ "state" \in due => "geometry" \in due /\ normal = Geometry(window)

\* What was stored of the size and the state is what the window has or goes back to.
SizeStored ==
    "size" \in told =>
        /\ StoredState(own, connected) <=> window.maximized
        /\ ~SystemSizes => StoredSize(own, connected) = NormalSize

\* The window goes back to its normal place when it is no longer maximized.
GoesBack == window.maximized /\ (goal \/ "geometry" \in due)

\* It has still the place of a maximized window.
Between == ~window.maximized /\ ~goal /\ due = {"geometry"}

\* What was stored of the place is where the window is or goes back to.
PlaceStored ==
    "place" \in told /\ ~StoredAsNone /\ ~Wayland /\ ~Between =>
        LET w == IF GoesBack THEN At(connected, window, normal.place) ELSE window
        IN  StoredPlace(own, connected) = w.place /\ StoredScreen(own, connected) = w.screen

WindowInv ==
    /\ connected \in Arrangements
    /\ EntriesOk(own) /\ EntriesOk(disk)
    /\ WindowOk /\ PhaseOk /\ SizeStored /\ PlaceStored

\* What was kept of another arrangement shares no key with what there is now.
KeptApart == \A a \in Arrangements : kept[a] # Unknown => ~Alike(connected, a)

KeptInv == WindowInv /\ KeptApart /\ ScreensRemembered
-----------------------------------------------------------------------------
(* The keys *)

\* The keys of an arrangement are four.
LEMMA KeysOf ==
    ASSUME NEW a \in Arrangements
    PROVE  /\ {SizeKey(a), MaximizedKey(a), PositionKey(a), ScreenKey(a)} \subseteq Key
           /\ SizeKey(a) # MaximizedKey(a) /\ SizeKey(a) # PositionKey(a)
           /\ SizeKey(a) # ScreenKey(a) /\ MaximizedKey(a) # PositionKey(a)
           /\ MaximizedKey(a) # ScreenKey(a) /\ PositionKey(a) # ScreenKey(a)
<1>1. {SizeKey(a), MaximizedKey(a), PositionKey(a), ScreenKey(a)} \subseteq Key
  BY DEF Key
<1>2. \A x, y : /\ <<"Size", x>> # <<"Window-Maximized", y>> /\ <<"Size", x>> # <<"Position", y>>
                /\ <<"Size", x>> # <<"Screen", y>> /\ <<"Window-Maximized", x>> # <<"Position", y>>
                /\ <<"Window-Maximized", x>> # <<"Screen", y>>
                /\ <<"Position", x>> # <<"Screen", y>>
  OBVIOUS
<1>3. QED
  BY <1>1, <1>2 DEF SizeKey, MaximizedKey, PositionKey, ScreenKey

\* Those of arrangements that are not alike are eight.
LEMMA KeysApart ==
    ASSUME NEW a \in Arrangements, NEW b \in Arrangements, ~Alike(a, b)
    PROVE  {SizeKey(a), MaximizedKey(a), PositionKey(a), ScreenKey(a)}
               \cap {SizeKey(b), MaximizedKey(b), PositionKey(b), ScreenKey(b)} = {}
<1>1. ConfigFileString(a) # ConfigFileString(b)
  BY DEF Alike, ConfigFileString
<1>2. a # b
  BY DEF Alike
<1>3. QED
  BY <1>1, <1>2 DEF SizeKey, MaximizedKey, PositionKey, ScreenKey

\* writeEntry() has its value read afterwards, and changes no other key.
LEMMA WriteGives ==
    ASSUME NEW o, o = [k \in Key |-> o[k]], NEW k \in Key, NEW v, v # Absent
    PROVE  LET w == WriteEntry(o, k, v)
           IN  /\ w = [j \in Key |-> w[j]] /\ Read(w, k) = v
               /\ \A j \in Key : j # k => Read(w, j) = Read(o, j)
BY DEF WriteEntry, Read

\* revertToDefault() changes no other key.
LEMMA RevertGives ==
    ASSUME NEW o, o = [k \in Key |-> o[k]], NEW k \in Key
    PROVE  LET w == RevertToDefault(o, k)
           IN  /\ w = [j \in Key |-> w[j]] /\ Read(w, k) = system[k]
               /\ \A j \in Key : j # k => Read(w, j) = Read(o, j)
BY DEF RevertToDefault, Read

\* deleteEntry() changes no other key.
LEMMA DeleteGives ==
    ASSUME NEW o, o = [k \in Key |-> o[k]], NEW k \in Key
    PROVE  LET w == DeleteEntry(o, k)
           IN  /\ w = [j \in Key |-> w[j]]
               /\ \A j \in Key : j # k => Read(w, j) = Read(o, j)
BY DEF DeleteEntry, Read

-----------------------------------------------------------------------------
(* Saving and restoring *)

\* What saveWindowSize() stores is the state, and the size of a window that is not maximized.
LEMMA SizeSaved ==
    ASSUME NEW o, o = [k \in Key |-> o[k]], NEW a \in Arrangements, NEW w, IsWindow(w)
    PROVE  LET s == SaveWindowSize(o, a, w)
           IN  /\ s = [k \in Key |-> s[k]]
               /\ StoredState(s, a) <=> w.maximized
               /\ w.maximized => Read(s, SizeKey(a)) = Read(o, SizeKey(a))
               /\ ~w.maximized /\ ~(HasDefault(SizeKey(a)) /\ w.size = InitialSize)
                      => StoredSize(s, a) = w.size
               /\ \A k \in Key : k # SizeKey(a) /\ k # MaximizedKey(a) => Read(s, k) = Read(o, k)
<1> DEFINE z == SavedSize(o, a, w)
           y == IF w.maximized THEN o ELSE z
           s == SaveWindowSize(o, a, w)
           sk == SizeKey(a)
           mk == MaximizedKey(a)
<1>1. sk \in Key /\ mk \in Key /\ sk # mk
  BY KeysOf
<1>2. /\ z = [k \in Key |-> z[k]]
      /\ ~(HasDefault(sk) /\ w.size = InitialSize) => StoredSize(z, a) = w.size
      /\ \A k \in Key : k # sk /\ k # mk => Read(z, k) = Read(o, k)
  <2>1. CASE IsInitial(w)
    <3>1. z = RevertToDefault(o, sk)
      BY <2>1 DEF SavedSize
    <3>2. w.size = InitialSize
      BY <2>1 DEF IsInitial, IsWindow
    <3> HIDE DEF z, sk, mk
    <3>3. /\ z = [k \in Key |-> z[k]] /\ Read(z, sk) = system[sk]
          /\ \A k \in Key : k # sk => Read(z, k) = Read(o, k)
      BY <1>1, <3>1, RevertGives
    <3>4. QED
      BY <3>2, <3>3 DEF StoredSize, HasDefault, sk
  <2>2. CASE ~IsInitial(w)
    <3> DEFINE x == WriteEntry(o, sk, w.size)
    <3>1. z = DeleteEntry(x, mk)
      BY <2>2 DEF SavedSize
    <3> HIDE DEF z, sk, mk
    <3>2. /\ x = [k \in Key |-> x[k]] /\ Read(x, sk) = w.size
          /\ \A k \in Key : k # sk => Read(x, k) = Read(o, k)
      BY <1>1, WriteGives DEF IsWindow
    <3> HIDE DEF x
    <3>3. /\ z = [k \in Key |-> z[k]]
          /\ \A k \in Key : k # mk => Read(z, k) = Read(x, k)
      BY <1>1, <3>1, <3>2, DeleteGives
    <3>4. Read(z, sk) = w.size
      BY <1>1, <3>2, <3>3
    <3>5. StoredSize(z, a) = w.size
      BY <3>4 DEF StoredSize, sk, IsWindow
    <3>6. QED
      BY <3>2, <3>3, <3>5
  <2>3. QED
    BY <2>1, <2>2
<1>3. s = SavedState(y, a, w)
  BY DEF SaveWindowSize
<1> HIDE DEF z
<1>4. y = [k \in Key |-> y[k]]
  BY <1>2
<1> HIDE DEF y, s, sk, mk
<1>5. /\ s = [k \in Key |-> s[k]]
      /\ Read(s, mk) = TRUE <=> w.maximized
      /\ \A k \in Key : k # mk => Read(s, k) = Read(y, k)
  <2>1. CASE ~w.maximized /\ ~HasDefault(mk)
    <3>1. s = RevertToDefault(y, mk)
      BY <1>3, <2>1 DEF SavedState, mk
    <3>2. /\ s = [k \in Key |-> s[k]] /\ Read(s, mk) = system[mk]
          /\ \A k \in Key : k # mk => Read(s, k) = Read(y, k)
      BY <1>1, <1>4, <3>1, RevertGives
    <3>3. QED
      BY <2>1, <3>2, WindowAssumption DEF HasDefault
  <2>2. CASE ~(~w.maximized /\ ~HasDefault(mk))
    <3>1. s = WriteEntry(y, mk, w.maximized)
      BY <1>3, <2>2 DEF SavedState, mk
    <3>2. w.maximized # Absent
      BY WindowAssumption DEF IsWindow
    <3>3. /\ s = [k \in Key |-> s[k]] /\ Read(s, mk) = w.maximized
          /\ \A k \in Key : k # mk => Read(s, k) = Read(y, k)
      BY <1>1, <1>4, <3>1, <3>2, WriteGives
    <3>4. QED
      BY <3>3 DEF IsWindow
  <2>3. QED
    BY <2>1, <2>2
<1>6. Read(s, sk) = Read(y, sk)
  BY <1>1, <1>5
<1>7. w.maximized => Read(s, sk) = Read(o, sk)
  BY <1>6 DEF y
<1>8. ~w.maximized => StoredSize(s, a) = StoredSize(z, a)
  BY <1>6 DEF y, StoredSize, sk
<1>9. \A k \in Key : k # sk /\ k # mk => Read(s, k) = Read(o, k)
  BY <1>2, <1>5 DEF y
<1>10. QED
  BY <1>2, <1>5, <1>7, <1>8, <1>9 DEF StoredState, s, sk, mk

\* What saveWindowPosition() stores, when it does, is where the window is.
LEMMA PlaceSaved ==
    ASSUME NEW o, EntriesOk(o), NEW a \in Arrangements, NEW w, IsWindow(w), w.screen \in a
    PROVE  LET s == SaveWindowPosition(o, a, w)
           IN  /\ EntriesOk(s)
               /\ Wayland \/ w.maximized => s = o
               /\ ~Wayland /\ ~w.maximized =>
                      /\ Read(s, PositionKey(a)) = w.place
                      /\ Read(s, ScreenKey(a)) = w.screen
               /\ \A k \in Key : k # PositionKey(a) /\ k # ScreenKey(a) => Read(s, k) = Read(o, k)
<1> DEFINE pk == PositionKey(a)
           nk == ScreenKey(a)
           x == WriteEntry(o, pk, w.place)
           s == SaveWindowPosition(o, a, w)
<1>1. pk \in Key /\ nk \in Key /\ pk # nk
  BY KeysOf
<1>2. CASE Wayland \/ w.maximized
  BY <1>2 DEF SaveWindowPosition
<1>3. CASE ~Wayland /\ ~w.maximized
  <2>1. s = WriteEntry(x, nk, w.screen)
    BY <1>3 DEF SaveWindowPosition, WrittenPosition
  <2> HIDE DEF s, pk, nk
  <2>2. /\ x = [k \in Key |-> x[k]] /\ Read(x, pk) = w.place
        /\ \A k \in Key : k # pk => Read(x, k) = Read(o, k)
    BY <1>1, WriteGives DEF IsWindow, EntriesOk
  <2> HIDE DEF x
  <2>3. w.screen # Absent
    BY WindowAssumption
  <2>4. /\ s = [k \in Key |-> s[k]] /\ Read(s, nk) = w.screen
        /\ \A k \in Key : k # nk => Read(s, k) = Read(x, k)
    BY <1>1, <2>1, <2>2, <2>3, WriteGives
  <2>5. Read(s, pk) = w.place /\ \A k \in Key : k # pk /\ k # nk => Read(s, k) = Read(o, k)
    BY <1>1, <2>2, <2>4
  <2>6. ASSUME NEW b \in Arrangements, Read(s, ScreenKey(b)) # Absent
        PROVE  Read(s, PositionKey(b)) # Absent
    <3>1. PositionKey(b) \in Key /\ ScreenKey(b) \in Key
      BY KeysOf
    <3>2. CASE PositionKey(b) = pk
      BY <2>5, <3>2 DEF IsWindow
    <3>3. CASE PositionKey(b) # pk
      <4>1. ScreenKey(b) # nk
        BY <3>3 DEF ScreenKey, PositionKey, pk, nk
      <4>2. ScreenKey(b) # pk /\ PositionKey(b) # nk
        BY DEF ScreenKey, PositionKey, pk, nk
      <4>3. QED
        BY <2>5, <2>6, <3>1, <3>3, <4>1, <4>2 DEF EntriesOk
    <3>4. QED
      BY <3>2, <3>3
  <2>7. EntriesOk(s)
    BY <2>4, <2>6 DEF EntriesOk
  <2>8. QED
    BY <1>3, <2>4, <2>5, <2>7 DEF s, pk, nk
<1>4. QED
  BY <1>2, <1>3

\* A window that is opened has what was stored.
LEMMA RestoredGives ==
    ASSUME NEW o, NEW a \in Arrangements
    PROVE  LET w == Restored(o, a)
           IN  /\ IsWindow(w) /\ w.screen \in a
               /\ w.size = StoredSize(o, a) /\ w.maximized = StoredState(o, a)
               /\ ~Wayland /\ ~w.maximized =>
                      w.place = StoredPlace(o, a) /\ w.screen = StoredScreen(o, a)
<1> DEFINE v == NewWindow(a)
           u == RestoreWindowSize(o, a, v)
           t == [u EXCEPT !.screen = FindScreenByName(a, u, Read(o, ScreenKey(a)))]
           w == Restored(o, a)
<1>1. /\ v.size = InitialSize /\ v.place = PlacedAt[Primary[a]] /\ v.screen = Primary[a]
      /\ DOMAIN v = Fields
  BY DEF NewWindow, Fields
<1>2. Fields = {"size", "place", "screen", "maximized", "initialSize", "initialScreenSize"}
  BY DEF Fields
<1>3. /\ u.size = StoredSize(o, a) /\ u.maximized = StoredState(o, a)
      /\ u.initialSize = InitialSize /\ u.place = v.place /\ u.screen = v.screen
      /\ DOMAIN u = Fields
  BY <1>1, <1>2 DEF RestoreWindowSize, StoredSize, StoredState
<1>4. w = IF Wayland \/ u.maximized THEN u ELSE RestoreWindowScreenPosition(o, a, t)
  BY DEF Restored, RestoreWindowPosition
<1>5. /\ Primary[a] \in a /\ PlacedAt[Primary[a]] # Absent /\ StoredSize(o, a) # Absent
  BY WindowAssumption DEF StoredSize
<1>6. StoredState(o, a) \in BOOLEAN
  BY DEF StoredState
<1>7. FindScreenByName(a, u, Read(o, ScreenKey(a))) = NamedScreen(o, a) /\ NamedScreen(o, a) \in a
  BY <1>1, <1>3, <1>5 DEF NamedScreen, FindScreenByName
<1> HIDE DEF v, u
<1>8. /\ t.size = u.size /\ t.maximized = u.maximized /\ t.initialSize = InitialSize
      /\ t.place = u.place /\ t.screen = NamedScreen(o, a) /\ DOMAIN t = Fields
  BY <1>2, <1>3, <1>7
<1> HIDE DEF t, w
<1>9. CASE Wayland \/ u.maximized
  BY <1>1, <1>3, <1>4, <1>5, <1>6, <1>9 DEF IsWindow, w
<1>10. CASE ~Wayland /\ ~u.maximized /\ ~HasPlace(o, a)
  <2>1. w = t
    BY <1>4, <1>10 DEF RestoreWindowScreenPosition, HasPlace
  <2>2. StoredPlace(o, a) = t.place /\ StoredScreen(o, a) = t.screen
    BY <1>1, <1>3, <1>8, <1>10 DEF StoredPlace, StoredScreen
  <2>3. IsWindow(w) /\ w.screen \in a
    BY <1>1, <1>3, <1>5, <1>6, <1>7, <1>8, <2>1 DEF IsWindow
  <2>4. QED
    BY <1>3, <1>8, <2>1, <2>2, <2>3 DEF w
<1>11. CASE ~Wayland /\ ~u.maximized /\ HasPlace(o, a)
  <2>1. w = At(a, t, Read(o, PositionKey(a))) /\ Read(o, PositionKey(a)) # Absent
    BY <1>4, <1>11 DEF RestoreWindowScreenPosition, HasPlace
  <2>2. StoredPlace(o, a) = Read(o, PositionKey(a))
    BY <1>11 DEF StoredPlace
  <2>3. StoredScreen(o, a) = FindScreenByName(a, t, ScreenAt[StoredPlace(o, a)])
    BY <1>8, <1>11 DEF StoredScreen, FindScreenByName
  <2>4. /\ w.size = t.size /\ w.maximized = t.maximized /\ w.initialSize = InitialSize
        /\ w.place = StoredPlace(o, a) /\ w.screen = StoredScreen(o, a) /\ DOMAIN w = Fields
    BY <1>2, <1>8, <2>1, <2>2, <2>3 DEF At
  <2>5. StoredScreen(o, a) \in a
    BY <1>7 DEF StoredScreen
  <2>6. QED
    BY <1>3, <1>5, <1>6, <1>8, <2>1, <2>2, <2>4, <2>5 DEF IsWindow, w
<1>12. QED
  BY <1>9, <1>10, <1>11

\* What is stored of a place and its screen agrees, unless the place stands for none.
LEMMA StoredTogether ==
    ASSUME NEW o, EntriesOk(o), NEW a \in Arrangements, Read(o, PositionKey(a)) # Unset,
           ScreenAt[StoredPlace(o, a)] \in a
    PROVE  StoredScreen(o, a) = ScreenAt[StoredPlace(o, a)]
<1>1. CASE HasPlace(o, a)
  BY <1>1 DEF StoredScreen
<1>2. CASE ~HasPlace(o, a)
  <2>1. Read(o, PositionKey(a)) = Absent
    BY <1>2 DEF HasPlace
  <2>2. Read(o, ScreenKey(a)) = Absent
    BY <2>1 DEF EntriesOk
  <2>3. Absent \notin a /\ ScreenAt[PlacedAt[Primary[a]]] = Primary[a]
    BY WindowAssumption
  <2>4. NamedScreen(o, a) = Primary[a]
    BY <2>2, <2>3 DEF NamedScreen, FindScreenByName, NewWindow
  <2>5. QED
    BY <1>2, <2>3, <2>4 DEF StoredScreen, StoredPlace
<1>3. QED
  BY <1>1, <1>2

\* Where a window is whose place was just stored is restored, unless it stands for none.
LEMMA PlaceRead ==
    ASSUME NEW s, NEW a \in Arrangements, NEW w, w.place # Absent, w.screen \in a,
           ScreenAt[w.place] \in a => w.screen = ScreenAt[w.place],
           Read(s, PositionKey(a)) = w.place, Read(s, ScreenKey(a)) = w.screen,
           Read(s, PositionKey(a)) # Unset
    PROVE  StoredPlace(s, a) = w.place /\ StoredScreen(s, a) = w.screen
<1>1. HasPlace(s, a) /\ StoredPlace(s, a) = w.place
  BY DEF HasPlace, StoredPlace
<1>2. NamedScreen(s, a) = w.screen
  BY DEF NamedScreen, FindScreenByName
<1>3. QED
  BY <1>1, <1>2 DEF StoredScreen

\* A window that is moved is on the screen of its place.
LEMMA AtGives ==
    ASSUME NEW a, NEW w, DOMAIN w = Fields, NEW p
    PROVE  LET v == At(a, w, p)
           IN  /\ DOMAIN v = Fields /\ v.place = p
               /\ w.screen \in a => v.screen \in a
               /\ v.screen = IF ScreenAt[p] \in a THEN ScreenAt[p] ELSE w.screen
               /\ v.size = w.size /\ v.maximized = w.maximized /\ v.initialSize = w.initialSize
BY DEF Fields, At, FindScreenByName

-----------------------------------------------------------------------------
(* The steps *)

\* The size and the state are stored of the window there is now.
LEMMA SizeStep ==
    ASSUME WindowInv, UNCHANGED <<connected, system>>, IsWindow(window'),
           NEW o, o = [k \in Key |-> o[k]],
           Read(o, SizeKey(connected)) = Read(own, SizeKey(connected)),
           own' = SaveWindowSize(o, connected, window'),
           "size" \in told' /\ window'.maximized => "size" \in told,
           window'.maximized => normal'.size = NormalSize
    PROVE  /\ SizeStored'
           /\ \A k \in Key : k # SizeKey(connected) /\ k # MaximizedKey(connected)
                                 => Read(own', k) = Read(o, k)
           /\ own' = [k \in Key |-> own'[k]]
<1> DEFINE sk == SizeKey(connected)
<1>1. connected \in Arrangements
  BY DEF WindowInv
<1>2. /\ own' = [k \in Key |-> own'[k]]
      /\ StoredState(own', connected) <=> window'.maximized
      /\ window'.maximized => Read(own', sk) = Read(own, sk)
      /\ ~window'.maximized /\ ~(HasDefault(sk) /\ window'.size = InitialSize)
             => StoredSize(own', connected) = window'.size
      /\ \A k \in Key : k # sk /\ k # MaximizedKey(connected) => Read(own', k) = Read(o, k)
  BY <1>1, SizeSaved
<1>3. /\ StoredState(own, connected)' = StoredState(own', connected)
      /\ StoredSize(own, connected)' = StoredSize(own', connected)
  BY DEF StoredState, StoredSize, Read, SizeKey, MaximizedKey
<1>4. /\ NormalSize' = IF window'.maximized THEN NormalSize ELSE window'.size
      /\ SystemSizes' <=> HasDefault(sk) /\ NormalSize' = InitialSize
      /\ SystemSizes <=> HasDefault(sk) /\ NormalSize = InitialSize
  BY DEF WindowInv, WindowOk, IsWindow, NormalSize, SystemSizes, HasDefault, SizeKey
<1>5. ASSUME "size" \in told', ~SystemSizes'
      PROVE  StoredSize(own', connected) = NormalSize'
  <2>1. CASE window'.maximized
    <3>1. ~SystemSizes /\ NormalSize' = NormalSize
      BY <1>4, <1>5, <2>1
    <3>2. StoredSize(own, connected) = NormalSize
      BY <1>5, <2>1, <3>1 DEF WindowInv, SizeStored
    <3>3. StoredSize(own', connected) = StoredSize(own, connected)
      BY <1>2, <2>1 DEF StoredSize
    <3>4. QED
      BY <3>1, <3>2, <3>3
  <2>2. CASE ~window'.maximized
    BY <1>2, <1>4, <1>5, <2>2
  <2>3. QED
    BY <2>1, <2>2
<1>6. SizeStored'
  BY <1>2, <1>3, <1>5 DEF SizeStored
<1>7. QED
  BY <1>2, <1>6

\* What is stored of the place is what it was.
LEMMA SamePlaceStored ==
    ASSUME UNCHANGED <<connected, system>>,
           Read(own', PositionKey(connected)) = Read(own, PositionKey(connected)),
           Read(own', ScreenKey(connected)) = Read(own, ScreenKey(connected))
    PROVE  /\ StoredPlace(own, connected)' = StoredPlace(own, connected)
           /\ StoredScreen(own, connected)' = StoredScreen(own, connected)
           /\ StoredAsNone' <=> StoredAsNone
<1>1. \A k : Read(own, k)' = Read(own', k)
  BY DEF Read
<1>2. /\ Read(own, PositionKey(connected))' = Read(own, PositionKey(connected))
      /\ Read(own, ScreenKey(connected))' = Read(own, ScreenKey(connected))
  BY <1>1 DEF PositionKey, ScreenKey, Read
<1>3. HasPlace(own, connected)' <=> HasPlace(own, connected)
  BY <1>2 DEF HasPlace
<1>4. StoredPlace(own, connected)' = StoredPlace(own, connected)
  BY <1>2, <1>3 DEF StoredPlace
<1>5. NamedScreen(own, connected)' = NamedScreen(own, connected)
  BY <1>2 DEF NamedScreen, FindScreenByName, NewWindow
<1>6. QED
  BY <1>2, <1>3, <1>4, <1>5 DEF StoredScreen, StoredAsNone

\* A size that is stored leaves the entries of the places as they were.
LEMMA EntriesKept ==
    ASSUME UNCHANGED system, NEW a \in Arrangements, NEW o, EntriesOk(o),
           own' = [k \in Key |-> own'[k]],
           \A k \in Key : k # SizeKey(a) /\ k # MaximizedKey(a) => Read(own', k) = Read(o, k)
    PROVE  /\ EntriesOk(own)'
           /\ \A b \in Arrangements : /\ Read(own', PositionKey(b)) = Read(o, PositionKey(b))
                                      /\ Read(own', ScreenKey(b)) = Read(o, ScreenKey(b))
<1>1. \A b \in Arrangements : /\ PositionKey(b) \in Key /\ ScreenKey(b) \in Key
                              /\ PositionKey(b) \notin {SizeKey(a), MaximizedKey(a)}
                              /\ ScreenKey(b) \notin {SizeKey(a), MaximizedKey(a)}
  <2>1. \A x, y : /\ <<"Position", x>> # <<"Size", y>> /\ <<"Screen", x>> # <<"Size", y>>
                  /\ <<"Position", x>> # <<"Window-Maximized", y>>
                  /\ <<"Screen", x>> # <<"Window-Maximized", y>>
    OBVIOUS
  <2>2. QED
    BY <2>1, KeysOf DEF SizeKey, MaximizedKey, PositionKey, ScreenKey
<1>2. \A b \in Arrangements : /\ Read(own', PositionKey(b)) = Read(o, PositionKey(b))
                              /\ Read(own', ScreenKey(b)) = Read(o, ScreenKey(b))
  BY <1>1
<1>3. \A k : Read(own, k)' = Read(own', k)
  BY DEF Read
<1>4. \A b \in Arrangements : /\ Read(own, PositionKey(b))' = Read(own', PositionKey(b))
                              /\ Read(own, ScreenKey(b))' = Read(own', ScreenKey(b))
  BY <1>3 DEF PositionKey, ScreenKey
<1>5. QED
  BY <1>2, <1>4 DEF EntriesOk

\* So does anything that leaves all entries alone.
LEMMA EntriesSame ==
    ASSUME UNCHANGED system
    PROVE  /\ EntriesOk(own') => EntriesOk(own)'
           /\ EntriesOk(disk') => EntriesOk(disk)'
BY DEF EntriesOk, Read, PositionKey, ScreenKey

\* What the window system tells, and the user does, of the state and the size.
LEMMA SizeSteps ==
    ASSUME WindowInv, FirstTold[TRUE] = {"state"},
           TellState \/ \E s \in Sizes : Resize(s)
    PROVE  WindowInv'
<1> USE DEF WindowInv
<1>1. CASE TellState
  <2>1. /\ open /\ "state" \in due /\ due' = due \ {"state"}
        /\ window' = [window EXCEPT !.maximized = goal]
        /\ own' = SaveWindowSize(own, connected, window')
        /\ told' = told \cup SizeTold(window')
        /\ UNCHANGED <<connected, open, normal, goal, system, disk>>
    BY <1>1 DEF TellState, Due, SaveSize
  <2>2. /\ IsWindow(window') /\ window'.maximized = goal /\ window'.size = window.size
        /\ window'.place = window.place /\ window'.screen = window.screen
        /\ window.maximized = ~goal /\ goal \in BOOLEAN
        /\ goal => "geometry" \in due /\ normal = Geometry(window)
    BY <2>1 DEF WindowOk, PhaseOk, IsWindow, Fields
  <2>3. window'.maximized => normal'.size = NormalSize
    BY <2>1, <2>2 DEF NormalSize, Geometry
  <2>4. "size" \in told' /\ window'.maximized => "size" \in told
    BY <2>1 DEF SizeTold
  <2>5. /\ SizeStored'
        /\ \A k \in Key : k # SizeKey(connected) /\ k # MaximizedKey(connected)
                              => Read(own', k) = Read(own, k)
        /\ own' = [k \in Key |-> own'[k]]
    BY <2>1, <2>2, <2>3, <2>4, SizeStep DEF EntriesOk
  <2>6. /\ EntriesOk(own)'
        /\ Read(own', PositionKey(connected)) = Read(own, PositionKey(connected))
        /\ Read(own', ScreenKey(connected)) = Read(own, ScreenKey(connected))
    BY <2>1, <2>5, EntriesKept
  <2>7. PlaceStored'
    <3> SUFFICES ASSUME "place" \in told', ~StoredAsNone', ~Wayland, ~Between'
                 PROVE  LET w == IF GoesBack' THEN At(connected', window', normal'.place)
                                 ELSE window'
                        IN  /\ StoredPlace(own, connected)' = w.place
                            /\ StoredScreen(own, connected)' = w.screen
      BY DEF PlaceStored, At, FindScreenByName
    <3>1. "place" \in told
      BY <2>1 DEF SizeTold
    <3>2. /\ StoredPlace(own, connected)' = StoredPlace(own, connected)
          /\ StoredScreen(own, connected)' = StoredScreen(own, connected)
          /\ ~StoredAsNone
      BY <2>1, <2>6, SamePlaceStored
    <3>3. ~Between
      BY <2>1, <2>2 DEF Between
    <3>4. CASE goal
      <4>1. ~GoesBack /\ GoesBack'
        BY <2>1, <2>2, <3>4 DEF GoesBack
      <4>2. /\ StoredPlace(own, connected) = window.place
            /\ StoredScreen(own, connected) = window.screen
        BY <3>1, <3>2, <3>3, <4>1 DEF PlaceStored
      <4>3. normal'.place = window.place
        BY <2>1, <2>2, <3>4 DEF Geometry
      <4>4. ScreenAt[window.place] \in connected => window.screen = ScreenAt[window.place]
        BY <3>2, <4>2, StoredTogether DEF StoredAsNone
      <4>5. /\ At(connected', window', normal'.place).place = window.place
            /\ At(connected', window', normal'.place).screen = window.screen
        <5>1. DOMAIN window' = Fields /\ window'.screen \in connected'
          BY <2>1, <2>2 DEF WindowOk, IsWindow
        <5>2. /\ At(connected', window', window.place).place = window.place
              /\ At(connected', window', window.place).screen =
                     IF ScreenAt[window.place] \in connected' THEN ScreenAt[window.place]
                     ELSE window'.screen
          BY <5>1, AtGives
        <5>3. QED
          BY <2>1, <2>2, <4>3, <4>4, <5>2
      <4>6. QED
        BY <3>2, <4>1, <4>2, <4>5
    <3>5. CASE ~goal
      <4>1. ~GoesBack' /\ "geometry" \notin due
        BY <2>1, <2>2, <3>5 DEF GoesBack, Between, PhaseOk
      <4>2. ~GoesBack
        BY <3>5, <4>1 DEF GoesBack
      <4>3. /\ StoredPlace(own, connected) = window.place
            /\ StoredScreen(own, connected) = window.screen
        BY <3>1, <3>2, <3>3, <4>2 DEF PlaceStored
      <4>4. QED
        BY <2>2, <3>2, <4>1, <4>3
    <3>6. QED
      BY <2>2, <3>4, <3>5
  <2>8. WindowOk' /\ PhaseOk'
    BY <2>1, <2>2 DEF WindowOk, PhaseOk
  <2>9. QED
    BY <2>1, <2>5, <2>6, <2>7, <2>8, EntriesSame
<1>2. ASSUME NEW s \in Sizes, Resize(s)
      PROVE  WindowInv'
  <2>1. /\ open /\ due = {} /\ ~window.maximized
        /\ window' = [window EXCEPT !.size = s]
        /\ own' = SaveWindowSize(own, connected, window')
        /\ told' = told \cup SizeTold(window')
        /\ UNCHANGED <<connected, open, normal, due, goal, system, disk>>
    BY <1>2 DEF Resize, AtRest, SaveSize, platform
  <2>2. /\ IsWindow(window') /\ window'.maximized = window.maximized
        /\ window'.place = window.place /\ window'.screen = window.screen
    BY <2>1, WindowAssumption DEF WindowOk, IsWindow, Fields
  <2>3. "size" \in told' /\ window'.maximized => "size" \in told
    BY <2>1, <2>2
  <2>4. /\ SizeStored'
        /\ \A k \in Key : k # SizeKey(connected) /\ k # MaximizedKey(connected)
                              => Read(own', k) = Read(own, k)
        /\ own' = [k \in Key |-> own'[k]]
    BY <2>1, <2>2, <2>3, SizeStep DEF EntriesOk
  <2>5. /\ EntriesOk(own)'
        /\ Read(own', PositionKey(connected)) = Read(own, PositionKey(connected))
        /\ Read(own', ScreenKey(connected)) = Read(own, ScreenKey(connected))
    BY <2>1, <2>4, EntriesKept
  <2>6. PlaceStored'
    <3>1. "place" \in told' => "place" \in told
      BY <2>1 DEF SizeTold
    <3>2. /\ StoredPlace(own, connected)' = StoredPlace(own, connected)
          /\ StoredScreen(own, connected)' = StoredScreen(own, connected)
          /\ StoredAsNone' <=> StoredAsNone
      BY <2>1, <2>5, SamePlaceStored
    <3>3. ~GoesBack /\ ~GoesBack' /\ ~Between
      BY <2>1, <2>2 DEF GoesBack, Between
    <3>4. QED
      BY <2>2, <3>1, <3>2, <3>3 DEF PlaceStored
  <2>7. WindowOk' /\ PhaseOk'
    BY <2>1, <2>2 DEF WindowOk, PhaseOk
  <2>8. QED
    BY <2>1, <2>4, <2>5, <2>6, <2>7, EntriesSame
<1>3. QED
  BY <1>1, <1>2

\* The window system tells of a geometry, of which all is stored.
LEMMA GeometryStep ==
    ASSUME WindowInv, FirstTold[TRUE] = {"state"}, TellGeometry
    PROVE  WindowInv'
<1> USE DEF WindowInv
<1> DEFINE o == SaveWindowPosition(own, connected, window')
<1>1. /\ open /\ "geometry" \in due /\ due' = due \ {"geometry"}
      /\ Cardinality(due) = 2 => "geometry" \in FirstTold[goal]
      /\ own' = SaveWindowSize(o, connected, window')
      /\ told' = told \cup SizeTold(window') \cup PlaceTold(window')
      /\ UNCHANGED <<connected, open, normal, goal, system, disk>>
  BY DEF TellGeometry, Due, SaveBoth
<1>2. /\ IsWindow(window) /\ window.screen \in connected /\ connected \subseteq Screens
      /\ goal \in BOOLEAN /\ due \subseteq {"state", "geometry"}
      /\ window.maximized <=> IF "state" \in due THEN ~goal ELSE goal
  BY <1>1, WindowAssumption DEF WindowOk, PhaseOk
<1>3. goal => "state" \notin due
  <2> SUFFICES ASSUME goal, "state" \in due PROVE FALSE
    OBVIOUS
  <2>1. due = {"state", "geometry"}
    BY <1>1, <1>2
  <2>2. Cardinality(due) = 2
    <3>1. Cardinality({"state"}) = 1 /\ IsFiniteSet({"state"})
      BY FS_Singleton
    <3>2. Cardinality({"state"} \cup {"geometry"}) = 2
      BY <3>1, FS_AddElement
    <3>3. {"state"} \cup {"geometry"} = {"state", "geometry"}
      OBVIOUS
    <3>4. QED
      BY <2>1, <3>2, <3>3
  <2>3. goal = TRUE
    BY <1>2
  <2>4. "geometry" \in {"state"}
    BY <1>1, <2>2, <2>3
  <2>5. QED
    BY <2>4
<1> DEFINE v == At(connected, window, normal.place)
<1>4. /\ DOMAIN v = Fields /\ v.place = normal.place /\ v.screen \in connected
      /\ v.screen = IF ScreenAt[normal.place] \in connected THEN ScreenAt[normal.place]
                    ELSE window.screen
      /\ v.size = window.size /\ v.maximized = window.maximized
      /\ v.initialSize = window.initialSize
  BY <1>2, AtGives DEF IsWindow
<1>5. /\ goal => /\ window'.size = ScreenSize[window.screen]
                 /\ window'.place = PlacedAt[window.screen] /\ window'.screen = window.screen
      /\ ~goal => /\ window'.size = normal.size /\ window'.place = normal.place
                  /\ window'.screen = v.screen
      /\ window'.maximized = window.maximized /\ DOMAIN window' = Fields
      /\ window'.initialSize = window.initialSize
  <2>1. CASE goal
    <3>1. window' = [window EXCEPT !.size = ScreenSize[window.screen],
                                   !.place = PlacedAt[window.screen]]
      BY <2>1 DEF TellGeometry
    <3>2. QED
      BY <1>2, <2>1, <3>1 DEF IsWindow, Fields
  <2>2. CASE ~goal
    <3>1. window' = [v EXCEPT !.size = normal.size]
      BY <2>2 DEF TellGeometry
    <3> HIDE DEF v
    <3>2. QED
      BY <1>4, <2>2, <3>1 DEF Fields
  <2>3. QED
    BY <2>1, <2>2
<1> HIDE DEF v
<1>6. IsWindow(window') /\ window'.screen \in connected
  BY <1>2, <1>4, <1>5, WindowAssumption DEF WindowOk, IsWindow
<1>7. /\ EntriesOk(o)
      /\ Wayland \/ window'.maximized => o = own
      /\ ~Wayland /\ ~window'.maximized => /\ Read(o, PositionKey(connected)) = window'.place
                                           /\ Read(o, ScreenKey(connected)) = window'.screen
      /\ Read(o, SizeKey(connected)) = Read(own, SizeKey(connected))
  BY <1>6, PlaceSaved, KeysOf
<1> HIDE DEF o
<1>8. window'.maximized => normal'.size = NormalSize
  BY <1>1, <1>5 DEF NormalSize
<1>9. "size" \in told' /\ window'.maximized => "size" \in told
  BY <1>1 DEF SizeTold, PlaceTold
<1>10. /\ SizeStored'
       /\ \A k \in Key : k # SizeKey(connected) /\ k # MaximizedKey(connected)
                             => Read(own', k) = Read(o, k)
       /\ own' = [k \in Key |-> own'[k]]
  <2>1. o = [k \in Key |-> o[k]]
    BY <1>7 DEF EntriesOk
  <2>2. QED
    BY <1>1, <1>6, <1>7, <1>8, <1>9, <2>1, SizeStep
<1>11. /\ EntriesOk(own)'
       /\ Read(own', PositionKey(connected)) = Read(o, PositionKey(connected))
       /\ Read(own', ScreenKey(connected)) = Read(o, ScreenKey(connected))
  BY <1>1, <1>7, <1>10, EntriesKept
<1>12. PlaceStored'
  <2> SUFFICES ASSUME "place" \in told', ~StoredAsNone', ~Wayland
               PROVE  LET w == IF GoesBack' THEN At(connected', window', normal'.place)
                               ELSE window'
                      IN  /\ StoredPlace(own, connected)' = w.place
                          /\ StoredScreen(own, connected)' = w.screen
    BY DEF PlaceStored, At, FindScreenByName
  <2>1. CASE window'.maximized
    <3>1. "place" \in told
      BY <1>1, <2>1 DEF SizeTold, PlaceTold
    <3>2. /\ StoredPlace(own, connected)' = StoredPlace(own, connected)
          /\ StoredScreen(own, connected)' = StoredScreen(own, connected)
          /\ ~StoredAsNone
      BY <1>1, <1>7, <1>11, <2>1, SamePlaceStored
    <3>3. ~Between /\ GoesBack
      BY <1>1, <1>5, <2>1 DEF Between, GoesBack
    <3>4. StoredPlace(own, connected) = normal.place /\ StoredScreen(own, connected) = v.screen
      BY <1>4, <3>1, <3>2, <3>3 DEF PlaceStored, v
    <3>5. CASE goal
      <4>1. GoesBack'
        BY <1>1, <2>1, <3>5 DEF GoesBack
      <4>2. /\ At(connected, window', normal.place).place = normal.place
            /\ At(connected, window', normal.place).screen =
                   IF ScreenAt[normal.place] \in connected THEN ScreenAt[normal.place]
                   ELSE window'.screen
        <5>1. DOMAIN window' = Fields
          BY <1>6 DEF IsWindow
        <5>2. QED
          BY <5>1 DEF At, FindScreenByName, Fields
      <4>3. QED
        BY <1>1, <1>4, <1>5, <3>2, <3>4, <3>5, <4>1, <4>2
    <3>6. CASE ~goal
      <4>1. ~GoesBack'
        BY <1>1, <3>6 DEF GoesBack
      <4>2. QED
        BY <1>5, <3>2, <3>4, <3>6, <4>1
    <3>7. QED
      BY <1>2, <3>5, <3>6
  <2>2. CASE ~window'.maximized
    <3>1. ~GoesBack' /\ ~goal
      BY <1>2, <1>3, <1>5, <2>2 DEF GoesBack
    <3>2. Read(own', PositionKey(connected)) = window'.place
          /\ Read(own', ScreenKey(connected)) = window'.screen
      BY <1>7, <1>11, <2>2
    <3>3. /\ Read(own, PositionKey(connected))' = window'.place
          /\ Read(own, ScreenKey(connected))' = window'.screen
      BY <1>1, <3>2 DEF Read, PositionKey, ScreenKey
    <3>4. Read(own', PositionKey(connected)) # Unset
      BY <3>2, <3>3 DEF StoredAsNone
    <3>5. ScreenAt[window'.place] \in connected => window'.screen = ScreenAt[window'.place]
      BY <1>4, <1>5, <3>1
    <3>6. /\ StoredPlace(own', connected) = window'.place
          /\ StoredScreen(own', connected) = window'.screen
      BY <1>6, <3>2, <3>4, <3>5, PlaceRead DEF IsWindow
    <3>7. /\ StoredPlace(own, connected)' = StoredPlace(own', connected)
          /\ StoredScreen(own, connected)' = StoredScreen(own', connected)
      BY <1>1 DEF StoredPlace, StoredScreen, HasPlace, NamedScreen, FindScreenByName, NewWindow,
                  Read, PositionKey, ScreenKey
    <3>8. QED
      BY <3>1, <3>6, <3>7
  <2>3. QED
    BY <2>1, <2>2
<1>13. WindowOk' /\ PhaseOk'
  BY <1>1, <1>2, <1>3, <1>5, <1>6 DEF WindowOk, PhaseOk
<1>14. QED
  BY <1>1, <1>10, <1>11, <1>12, <1>13, EntriesSame

\* The user moves the window.
LEMMA MoveStep ==
    ASSUME WindowInv, NEW p \in Places, Move(p)
    PROVE  WindowInv'
<1> USE DEF WindowInv
<1>1. /\ open /\ due = {} /\ ~window.maximized /\ ScreenAt[p] \in connected
      /\ window' = At(connected, window, p)
      /\ own' = SaveWindowPosition(own, connected, window')
      /\ told' = told \cup PlaceTold(window')
      /\ UNCHANGED <<connected, open, normal, due, goal, system, disk>>
  BY DEF Move, AtRest, SavePosition, platform
<1>2. /\ IsWindow(window') /\ window'.place = p /\ window'.screen = ScreenAt[p]
      /\ window'.size = window.size /\ ~window'.maximized /\ window'.screen \in connected
      /\ window'.initialSize = window.initialSize
  <2>1. DOMAIN window = Fields
    BY DEF WindowOk, IsWindow
  <2>2. /\ DOMAIN window' = Fields /\ window'.place = p /\ window'.screen = ScreenAt[p]
        /\ window'.size = window.size /\ window'.maximized = window.maximized
        /\ window'.initialSize = window.initialSize
    BY <1>1, <2>1 DEF At, FindScreenByName, Fields
  <2>3. p # Absent
    BY WindowAssumption
  <2>4. QED
    BY <1>1, <2>2, <2>3 DEF WindowOk, IsWindow
<1>3. /\ EntriesOk(own')
      /\ ~Wayland => /\ Read(own', PositionKey(connected)) = window'.place
                     /\ Read(own', ScreenKey(connected)) = window'.screen
      /\ Read(own', SizeKey(connected)) = Read(own, SizeKey(connected))
      /\ Read(own', MaximizedKey(connected)) = Read(own, MaximizedKey(connected))
  BY <1>1, <1>2, PlaceSaved, KeysOf
<1>4. SizeStored'
  <2>1. "size" \in told' => "size" \in told
    BY <1>1 DEF PlaceTold
  <2>2. /\ StoredSize(own, connected)' = StoredSize(own, connected)
        /\ StoredState(own, connected)' <=> StoredState(own, connected)
    BY <1>1, <1>3 DEF StoredSize, StoredState, Read, SizeKey, MaximizedKey
  <2>3. NormalSize' = NormalSize /\ (SystemSizes' <=> SystemSizes)
    BY <1>1, <1>2 DEF NormalSize, SystemSizes, HasDefault, SizeKey
  <2>4. QED
    BY <1>1, <1>2, <2>1, <2>2, <2>3 DEF SizeStored
<1>5. PlaceStored'
  <2> SUFFICES ASSUME ~StoredAsNone', ~Wayland
               PROVE  /\ StoredPlace(own, connected)' = window'.place
                      /\ StoredScreen(own, connected)' = window'.screen
    BY <1>2 DEF PlaceStored, GoesBack
  <2>1. Read(own', PositionKey(connected)) # Unset
    BY <1>1 DEF StoredAsNone, Read, PositionKey
  <2>2. /\ StoredPlace(own', connected) = window'.place
        /\ StoredScreen(own', connected) = window'.screen
    BY <1>2, <1>3, <2>1, PlaceRead DEF IsWindow
  <2>3. QED
    BY <1>1, <2>2 DEF StoredPlace, StoredScreen, HasPlace, NamedScreen, FindScreenByName, NewWindow,
                      Read, PositionKey, ScreenKey
<1>6. WindowOk' /\ PhaseOk'
  BY <1>1, <1>2 DEF WindowOk, PhaseOk
<1>7. QED
  BY <1>1, <1>3, <1>4, <1>5, <1>6, EntriesSame

\* The window is opened.
LEMMA OpenStep ==
    ASSUME WindowInv, Open
    PROVE  WindowInv'
<1> USE DEF WindowInv
<1>1. /\ open' = TRUE /\ window' = Restored(own, connected) /\ normal' = Geometry(window')
      /\ goal' = window'.maximized
      /\ due' = IF window'.maximized THEN {"geometry"} ELSE {}
      /\ told' = {"size"} \cup PlaceTold(window')
      /\ UNCHANGED <<connected, own, disk, system>>
  BY DEF Open, object
<1>2. /\ IsWindow(window') /\ window'.screen \in connected
      /\ window'.size = StoredSize(own, connected)
      /\ window'.maximized = StoredState(own, connected)
      /\ ~Wayland /\ ~window'.maximized => /\ window'.place = StoredPlace(own, connected)
                                           /\ window'.screen = StoredScreen(own, connected)
  BY <1>1, RestoredGives
<1>3. /\ StoredSize(own, connected)' = StoredSize(own, connected)
      /\ StoredState(own, connected)' = StoredState(own, connected)
      /\ StoredPlace(own, connected)' = StoredPlace(own, connected)
      /\ StoredScreen(own, connected)' = StoredScreen(own, connected)
  BY <1>1 DEF StoredSize, StoredState, StoredPlace, StoredScreen, HasPlace, NamedScreen,
              FindScreenByName, NewWindow, Read, SizeKey, MaximizedKey, PositionKey, ScreenKey
<1>4. normal'.size = window'.size /\ normal'.place = window'.place
  BY <1>1 DEF Geometry
<1>5. SizeStored'
  BY <1>2, <1>3, <1>4 DEF SizeStored, NormalSize
<1>6. PlaceStored'
  <2>1. "place" \in told' => ~window'.maximized
    BY <1>1 DEF PlaceTold
  <2>2. QED
    BY <1>2, <1>3, <2>1 DEF PlaceStored, GoesBack
<1>7. WindowOk'
  BY <1>1, <1>2, <1>4 DEF WindowOk, IsWindow
<1>8. PhaseOk'
  BY <1>1, <1>2 DEF PhaseOk, IsWindow
<1>9. QED
  BY <1>1, <1>5, <1>6, <1>7, <1>8, EntriesSame

\* Screens come and go, or the program dies: what was stored is of no account any more.
LEMMA ForgettingSteps ==
    ASSUME WindowInv, Crash \/ \E a \in Arrangements : Rearrange(a)
    PROVE  WindowInv'
<1> USE DEF WindowInv
<1>1. CASE Crash
  <2>1. /\ open' = FALSE /\ due' = {} /\ own' = disk /\ told' = {}
        /\ UNCHANGED <<connected, window, normal, goal, disk, system>>
    BY <1>1 DEF Crash
  <2>2. EntriesOk(own)' /\ EntriesOk(disk)'
    BY <2>1, EntriesSame
  <2>3. QED
    BY <2>1, <2>2 DEF WindowOk, PhaseOk, SizeStored, PlaceStored
<1>2. ASSUME NEW a \in Arrangements, Rearrange(a)
      PROVE  WindowInv'
  <2>1. /\ connected' = a /\ told' = {} /\ due = {}
        /\ UNCHANGED <<open, normal, due, goal, disk, system>>
    BY <1>2 DEF Rearrange, platform
  <2>2. /\ EntriesOk(own') /\ IsWindow(window') /\ (open => window'.screen \in a)
        /\ window'.maximized = window.maximized
    <3>1. CASE ~open \/ window.screen \in a
      <4>1. UNCHANGED <<window, own>>
        BY <1>2, <3>1 DEF Rearrange
      <4>2. QED
        BY <3>1, <4>1 DEF WindowOk
    <3>2. CASE ~(~open \/ window.screen \in a)
      <4>1. /\ window' = At(a, window, PlacedAt[Primary[a]])
            /\ own' = SaveWindowPosition(own, a, window')
        BY <1>2, <3>2 DEF Rearrange
      <4>2. /\ Primary[a] \in a /\ a \subseteq Screens /\ PlacedAt[Primary[a]] # Absent
            /\ ScreenAt[PlacedAt[Primary[a]]] = Primary[a]
        BY WindowAssumption
      <4>3. DOMAIN window = Fields
        BY DEF WindowOk, IsWindow
      <4>4. /\ DOMAIN window' = Fields /\ window'.place = PlacedAt[Primary[a]]
            /\ window'.screen = Primary[a] /\ window'.size = window.size
            /\ window'.maximized = window.maximized /\ window'.initialSize = window.initialSize
        BY <4>1, <4>2, <4>3 DEF At, FindScreenByName, Fields
      <4>5. IsWindow(window')
        BY <4>2, <4>4 DEF WindowOk, IsWindow
      <4>6. EntriesOk(own')
        BY <4>1, <4>2, <4>4, <4>5, PlaceSaved
      <4>7. QED
        BY <4>2, <4>4, <4>5, <4>6
    <3>3. QED
      BY <3>1, <3>2
  <2>3. WindowOk' /\ PhaseOk'
    BY <2>1, <2>2 DEF WindowOk, PhaseOk
  <2>4. QED
    BY <2>1, <2>2, <2>3, EntriesSame DEF SizeStored, PlaceStored
<1>3. QED
  BY <1>1, <1>2

\* The other steps store nothing.
LEMMA OtherSteps ==
    ASSUME WindowInv,
           Toggle \/ TimerEvent \/ (\E inUse \in BOOLEAN : Close(inUse)) \/ UNCHANGED vars
    PROVE  WindowInv'
<1> USE DEF WindowInv
<1>1. /\ UNCHANGED <<connected, own, system, told, window>>
      /\ disk' \in {disk, own}
      /\ \/ Toggle
         \/ UNCHANGED <<normal, due, goal>> /\ (open' => open)
  BY DEF Toggle, TimerEvent, Close, vars, object, platform
<1>2. /\ StoredSize(own, connected)' = StoredSize(own, connected)
      /\ StoredState(own, connected)' = StoredState(own, connected)
      /\ StoredPlace(own, connected)' = StoredPlace(own, connected)
      /\ StoredScreen(own, connected)' = StoredScreen(own, connected)
      /\ StoredAsNone' <=> StoredAsNone
  BY <1>1 DEF StoredSize, StoredState, StoredPlace, StoredScreen, HasPlace, NamedScreen,
              StoredAsNone, FindScreenByName, NewWindow, Read, SizeKey, MaximizedKey, PositionKey,
              ScreenKey
<1>3. EntriesOk(own)' /\ EntriesOk(disk)'
  BY <1>1, EntriesSame
<1>4. CASE UNCHANGED <<normal, due, goal>> /\ (open' => open)
  <2>1. WindowOk' /\ PhaseOk'
    BY <1>1, <1>4 DEF WindowOk, PhaseOk
  <2>2. NormalSize' = NormalSize /\ (SystemSizes' <=> SystemSizes)
    BY <1>1, <1>4 DEF NormalSize, SystemSizes, HasDefault, SizeKey
  <2>3. SizeStored'
    BY <1>1, <1>2, <2>2 DEF SizeStored
  <2>4. PlaceStored'
    BY <1>1, <1>2, <1>4 DEF PlaceStored, GoesBack, Between, At, FindScreenByName
  <2>5. QED
    BY <1>1, <1>3, <2>1, <2>3, <2>4
<1>5. CASE Toggle
  <2>1. /\ open /\ due = {} /\ goal' = ~window.maximized /\ due' = {"state", "geometry"}
        /\ normal' = IF goal' THEN Geometry(window) ELSE normal
        /\ UNCHANGED open
    BY <1>5 DEF Toggle, AtRest
  <2>2. /\ window.maximized \in BOOLEAN /\ window.maximized <=> goal
        /\ window.size # Absent /\ window.place # Absent
        /\ Geometry(window).size = window.size /\ Geometry(window).place = window.place
    BY <2>1 DEF WindowOk, PhaseOk, IsWindow, Geometry
  <2>3. NormalSize' = NormalSize /\ (SystemSizes' <=> SystemSizes)
    BY <1>1, <2>1, <2>2 DEF NormalSize, SystemSizes, HasDefault, SizeKey
  <2>4. SizeStored'
    BY <1>1, <1>2, <2>3 DEF SizeStored
  <2>5. PlaceStored'
    <3>1. /\ ~Between /\ ~Between'
          /\ (GoesBack <=> window.maximized) /\ (GoesBack' <=> window.maximized)
          /\ window.maximized => normal' = normal
      BY <1>1, <2>1, <2>2 DEF Between, GoesBack
    <3>2. CASE window.maximized
      BY <1>1, <1>2, <3>1, <3>2 DEF PlaceStored, At, FindScreenByName
    <3>3. CASE ~window.maximized
      BY <1>1, <1>2, <3>1, <3>3 DEF PlaceStored
    <3>4. QED
      BY <3>2, <3>3
  <2>6. WindowOk' /\ PhaseOk'
    BY <1>1, <2>1, <2>2 DEF WindowOk, PhaseOk
  <2>7. QED
    BY <1>1, <1>3, <2>4, <2>5, <2>6
<1>6. QED
  BY <1>1, <1>4, <1>5

\* The window system tells that a window is maximized before it tells of the size that makes it;
\* in the other order that size is stored as the window's own.
StateFirst == FirstTold[TRUE] = {"state"}

\* The system's files have a screen for a window only with a place on it, as the code writes them.
PlacesWhole ==
    \A s \in Systems, a \in Arrangements : s[ScreenKey(a)] # Absent => s[PositionKey(a)] # Absent

\* Each step keeps the invariant.
LEMMA WindowNext ==
    ASSUME WindowInv, StateFirst, [Next]_vars
    PROVE  WindowInv'
BY SizeSteps, GeometryStep, MoveStep, OpenStep, ForgettingSteps, OtherSteps DEF Next, StateFirst

\* At first nothing is stored.
LEMMA WindowInit ==
    ASSUME PlacesWhole, Init
    PROVE  WindowInv
<1>1. /\ connected \in Arrangements /\ open = FALSE /\ window = NewWindow(connected)
      /\ normal = Geometry(window) /\ due = {} /\ goal = FALSE /\ system \in Systems
      /\ own = [k \in Key |-> Absent] /\ disk = own /\ told = {}
  BY DEF Init
<1>2. \A k \in Key : Read(own, k) = system[k]
  BY <1>1 DEF Read
<1>3. EntriesOk(own)
  BY <1>1, <1>2, KeysOf DEF EntriesOk, PlacesWhole
<1>4. /\ IsWindow(window) /\ window.maximized = FALSE
      /\ normal.size # Absent /\ normal.place # Absent
  <2>1. PlacedAt[Primary[connected]] # Absent /\ InitialSize # Absent
    BY <1>1, WindowAssumption
  <2>2. QED
    BY <1>1, <2>1 DEF IsWindow, NewWindow, Fields, Geometry
<1>5. QED
  BY <1>1, <1>3, <1>4 DEF WindowInv, WindowOk, PhaseOk, SizeStored, PlaceStored

\* What the invariant says of a window that is opened again.
LEMMA InvComesBack ==
    ASSUME WindowInv
    PROVE  ComesBack
<1> DEFINE again == Restored(own, connected)
           now == [window EXCEPT !.size = NormalSize]
<1>1. /\ again.size = StoredSize(own, connected)
      /\ again.maximized = StoredState(own, connected)
      /\ ~Wayland /\ ~again.maximized => /\ again.place = StoredPlace(own, connected)
                                         /\ again.screen = StoredScreen(own, connected)
  BY RestoredGives DEF WindowInv
<1>2. /\ now.size = NormalSize /\ now.maximized = window.maximized
      /\ now.place = window.place /\ now.screen = window.screen
      /\ window.maximized \in BOOLEAN
  BY DEF WindowInv, WindowOk, IsWindow, Fields
<1>3. StoredState(own, connected) \in BOOLEAN
  BY DEF StoredState
<1> HIDE DEF again, now
<1>4. ASSUME "size" \in told, ~SystemSizes
      PROVE  SameSize(again, now)
  BY <1>1, <1>2, <1>3, <1>4 DEF WindowInv, SizeStored, SameSize
<1>5. ASSUME due = {}, told = {"size", "place"}, ~StoredAsNone
      PROVE  SamePlace(again, now)
  <2> SUFFICES ASSUME ~window.maximized, ~Wayland
               PROVE  again.place = window.place /\ again.screen = window.screen
    BY <1>2 DEF SamePlace
  <2>1. ~again.maximized
    BY <1>1, <1>3, <1>5 DEF WindowInv, SizeStored
  <2>2. ~Between /\ ~GoesBack
    BY <1>5 DEF Between, GoesBack
  <2>3. QED
    BY <1>1, <1>5, <2>1, <2>2 DEF WindowInv, PlaceStored
<1>6. QED
  BY <1>4, <1>5 DEF ComesBack, again, now

\* A window comes back as it was, in whatever order it was moved, resized, maximized and put back,
\* and the window system told of it.
THEOREM AlwaysComesBack ==
    ASSUME StateFirst, PlacesWhole
    PROVE  Spec => []ComesBack
<1>1. Init => WindowInv
  BY WindowInit
<1>2. WindowInv /\ [Next]_vars => WindowInv'
  BY WindowNext
<1>3. WindowInv => ComesBack
  BY InvComesBack
<1>4. QED
  BY <1>1, <1>2, <1>3, PTL DEF Spec

-----------------------------------------------------------------------------
(* Other screens *)

KeysFor(a) == {SizeKey(a), MaximizedKey(a), PositionKey(a), ScreenKey(a)}

\* What is restored for screens depends on four keys.
LEMMA SameKeys ==
    ASSUME UNCHANGED system, NEW a \in Arrangements,
           \A k \in KeysFor(a) : Read(own', k) = Read(own, k)
    PROVE  Restored(own, a)' = Restored(own, a)
<1>1. \A k : Read(own, k)' = Read(own', k)
  BY DEF Read
<1>2. /\ Read(own, SizeKey(a))' = Read(own, SizeKey(a))
      /\ Read(own, MaximizedKey(a))' = Read(own, MaximizedKey(a))
      /\ Read(own, PositionKey(a))' = Read(own, PositionKey(a))
      /\ Read(own, ScreenKey(a))' = Read(own, ScreenKey(a))
  BY <1>1 DEF KeysFor, SizeKey, MaximizedKey, PositionKey, ScreenKey
<1>3. NewWindow(a)' = NewWindow(a)
  BY DEF NewWindow
<1>4. RestoreWindowSize(own, a, NewWindow(a))' = RestoreWindowSize(own, a, NewWindow(a))
  BY <1>2, <1>3 DEF RestoreWindowSize, FindScreenByName, NewWindow
<1>5. QED
  BY <1>2, <1>4 DEF Restored, RestoreWindowPosition, RestoreWindowScreenPosition, At,
                    FindScreenByName

\* Only a crash changes the keys of other screens than those that are connected.
LEMMA OwnKeysOnly ==
    ASSUME WindowInv, WindowInv', [Next]_vars
    PROVE  \/ Crash
           \/ /\ UNCHANGED system
              /\ \A k \in Key \ KeysFor(connected') : Read(own', k) = Read(own, k)
<1> USE DEF WindowInv
<1>1. own = [k \in Key |-> own[k]] /\ EntriesOk(own) /\ connected' \in Arrangements
      /\ IsWindow(window') /\ (open' => window'.screen \in connected')
  BY DEF EntriesOk, WindowOk
<1>2. /\ SizeKey(connected') \in KeysFor(connected')
      /\ MaximizedKey(connected') \in KeysFor(connected')
      /\ PositionKey(connected') \in KeysFor(connected')
      /\ ScreenKey(connected') \in KeysFor(connected')
  BY DEF KeysFor
<1>3. CASE TellState \/ \E s \in Sizes : Resize(s)
  <2>1. UNCHANGED <<connected, system>> /\ own' = SaveWindowSize(own, connected', window')
    BY <1>3 DEF TellState, Due, Resize, SaveSize
  <2>2. QED
    BY <1>1, <1>2, <2>1, SizeSaved
<1>4. CASE TellGeometry
  <2> DEFINE o == SaveWindowPosition(own, connected', window')
  <2>1. /\ UNCHANGED <<connected, system>> /\ own' = SaveWindowSize(o, connected', window')
        /\ window'.screen \in connected'
    BY <1>1, <1>4 DEF TellGeometry, Due, SaveBoth
  <2>2. EntriesOk(o) /\ \A k \in Key \ KeysFor(connected') : Read(o, k) = Read(own, k)
    BY <1>1, <1>2, <2>1, PlaceSaved
  <2>3. o = [k \in Key |-> o[k]]
    BY <2>2 DEF EntriesOk
  <2> HIDE DEF o
  <2>4. \A k \in Key \ KeysFor(connected') : Read(own', k) = Read(o, k)
    BY <1>1, <1>2, <2>1, <2>3, SizeSaved
  <2>5. QED
    BY <2>1, <2>2, <2>4
<1>5. CASE (\E p \in Places : Move(p)) \/ \E a \in Arrangements : Rearrange(a)
  <2>1. /\ UNCHANGED system
        /\ own' = own \/ (own' = SaveWindowPosition(own, connected', window') /\ open')
    BY <1>5 DEF Move, AtRest, SavePosition, Rearrange
  <2>2. CASE own' = own
    BY <2>1, <2>2
  <2>3. CASE own' # own
    <3>1. own' = SaveWindowPosition(own, connected', window') /\ window'.screen \in connected'
      BY <1>1, <2>1, <2>3
    <3>2. QED
      BY <1>1, <1>2, <2>1, <3>1, PlaceSaved
  <2>4. QED
    BY <2>2, <2>3
<1>6. CASE Open \/ Toggle \/ TimerEvent \/ (\E u \in BOOLEAN : Close(u)) \/ UNCHANGED vars
  <2>1. UNCHANGED <<own, system>>
    BY <1>6 DEF Open, Toggle, TimerEvent, Close, vars, object
  <2>2. QED
    BY <2>1
<1>7. QED
  BY <1>3, <1>4, <1>5, <1>6 DEF Next

\* What is kept of screens that are away is what would be restored for them.
LEMMA KeptNext ==
    ASSUME KeptInv, WindowInv', [Next]_vars
    PROVE  KeptApart' /\ ScreensRemembered'
<1> USE DEF KeptInv
<1> DEFINE Like(w, v) == SameSize(w, v) /\ SamePlace(w, v)
<1>1. CASE Crash
  BY <1>1 DEF Crash, KeptApart, ScreensRemembered
<1>2. ASSUME ~Crash, NEW b \in Arrangements, ~Alike(connected', b)
      PROVE  Restored(own, b)' = Restored(own, b)
  <2>1. KeysFor(b) \subseteq Key \ KeysFor(connected')
    BY <1>2, KeysOf, KeysApart DEF KeysFor, WindowInv
  <2>2. \A k \in KeysFor(b) : Read(own', k) = Read(own, k)
    BY <1>2, <2>1, OwnKeysOnly
  <2>3. UNCHANGED system
    BY <1>2, OwnKeysOnly
  <2>4. QED
    BY <2>2, <2>3, SameKeys
<1>3. ASSUME ~Crash, NEW a \in Arrangements, Rearrange(a)
      PROVE  KeptApart' /\ ScreensRemembered'
  <2>1. /\ connected' = a
        /\ kept' = [b \in Arrangements |->
                       IF Alike(a, b) THEN Unknown ELSE IF b = connected THEN Kept ELSE kept[b]]
    BY <1>3 DEF Rearrange
  <2>2. KeptApart'
    BY <2>1 DEF KeptApart, Alike
  <2>3. ASSUME NEW b \in Arrangements, kept'[b] # Unknown
        PROVE  Like(Restored(own, b)', kept'[b])
    <3>1. ~Alike(a, b) /\ kept'[b] = IF b = connected THEN Kept ELSE kept[b]
      BY <2>1, <2>3
    <3>2. Restored(own, b)' = Restored(own, b)
      BY <1>2, <1>3, <2>1, <3>1
    <3>3. Like(Restored(own, b), kept'[b])
      <4>1. CASE b = connected
        <5>1. /\ due = {} /\ told = {"size", "place"} /\ ~SystemSizes /\ ~StoredAsNone
              /\ kept'[b] = [window EXCEPT !.size = NormalSize]
          BY <2>3, <3>1, <4>1 DEF Kept
        <5>2. QED
          BY <4>1, <5>1, InvComesBack DEF ComesBack
      <4>2. CASE b # connected
        BY <2>3, <3>1, <4>2 DEF ScreensRemembered
      <4>3. QED
        BY <4>1, <4>2
    <3>4. QED
      BY <3>2, <3>3
  <2>4. ScreensRemembered'
    BY <2>3 DEF ScreensRemembered, SameSize, SamePlace
  <2>5. QED
    BY <2>2, <2>4
<1>4. CASE ~Crash /\ ~\E a \in Arrangements : Rearrange(a)
  <2>1. UNCHANGED <<kept, connected>>
    BY <1>4 DEF Next, Open, TimerEvent, Close, Resize, Move, Toggle, TellState, TellGeometry, Due,
                vars
  <2>2. KeptApart'
    BY <2>1 DEF KeptApart, Alike
  <2>3. ASSUME NEW b \in Arrangements \ {connected}, kept[b] # Unknown
        PROVE  Like(Restored(own, b)', kept[b])
    <3>1. ~Alike(connected', b)
      BY <2>1, <2>3 DEF KeptApart
    <3>2. Restored(own, b)' = Restored(own, b)
      BY <1>2, <1>4, <3>1
    <3>3. QED
      BY <2>3, <3>2 DEF ScreensRemembered
  <2>4. ScreensRemembered'
    BY <2>1, <2>3 DEF ScreensRemembered, SameSize, SamePlace
  <2>5. QED
    BY <2>2, <2>4
<1>5. QED
  BY <1>1, <1>3, <1>4

\* What a window was like on screens that are away is not touched by what becomes of it on others,
\* however often they change.
THEOREM ScreensAlwaysRemembered ==
    ASSUME StateFirst, PlacesWhole
    PROVE  Spec => []ScreensRemembered
<1>1. Init => KeptInv
  <2>1. ASSUME Init PROVE KeptApart /\ ScreensRemembered
    BY <2>1 DEF Init, KeptApart, ScreensRemembered
  <2>2. QED
    BY <2>1, WindowInit DEF KeptInv
<1>2. KeptInv /\ [Next]_vars => KeptInv'
  BY WindowNext, KeptNext DEF KeptInv
<1>3. KeptInv => ScreensRemembered
  BY DEF KeptInv
<1>4. QED
  BY <1>1, <1>2, <1>3, PTL DEF Spec


-----------------------------------------------------------------------------
\* What holds at first, and at each number when it does at the one before, holds up to n.
LEMMA CountUp ==
    ASSUME NEW n \in Nat, NEW T, 0 \in T, \A i \in 1 .. n : i - 1 \in T => i \in T
    PROVE  \A i \in 0 .. n : i \in T
<1> DEFINE R == OpToRel(<, Nat)
           Left == {i \in 0 .. n : i \notin T}
<1>1. IsWellFoundedOn(R, Nat)
  BY NatLessThanWellFounded
<1>2. SUFFICES ASSUME Left # {} PROVE FALSE
  OBVIOUS
<1>3. Left \subseteq Nat
  OBVIOUS
<1> HIDE DEF R, Left
<1>4. PICK x \in Left : \A y \in Left : ~ (<<y, x>> \in R)
  BY <1>1, <1>2, <1>3, WFMin
<1>5. \A y \in Left : ~(y < x)
  BY <1>3, <1>4 DEF OpToRel, R
<1>6. x \in 1 .. n /\ x - 1 \in T
  BY <1>5 DEF Left
<1>7. QED
  BY <1>6 DEF Left

-----------------------------------------------------------------------------
(* KConfigXt: sequences whose elements have no type *)

IsSeq(s) == s \in Seq({s[i] : i \in DOMAIN s})

LEMMA AnySeq ==
    ASSUME NEW S, NEW s \in Seq(S)
    PROVE  IsSeq(s)
BY DEF IsSeq

LEMMA AppendAny ==
    ASSUME NEW s, IsSeq(s), NEW e
    PROVE  /\ Len(s) \in Nat /\ DOMAIN s = 1 .. Len(s)
           /\ IsSeq(Append(s, e)) /\ Len(Append(s, e)) = Len(s) + 1
           /\ \A i \in 1 .. Len(s) : Append(s, e)[i] = s[i]
           /\ Append(s, e)[Len(s) + 1] = e
<1> DEFINE S == {s[i] : i \in DOMAIN s}
           U == S \cup {e}
           t == Append(s, e)
<1>1. s \in Seq(S)
  BY DEF IsSeq
<1> HIDE DEF S
<1>2. s \in Seq(U) /\ e \in U
  BY <1>1
<1> HIDE DEF U
<1>3. t \in Seq(U)
  BY <1>2
<1>4. /\ Len(s) \in Nat /\ DOMAIN s = 1 .. Len(s) /\ Len(t) = Len(s) + 1
      /\ \A i \in 1 .. Len(s) : t[i] = s[i]
      /\ t[Len(s) + 1] = e
  BY <1>2
<1>5. IsSeq(t)
  BY <1>3, AnySeq
<1>6. QED
  BY <1>4, <1>5

LEMMA ConcatAny ==
    ASSUME NEW s, IsSeq(s), NEW t, IsSeq(t)
    PROVE  /\ IsSeq(s \o t) /\ Len(s \o t) = Len(s) + Len(t)
           /\ \A i \in 1 .. Len(s) : (s \o t)[i] = s[i]
           /\ \A i \in 1 .. Len(t) : (s \o t)[Len(s) + i] = t[i]
<1> DEFINE S == {s[i] : i \in DOMAIN s}
           T == {t[i] : i \in DOMAIN t}
           U == S \cup T
<1>1. s \in Seq(S) /\ t \in Seq(T)
  BY DEF IsSeq
<1> HIDE DEF S, T
<1>2. s \in Seq(U) /\ t \in Seq(U)
  BY <1>1
<1> HIDE DEF U
<1>3. /\ s \o t \in Seq(U) /\ Len(s \o t) = Len(s) + Len(t)
      /\ \A i \in 1 .. Len(s) + Len(t) :
            (s \o t)[i] = IF i <= Len(s) THEN s[i] ELSE t[i - Len(s)]
  BY <1>2, ConcatProperties
<1>4. Len(s) \in Nat /\ Len(t) \in Nat
  BY <1>2
<1>5. \A i \in 1 .. Len(s) : (s \o t)[i] = s[i]
  BY <1>3, <1>4
<1>6. ASSUME NEW i \in 1 .. Len(t)
      PROVE  (s \o t)[Len(s) + i] = t[i]
  <2>1. Len(s) + i \in 1 .. Len(s) + Len(t) /\ ~(Len(s) + i <= Len(s))
        /\ (Len(s) + i) - Len(s) = i
    BY <1>4
  <2>2. QED
    BY <1>3, <2>1
<1>7. IsSeq(s \o t)
  BY <1>3, AnySeq
<1>8. QED
  BY <1>3, <1>5, <1>6, <1>7

\* A set of positions that is not empty has a first and a last one.
LEMMA Ends ==
    ASSUME NEW n \in Nat, NEW S \in SUBSET (1 .. n), S # {}
    PROVE  /\ \E i \in S : \A j \in S : i <= j
           /\ \E i \in S : \A j \in S : i >= j
<1>1. \E i \in S : \A j \in S : i <= j
  <2> DEFINE T == {k \in 0 .. n : (\A j \in S : j > k) \/ (\E i \in S : \A j \in S : i <= j)}
  <2>1. 0 \in T
    OBVIOUS
  <2>2. ASSUME NEW k \in 1 .. n, k - 1 \in T
        PROVE  k \in T
    <3>1. CASE k \in S /\ \A j \in S : j > k - 1
      <4>1. \A j \in S : k <= j
        BY <3>1
      <4>2. QED
        BY <3>1, <4>1
    <3>2. CASE k \notin S /\ \A j \in S : j > k - 1
      BY <3>2
    <3>3. CASE \E i \in S : \A j \in S : i <= j
      BY <3>3
    <3>4. QED
      BY <2>2, <3>1, <3>2, <3>3
  <2> HIDE DEF T
  <2>3. n \in T
    <3>1. \A i \in 0 .. n : i \in T
      BY <2>1, <2>2, CountUp
    <3>2. QED
      BY <3>1
  <2>4. ~(\A j \in S : j > n)
    <3>1. PICK j : j \in S
      OBVIOUS
    <3>2. QED
      BY <3>1
  <2>5. QED
    BY <2>3, <2>4 DEF T
<1>2. \E i \in S : \A j \in S : i >= j
  <2> DEFINE T == {k \in 0 .. n : \/ \A j \in S : j > k
                                  \/ \E i \in S : \A j \in S : j <= k => i >= j}
  <2>1. 0 \in T
    OBVIOUS
  <2>2. ASSUME NEW k \in 1 .. n, k - 1 \in T
        PROVE  k \in T
    <3>1. CASE k \in S
      <4>1. \A j \in S : j <= k => k >= j
        OBVIOUS
      <4>2. QED
        BY <3>1, <4>1
    <3>2. CASE k \notin S /\ \A j \in S : j > k - 1
      BY <3>2
    <3>3. CASE k \notin S /\ \E i \in S : \A j \in S : j <= k - 1 => i >= j
      BY <3>3
    <3>4. QED
      BY <2>2, <3>1, <3>2, <3>3
  <2> HIDE DEF T
  <2>3. n \in T
    <3>1. \A i \in 0 .. n : i \in T
      BY <2>1, <2>2, CountUp
    <3>2. QED
      BY <3>1
  <2>4. ~(\A j \in S : j > n)
    <3>1. PICK j : j \in S
      OBVIOUS
    <3>2. QED
      BY <3>1
  <2>5. PICK i \in S : \A j \in S : j <= n => i >= j
    BY <2>3, <2>4 DEF T
  <2>6. QED
    BY <2>5
<1>3. QED
  BY <1>1, <1>2

-----------------------------------------------------------------------------
(* Texts *)

\* Characters are removed one by one: the recursive function is one that exists.
LEMMA RemovingStep ==
    ASSUME NEW s, NEW c, Len(s) \in Nat
    PROVE  /\ Removing(s, c)[0] = Empty
           /\ \A i \in 1 .. Len(s) :
                  Removing(s, c)[i] = IF s[i] = c THEN Removing(s, c)[i - 1]
                                      ELSE Append(Removing(s, c)[i - 1], s[i])
<1> DEFINE Longer(l, i) == IF s[i] = c THEN l ELSE Append(l, s[i])
           Turn(g, i) == IF i = 0 THEN Empty ELSE Longer(g[i - 1], i)
           IsRun(g, n) == g = [i \in 0 .. n |-> Turn(g, i)]
           T == {n \in 0 .. Len(s) : \E g : IsRun(g, n)}
           p == Removing(s, c)
<1>1. 0 \in T
  <2> DEFINE g == [i \in 0 .. 0 |-> Empty]
  <2>1. IsRun(g, 0)
    OBVIOUS
  <2>2. \E q : IsRun(q, 0)
    <3> HIDE DEF IsRun
    <3> QED
      BY <2>1, Zenon
  <2>3. QED
    BY <2>2
<1>2. ASSUME NEW n \in 1 .. Len(s), n - 1 \in T
      PROVE  n \in T
  <2>1. PICK g : IsRun(g, n - 1)
    BY <1>2
  <2> DEFINE h == [i \in 0 .. n |-> IF i = n THEN Longer(g[n - 1], n) ELSE g[i]]
  <2> HIDE DEF Longer
  <2>2. h = [i \in 0 .. n |-> Turn(h, i)]
    <3> SUFFICES ASSUME NEW i \in 0 .. n PROVE h[i] = Turn(h, i)
      OBVIOUS
    <3>1. CASE i = n
      <4>1. h[n] = Longer(g[n - 1], n) /\ h[n - 1] = g[n - 1]
        OBVIOUS
      <4>2. QED
        BY <3>1, <4>1
    <3>2. CASE i # n
      <4>1. h[i] = g[i] /\ g[i] = Turn(g, i)
        BY <2>1, <3>2
      <4>2. i # 0 => h[i - 1] = g[i - 1]
        BY <3>2
      <4>3. QED
        BY <4>1, <4>2
    <3>3. QED
      BY <3>1, <3>2
  <2>3. \E q : IsRun(q, n)
    <3>1. IsRun(h, n)
      BY <2>2
    <3> HIDE DEF IsRun, h
    <3>2. QED
      BY <3>1, Zenon
  <2>4. QED
    BY <2>3
<1>3. Len(s) \in T
  <2> HIDE DEF T
  <2>1. \A i \in 0 .. Len(s) : i \in T
    BY <1>1, <1>2, CountUp
  <2>2. QED
    BY <2>1
<1>4. IsRun(p, Len(s))
  <2>1. PICK g : IsRun(g, Len(s))
    BY <1>3
  <2>2. p = CHOOSE q : IsRun(q, Len(s))
    BY DEF Removing
  <2> HIDE DEF IsRun, p
  <2>3. QED
    BY <2>1, <2>2, Zenon
<1> HIDE DEF p, Longer
<1>5. p[0] = Empty
  BY <1>4
<1>6. ASSUME NEW i \in 1 .. Len(s)
      PROVE  p[i] = Longer(p[i - 1], i)
  BY <1>4
<1>7. QED
  BY <1>5, <1>6 DEF p, Longer

\* A run of characters that are removed leaves what is left as it is.
LEMMA RemovingRun ==
    ASSUME NEW s, NEW c, Len(s) \in Nat, NEW a \in 0 .. Len(s), NEW b \in a .. Len(s),
           \A i \in a + 1 .. b : s[i] = c
    PROVE  Removing(s, c)[b] = Removing(s, c)[a]
<1> DEFINE n == b - a
           T == {k \in 0 .. n : Removing(s, c)[a + k] = Removing(s, c)[a]}
<1>1. 0 \in T
  OBVIOUS
<1>2. ASSUME NEW k \in 1 .. n, k - 1 \in T
      PROVE  k \in T
  <2>1. /\ a + k \in 1 .. Len(s) /\ a + k \in a + 1 .. b
        /\ (a + k) - 1 = a + (k - 1)
    OBVIOUS
  <2>2. Removing(s, c)[a + k] = Removing(s, c)[(a + k) - 1]
    BY <2>1, RemovingStep
  <2>3. QED
    BY <1>2, <2>1, <2>2
<1> HIDE DEF T
<1>3. n \in Nat /\ a + n = b
  OBVIOUS
<1> HIDE DEF n
<1>4. \A k \in 0 .. n : k \in T
  BY <1>1, <1>2, <1>3, CountUp
<1>5. n \in T
  BY <1>3, <1>4
<1>6. QED
  BY <1>3, <1>5 DEF T

LEMMA TextDomain ==
    ASSUME NEW s \in Texts
    PROVE  Len(s) \in Nat /\ DOMAIN s = 1 .. Len(s)
BY DEF Texts

\* What trimmed() gives is a text.
LEMMA TrimmedType ==
    ASSUME NEW s \in Texts
    PROVE  Trimmed(s) \in Texts
<1> DEFINE solid == {i \in DOMAIN s : s[i] # Space}
           first == CHOOSE i \in solid : \A j \in solid : i <= j
           last == CHOOSE i \in solid : \A j \in solid : i >= j
<1>1. CASE solid = {}
  BY <1>1 DEF Trimmed, Empty, Texts
<1>2. CASE solid # {}
  <2>1. Len(s) \in Nat /\ solid \in SUBSET (1 .. Len(s))
    BY TextDomain
  <2>2. /\ \E i \in solid : \A j \in solid : i <= j
        /\ \E i \in solid : \A j \in solid : i >= j
    <3> HIDE DEF solid
    <3> QED
      BY <1>2, <2>1, Ends
  <2> HIDE DEF solid
  <2>3. first \in 1 .. Len(s) /\ last \in 1 .. Len(s)
    BY <2>1, <2>2
  <2> HIDE DEF first, last
  <2>4. SubSeq(s, first, last) \in Texts
    BY <2>3, SubSeqProperties DEF Texts
  <2>5. QED
    BY <1>2, <2>4 DEF Trimmed, solid, first, last
<1>3. QED
  BY <1>1, <1>2

\* The spaces trimmed() takes away are among those that are removed.
LEMMA NoSpacesOfTrimmed ==
    ASSUME NEW s \in Texts
    PROVE  NoSpaces(Trimmed(s)) = NoSpaces(s)
<1> DEFINE solid == {i \in DOMAIN s : s[i] # Space}
           first == CHOOSE i \in solid : \A j \in solid : i <= j
           last == CHOOSE i \in solid : \A j \in solid : i >= j
           t == SubSeq(s, first, last)
           Of(x, i) == Removing(x, Space)[i]
<1>1. Len(s) \in Nat /\ DOMAIN s = 1 .. Len(s) /\ solid \in SUBSET (1 .. Len(s))
  BY TextDomain
<1>2. CASE solid = {}
  <2>1. \A i \in 0 + 1 .. Len(s) : s[i] = Space
    BY <1>1, <1>2
  <2>2. Of(s, Len(s)) = Of(s, 0)
    BY <1>1, <2>1, RemovingRun
  <2>3. Len(Empty) = 0
    BY DEF Empty
  <2>4. Of(s, 0) = Empty /\ Of(Empty, 0) = Empty
    BY <1>1, <2>3, RemovingStep
  <2>5. Trimmed(s) = Empty
    BY <1>2 DEF Trimmed
  <2>6. QED
    BY <2>2, <2>3, <2>4, <2>5 DEF NoSpaces, Removed
<1>3. CASE solid # {}
  <2>1. /\ \E i \in solid : \A j \in solid : i <= j
        /\ \E i \in solid : \A j \in solid : i >= j
    <3> HIDE DEF solid
    <3> QED
      BY <1>1, <1>3, Ends
  <2>2. /\ first \in solid /\ \A j \in solid : first <= j
        /\ last \in solid /\ \A j \in solid : last >= j
    <3> HIDE DEF solid
    <3> QED
      BY <2>1
  <2>3. Trimmed(s) = t
    BY <1>3 DEF Trimmed
  <2> HIDE DEF first, last
  <2>4. /\ first \in 1 .. Len(s) /\ last \in first .. Len(s)
        /\ \A i \in 1 .. Len(s) : s[i] # Space => i >= first /\ i <= last
    BY <1>1, <2>2
  <2> HIDE DEF solid
  <2>5. /\ Len(t) = (last - first) + 1
        /\ \A i \in 1 .. Len(t) : t[i] = s[(first + i) - 1]
    BY <2>4, SubSeqProperties DEF Texts
  <2> HIDE DEF t
  <2> DEFINE n == (last - first) + 1
             T == {i \in 0 .. n : Of(t, i) = Of(s, (first - 1) + i)}
  <2>6. Len(t) \in Nat /\ n \in Nat /\ Len(t) = n
    BY <2>4, <2>5
  <2>7. Of(t, 0) = Empty /\ Of(s, 0) = Empty
    BY <1>1, <2>6, RemovingStep
  <2>8. Of(s, first - 1) = Of(s, 0)
    <3>1. /\ 0 \in 0 .. Len(s) /\ first - 1 \in 0 .. Len(s)
          /\ \A i \in 0 + 1 .. first - 1 : s[i] = Space
      BY <1>1, <2>4
    <3>2. QED
      BY <1>1, <3>1, RemovingRun
  <2>9. 0 \in T
    BY <2>4, <2>6, <2>7, <2>8
  <2>10. ASSUME NEW i \in 1 .. n, i - 1 \in T
         PROVE  i \in T
    <3>1. /\ (first - 1) + i \in 1 .. Len(s) /\ ((first - 1) + i) - 1 = (first - 1) + (i - 1)
          /\ (first + i) - 1 = (first - 1) + i /\ i \in 1 .. Len(t)
      BY <1>1, <2>4, <2>6
    <3>2. t[i] = s[(first - 1) + i]
      BY <2>5, <3>1
    <3>3. Of(t, i) = IF t[i] = Space THEN Of(t, i - 1) ELSE Append(Of(t, i - 1), t[i])
      BY <2>6, <3>1, RemovingStep
    <3>4. Of(s, (first - 1) + i) =
              IF s[(first - 1) + i] = Space THEN Of(s, ((first - 1) + i) - 1)
              ELSE Append(Of(s, ((first - 1) + i) - 1), s[(first - 1) + i])
      BY <1>1, <3>1, RemovingStep
    <3>5. Of(t, i - 1) = Of(s, ((first - 1) + i) - 1)
      BY <2>10, <3>1
    <3> HIDE DEF Of
    <3>6. Of(t, i) = Of(s, (first - 1) + i)
      BY <3>2, <3>3, <3>4, <3>5
    <3>7. QED
      BY <3>6
  <2> HIDE DEF T
  <2>11. \A i \in 0 .. n : i \in T
    BY <2>6, <2>9, <2>10, CountUp
  <2>12. Of(t, n) = Of(s, (first - 1) + n)
    BY <2>6, <2>11 DEF T
  <2>13. (first - 1) + n = last
    BY <2>4
  <2>14. Of(s, Len(s)) = Of(s, last)
    <3>1. last \in 0 .. Len(s) /\ Len(s) \in last .. Len(s)
      BY <1>1, <2>4
    <3>2. \A i \in last + 1 .. Len(s) : s[i] = Space
      BY <1>1, <2>4
    <3>3. QED
      BY <1>1, <3>1, <3>2, RemovingRun
  <2>15. QED
    BY <2>3, <2>6, <2>12, <2>13, <2>14 DEF NoSpaces, Removed
<1>4. QED
  BY <1>2, <1>3

-----------------------------------------------------------------------------
(* Types *)

XtChoice == [name : ChoiceNames \cup {Empty}, value : Texts, label : Texts]

XtBounds == [{"min", "max"} -> Texts]

XtTypes == {a.type : a \in Attributes} \cup {NoType}

XtEntry ==
    [group : Texts, parent : Texts, name : Texts, key : Texts, type : XtTypes, label : Texts,
     default : Texts, bounds : XtBounds, choices : Seq(XtChoice), paramMax : Nat \cup {-1}]

XtHandler ==
    [name : Texts, key : Texts, type : XtTypes, label : Texts, default : Texts,
     bounds : XtBounds, choices : Seq(XtChoice), choice : XtChoice, inChoice : BOOLEAN]

LoaderFields == {"base", "group", "groups", "items", "keysToNames"}

XtTypeOK ==
    /\ inside \in {"kcfg", "group", "entries", "entry", "choice", "end"}
    /\ element \in XtEntry /\ written \in Seq(XtEntry)
    /\ handler \in XtHandler
    /\ DOMAIN loader = LoaderFields /\ loader.base \in Texts /\ IsSeq(loader.items)

LEMMA EmptyText ==
    /\ Empty \in Texts /\ NoBounds \in XtBounds /\ NoChoice \in XtChoice
<1>1. Empty \in Texts
  BY DEF Empty, Texts
<1>2. QED
  BY <1>1 DEF NoBounds, XtBounds, NoChoice, XtChoice

LEMMA NewEntryType ==
    ASSUME NEW g \in Texts, NEW p \in Texts
    PROVE  NewEntry(g, p) \in XtEntry
<1>1. <<>> \in Seq(XtChoice)
  OBVIOUS
<1>2. QED
  BY <1>1, EmptyText DEF NewEntry, XtEntry, XtTypes

LEMMA FreshType ==
    /\ FreshHandler \in XtHandler
    /\ \A h \in XtHandler : ResetState(h) \in XtHandler
<1>1. <<>> \in Seq(XtChoice)
  OBVIOUS
<1>2. FreshHandler \in XtHandler
  BY <1>1, EmptyText DEF FreshHandler, XtHandler, XtTypes
<1>3. ASSUME NEW h \in XtHandler
      PROVE  ResetState(h) \in XtHandler
  BY <1>2, <1>3 DEF ResetState, XtHandler
<1>4. QED
  BY <1>2, <1>3

LEMMA XtInitType == XtInit => XtTypeOK
<1> SUFFICES ASSUME XtInit PROVE XtTypeOK
  OBVIOUS
<1>1. PICK b \in BaseGroups : loader = [base |-> b, group |-> <<Empty>>, groups |-> <<>>,
                                        items |-> <<>>, keysToNames |-> <<>>]
  BY DEF XtInit
<1>2. IsSeq(<<>>)
  <2>1. <<>> \in Seq({})
    OBVIOUS
  <2>2. QED
    BY <2>1, AnySeq
<1>3. DOMAIN loader = LoaderFields /\ loader.base \in Texts /\ loader.items = <<>>
  BY <1>1, XtAssumption DEF LoaderFields
<1>4. written = <<>> /\ handler = FreshHandler /\ element = NewEntry(Empty, Empty)
      /\ inside = "kcfg"
  BY DEF XtInit
<1>5. written \in Seq(XtEntry)
  BY <1>4
<1>6. QED
  BY <1>2, <1>3, <1>4, <1>5, FreshType, NewEntryType, EmptyText DEF XtTypeOK

\* AddItem() changes what the loader has of items only.
LEMMA AddItemType ==
    ASSUME NEW l, NEW h, DOMAIN l = LoaderFields, IsSeq(l.items)
    PROVE  /\ DOMAIN AddItem(l, h) = LoaderFields
           /\ AddItem(l, h).base = l.base /\ AddItem(l, h).group = l.group
           /\ IsSeq(AddItem(l, h).items)
<1> DEFINE item == LoaderItem(h, l.group)
           new == Append(l.items, item)
           names == Inserted(l.keysToNames, Joint(item.group, item.key), item.name)
           without == item.name = Empty \/ item.type \notin LoaderTypes
<1>1. IsSeq(new)
  BY AppendAny
<1>2. AddItem(l, h) = IF without THEN l ELSE [l EXCEPT !.items = new, !.keysToNames = names]
  BY DEF AddItem
<1> HIDE DEF new, names, item, without
<1>3. QED
  BY <1>1, <1>2 DEF LoaderFields

LEMMA XtNextType == XtTypeOK /\ [XtNext]_xtVars => XtTypeOK'
<1> SUFFICES ASSUME XtTypeOK, [XtNext]_xtVars PROVE XtTypeOK'
  OBVIOUS
<1> USE DEF XtTypeOK
<1>1. ASSUME NEW t \in Labels, Signal(t)
      PROVE  XtTypeOK'
  <2>1. Trimmed(t) \in Texts
    BY XtAssumption, TrimmedType
  <2>2. handler' \in XtHandler
    BY <1>1, <2>1 DEF Signal, XtHandler
  <2>3. QED
    BY <1>1, <2>2 DEF Signal, document
<1>2. ASSUME NEW t \in Labels, Label(t)
      PROVE  XtTypeOK'
  <2>1. Trimmed(t) \in Texts /\ t \in Texts
    BY XtAssumption, TrimmedType
  <2>2. handler' \in XtHandler
    BY <1>2, <2>1 DEF Label, XtHandler
  <2>3. element' \in XtEntry
    BY <1>2, <2>1 DEF Label, XtEntry
  <2>4. QED
    BY <1>2, <2>2, <2>3 DEF Label
<1>3. ASSUME NEW t \in Labels, ChoiceLabel(t)
      PROVE  XtTypeOK'
  <2>1. Trimmed(t) \in Texts /\ t \in Texts
    BY XtAssumption, TrimmedType
  <2>2. handler' \in XtHandler
    <3>1. CASE handler.inChoice
      <4> DEFINE c == [handler.choice EXCEPT !.label = Trimmed(t)]
      <4>1. c \in XtChoice
        BY <2>1 DEF XtHandler, XtChoice
      <4>2. handler' = [handler EXCEPT !.choice = c]
        BY <1>3, <3>1 DEF ChoiceLabel
      <4> HIDE DEF c
      <4>3. QED
        BY <4>1, <4>2 DEF XtHandler
    <3>2. CASE ~handler.inChoice
      BY <1>3, <2>1, <3>2 DEF ChoiceLabel, XtHandler
    <3>3. QED
      BY <3>1, <3>2
  <2>3. element' \in XtEntry
    <3> DEFINE n == Len(element.choices)
               c == [element.choices[n] EXCEPT !.label = t]
               cs == [element.choices EXCEPT ![n] = c]
    <3>1. element.choices \in Seq(XtChoice) /\ n \in Nat
      BY DEF XtEntry
    <3>2. \A i \in 1 .. n : element.choices[i] \in XtChoice
      BY <3>1
    <3>3. n # 0 => c \in XtChoice
      BY <2>1, <3>1, <3>2 DEF XtChoice
    <3>4. element' = [element EXCEPT !.choices = cs]
      BY <1>3 DEF ChoiceLabel
    <3> HIDE DEF c
    <3>5. cs \in Seq(XtChoice)
      <4> HIDE DEF n
      <4>1. CASE n = 0
        <5>1. n \notin DOMAIN element.choices
          BY <3>1, <4>1 DEF n
        <5>2. cs = element.choices
          BY <3>1, <5>1
        <5>3. QED
          BY <3>1, <5>2
      <4>2. CASE n # 0
        BY <3>1, <3>3, <4>2 DEF n
      <4>3. QED
        BY <4>1, <4>2
    <3> HIDE DEF cs
    <3>6. QED
      BY <3>4, <3>5 DEF XtEntry
  <2>4. QED
    BY <1>3, <2>2, <2>3 DEF ChoiceLabel
<1>4. ASSUME NEW g \in Groups, StartGroup(g)
      PROVE  XtTypeOK'
  <2>1. g.name \in Texts /\ g.parent \in Texts
    BY XtAssumption
  <2>2. element' \in XtEntry
    BY <1>4, <2>1, NewEntryType DEF StartGroup
  <2> DEFINE gp == Joined(loader.base, g.name)
             gs == IF g.name = Empty THEN loader.groups ELSE Append(loader.groups, g.name)
  <2>3. loader' = [loader EXCEPT !.group = gp, !.groups = gs]
    BY <1>4 DEF StartGroup
  <2> HIDE DEF gp, gs
  <2>4. DOMAIN loader' = LoaderFields /\ loader'.base = loader.base
        /\ loader'.items = loader.items
    BY <2>3 DEF LoaderFields
  <2>5. QED
    BY <1>4, <2>2, <2>4 DEF StartGroup
<1>5. ASSUME NEW a \in Attributes, StartEntry(a)
      PROVE  XtTypeOK'
  <2>1. /\ a.name \in Texts /\ a.key \in Texts /\ a.type \in XtTypes
        /\ Trimmed(a.name) \in Texts /\ Trimmed(a.key) \in Texts
    BY XtAssumption, TrimmedType DEF XtTypes
  <2>2. handler' \in XtHandler
    BY <1>5, <2>1 DEF StartEntry, XtHandler
  <2>3. element' \in XtEntry
    BY <1>5, <2>1 DEF StartEntry, XtEntry
  <2>4. QED
    BY <1>5, <2>2, <2>3 DEF StartEntry
<1>6. ASSUME NEW d \in Defaults, Default(d)
      PROVE  XtTypeOK'
  <2>1. Trimmed(d.text) \in Texts /\ d.text \in Texts
    BY XtAssumption, TrimmedType DEF Given
  <2>2. handler' \in XtHandler
    BY <1>6, <2>1 DEF Default, XtHandler
  <2>3. element' \in XtEntry
    BY <1>6, <2>1 DEF Default, XtEntry
  <2>4. QED
    BY <1>6, <2>2, <2>3 DEF Default
<1>7. ASSUME NEW b \in {"min", "max"}, NEW d \in Bounds, Bound(b, d)
      PROVE  XtTypeOK'
  <2>1. d.text \in Texts
    BY XtAssumption DEF Given
  <2> DEFINE hb == [handler.bounds EXCEPT ![b] = d.text]
             eb == [element.bounds EXCEPT ![b] = d.text]
  <2>2. hb \in XtBounds /\ eb \in XtBounds
    BY <2>1 DEF XtHandler, XtEntry, XtBounds
  <2>3. handler' = [handler EXCEPT !.bounds = hb] /\ element' = [element EXCEPT !.bounds = eb]
    BY <1>7 DEF Bound
  <2> HIDE DEF hb, eb
  <2>4. handler' \in XtHandler /\ element' \in XtEntry
    BY <2>2, <2>3 DEF XtHandler, XtEntry
  <2>5. QED
    BY <1>7, <2>4 DEF Bound
<1>8. ASSUME NEW m \in ParamMax, Parameter(m)
      PROVE  XtTypeOK'
  <2>1. m \in Nat
    BY XtAssumption
  <2>2. element' \in XtEntry
    BY <1>8, <2>1 DEF Parameter, XtEntry
  <2>3. QED
    BY <1>8, <2>2 DEF Parameter
<1>9. ASSUME NEW n \in ChoiceNames, NEW v \in ChoiceValues, StartChoice(n, v)
      PROVE  XtTypeOK'
  <2> DEFINE hc == [NoChoice EXCEPT !.name = n]
             c == [name |-> n, value |-> v, label |-> Empty]
             cs == Append(element.choices, c)
  <2>1. hc \in XtChoice /\ c \in XtChoice
    BY XtAssumption, EmptyText DEF XtChoice
  <2>2. cs \in Seq(XtChoice)
    BY <2>1 DEF XtEntry
  <2>3. handler' = [handler EXCEPT !.choice = hc, !.inChoice = TRUE]
        /\ element' = [element EXCEPT !.choices = cs]
    BY <1>9 DEF StartChoice
  <2> HIDE DEF hc, c, cs
  <2>4. handler' \in XtHandler /\ element' \in XtEntry
    BY <2>1, <2>2, <2>3 DEF XtHandler, XtEntry
  <2>5. QED
    BY <1>9, <2>4 DEF StartChoice
<1>10. CASE EndChoice
  <2> DEFINE cs == Append(handler.choices, handler.choice)
  <2>1. cs \in Seq(XtChoice)
    BY DEF XtHandler
  <2>2. handler' = [handler EXCEPT !.choices = cs, !.inChoice = FALSE]
    BY <1>10 DEF EndChoice
  <2> HIDE DEF cs
  <2>3. handler' \in XtHandler
    BY <2>1, <2>2 DEF XtHandler
  <2>4. QED
    BY <1>10, <2>3 DEF EndChoice
<1>11. CASE EndEntry
  <2>1. element.group \in Texts /\ element.parent \in Texts
    BY DEF XtEntry
  <2>2. element' \in XtEntry /\ handler' \in XtHandler
    BY <1>11, <2>1, NewEntryType, FreshType DEF EndEntry
  <2>3. written' \in Seq(XtEntry)
    BY <1>11 DEF EndEntry
  <2>4. loader' = AddItem(loader, handler) /\ inside' = "entries"
    BY <1>11 DEF EndEntry
  <2>5. QED
    BY <2>2, <2>3, <2>4, AddItemType
<1>12. CASE EndGroup
  BY <1>12 DEF EndGroup
<1>13. CASE End
  BY <1>13 DEF End
<1>14. CASE UNCHANGED xtVars
  BY <1>14 DEF xtVars, document
<1>15. QED
  BY <1>1, <1>2, <1>3, <1>4, <1>5, <1>6, <1>7, <1>8, <1>9, <1>10, <1>11, <1>12, <1>13, <1>14
     DEF XtNext

THEOREM XtTypeCorrect == XtSpec => []XtTypeOK
BY XtInitType, XtNextType, PTL DEF XtSpec

-----------------------------------------------------------------------------
(* findItem() *)

JointOf(item) == Joint(item.group, item.key)

\* Every joint of a group and a key stands for the name of an item with that joint.
FiledBy(l) ==
    \A i \in DOMAIN l.items :
        /\ JointOf(l.items[i]) \in DOMAIN l.keysToNames
        /\ \E j \in DOMAIN l.items : /\ JointOf(l.items[j]) = JointOf(l.items[i])
                                     /\ l.keysToNames[JointOf(l.items[i])] = l.items[j].name

LEMMA AddItemFiles ==
    ASSUME NEW l, NEW h, DOMAIN l = LoaderFields, IsSeq(l.items), FiledBy(l)
    PROVE  FiledBy(AddItem(l, h))
<1> DEFINE item == LoaderItem(h, l.group)
           new == Append(l.items, item)
           joint == Joint(item.group, item.key)
           names == Inserted(l.keysToNames, joint, item.name)
           without == item.name = Empty \/ item.type \notin LoaderTypes
           n == Len(l.items)
           m == AddItem(l, h)
<1>1. /\ n \in Nat /\ DOMAIN l.items = 1 .. n
      /\ IsSeq(new) /\ Len(new) = n + 1
      /\ \A i \in 1 .. n : new[i] = l.items[i]
      /\ new[n + 1] = item
  <2> HIDE DEF item
  <2> QED
    BY AppendAny
<1>2. DOMAIN new = 1 .. n + 1
  BY <1>1 DEF IsSeq
<1>3. m = IF without THEN l ELSE [l EXCEPT !.items = new, !.keysToNames = names]
  BY DEF AddItem
<1>4. CASE without
  BY <1>3, <1>4
<1>5. CASE ~without
  <2>1. /\ DOMAIN names = DOMAIN l.keysToNames \cup {joint}
        /\ \A x \in DOMAIN names : names[x] = IF x = joint THEN item.name ELSE l.keysToNames[x]
    <3> HIDE DEF joint, item
    <3> QED
      BY DEF Inserted
  <2>2. joint = JointOf(item)
    BY DEF JointOf
  <2> HIDE DEF new, names, item, joint, without, n
  <2>3. m.items = new /\ m.keysToNames = names
    BY <1>3, <1>5 DEF LoaderFields
  <2> HIDE DEF m
  <2>4. ASSUME NEW i \in 1 .. n + 1
        PROVE  /\ JointOf(new[i]) \in DOMAIN names
               /\ \E j \in 1 .. n + 1 : /\ JointOf(new[j]) = JointOf(new[i])
                                        /\ names[JointOf(new[i])] = new[j].name
    <3>1. n + 1 \in 1 .. n + 1
      BY <1>1
    <3>2. CASE JointOf(new[i]) = joint
      BY <1>1, <2>1, <2>2, <3>1, <3>2
    <3>3. CASE JointOf(new[i]) # joint
      <4>1. i \in 1 .. n /\ new[i] = l.items[i]
        BY <1>1, <2>2, <3>3
      <4>2. PICK j \in 1 .. n : /\ JointOf(l.items[j]) = JointOf(l.items[i])
                                /\ l.keysToNames[JointOf(l.items[i])] = l.items[j].name
        BY <1>1, <4>1 DEF FiledBy
      <4>3. JointOf(new[i]) \in DOMAIN l.keysToNames
        BY <1>1, <4>1 DEF FiledBy
      <4>4. new[j] = l.items[j] /\ j \in 1 .. n + 1
        BY <1>1
      <4>5. QED
        BY <2>1, <3>3, <4>1, <4>2, <4>3, <4>4
    <3>4. QED
      BY <3>2, <3>3
  <2>5. QED
    BY <1>2, <2>3, <2>4 DEF FiledBy, m
<1>6. QED
  BY <1>4, <1>5

LEMMA FiledInit == XtInit => FiledBy(loader)
<1> SUFFICES ASSUME XtInit PROVE FiledBy(loader)
  OBVIOUS
<1>1. loader.items = <<>>
  BY DEF XtInit
<1>2. QED
  BY <1>1 DEF FiledBy

LEMMA FiledNext ==
    XtTypeOK /\ FiledBy(loader) /\ [XtNext]_xtVars => FiledBy(loader')
<1> SUFFICES ASSUME XtTypeOK, FiledBy(loader), [XtNext]_xtVars PROVE FiledBy(loader')
  OBVIOUS
<1>1. CASE EndEntry
  BY <1>1, AddItemFiles DEF EndEntry, XtTypeOK
<1>2. CASE \E g \in Groups : StartGroup(g)
  <2>1. PICK g \in Groups : StartGroup(g)
    BY <1>2
  <2> DEFINE gp == Joined(loader.base, g.name)
             gs == IF g.name = Empty THEN loader.groups ELSE Append(loader.groups, g.name)
  <2>2. loader' = [loader EXCEPT !.group = gp, !.groups = gs]
    BY <2>1 DEF StartGroup
  <2> HIDE DEF gp, gs
  <2>3. loader'.items = loader.items /\ loader'.keysToNames = loader.keysToNames
    BY <2>2 DEF LoaderFields, XtTypeOK
  <2>4. QED
    BY <2>3 DEF FiledBy
<1>3. CASE UNCHANGED loader
  BY <1>3
<1>4. ASSUME NEW t \in Labels, Signal(t) \/ Label(t) \/ ChoiceLabel(t)
      PROVE  UNCHANGED loader
  BY <1>4 DEF Signal, Label, ChoiceLabel
<1>5. ASSUME NEW a \in Attributes, StartEntry(a)
      PROVE  UNCHANGED loader
  BY <1>5 DEF StartEntry
<1>6. ASSUME NEW d \in Defaults, Default(d)
      PROVE  UNCHANGED loader
  BY <1>6 DEF Default
<1>7. ASSUME NEW b \in {"min", "max"}, NEW d \in Bounds, Bound(b, d)
      PROVE  UNCHANGED loader
  BY <1>7 DEF Bound
<1>8. ASSUME NEW m \in ParamMax, Parameter(m)
      PROVE  UNCHANGED loader
  BY <1>8 DEF Parameter
<1>9. ASSUME NEW n \in ChoiceNames, NEW v \in ChoiceValues, StartChoice(n, v)
      PROVE  UNCHANGED loader
  BY <1>9 DEF StartChoice
<1>10. ASSUME EndChoice \/ EndGroup \/ End \/ UNCHANGED xtVars
       PROVE  UNCHANGED loader
  BY <1>10 DEF EndChoice, EndGroup, End, xtVars
<1>11. QED
  BY <1>1, <1>2, <1>3, <1>4, <1>5, <1>6, <1>7, <1>8, <1>9, <1>10 DEF XtNext

\* KConfigLoader::findItem() finds every item by its group and key, unless another has the same name
\* or the same group and key written in one.
THEOREM LoaderFindsItem == XtSpec => []FindsItem
<1>1. XtTypeOK /\ FiledBy(loader) => FindsItem
  <2> SUFFICES ASSUME XtTypeOK, FiledBy(loader), NEW i \in DOMAIN loader.items,
                      \A j \in DOMAIN loader.items \ {i} :
                          /\ loader.items[j].name # loader.items[i].name
                          /\ JointOf(loader.items[j]) # JointOf(loader.items[i])
               PROVE  FindItem(loader, loader.items[i].group, loader.items[i].key)
                          = <<loader.items[i]>>
    BY DEF FindsItem, JointOf
  <2> DEFINE joint == JointOf(loader.items[i])
             named == {j \in DOMAIN loader.items : loader.items[j].name = loader.keysToNames[joint]}
  <2>1. joint \in DOMAIN loader.keysToNames
    BY DEF FiledBy
  <2>2. PICK j \in DOMAIN loader.items :
            /\ JointOf(loader.items[j]) = joint
            /\ loader.keysToNames[joint] = loader.items[j].name
    BY DEF FiledBy
  <2>3. j = i
    BY <2>2
  <2>4. named = {i}
    BY <2>2, <2>3
  <2>5. i \in Nat
    BY DEF XtTypeOK, IsSeq
  <2>6. FindItem(loader, loader.items[i].group, loader.items[i].key) =
            IF joint \notin DOMAIN loader.keysToNames THEN <<>>
            ELSE IF named = {} THEN <<>>
                 ELSE <<loader.items[CHOOSE k \in named : \A l \in named : l <= k]>>
    BY DEF FindItem, JointOf
  <2> HIDE DEF named, joint
  <2>7. (CHOOSE k \in named : \A l \in named : l <= k) = i
    BY <2>4, <2>5
  <2>8. QED
    BY <2>1, <2>4, <2>6, <2>7
<1>2. XtTypeOK /\ FiledBy(loader) /\ [XtNext]_xtVars => FiledBy(loader)'
  BY FiledNext
<1>3. QED
  BY <1>1, <1>2, FiledInit, XtTypeCorrect, PTL DEF XtSpec

-----------------------------------------------------------------------------
(* The compiler *)

\* The constructor is written entry by entry: the recursive function is one that exists.
LEMMA ConstructsStep ==
    ASSUME NEW s, Len(s) \in Nat
    PROVE  /\ Constructs(s)[0] = NewGenerator
           /\ \A i \in 1 .. Len(s) :
                  Constructs(s)[i] = ConstructEntry(Constructs(s)[i - 1], s[i])
<1> DEFINE Turn(g, i) == IF i = 0 THEN NewGenerator ELSE ConstructEntry(g[i - 1], s[i])
           IsRun(g, n) == g = [i \in 0 .. n |-> Turn(g, i)]
           T == {n \in 0 .. Len(s) : \E g : IsRun(g, n)}
           p == Constructs(s)
<1>1. 0 \in T
  <2> DEFINE g == [i \in 0 .. 0 |-> NewGenerator]
  <2>1. IsRun(g, 0)
    OBVIOUS
  <2>2. \E q : IsRun(q, 0)
    <3> HIDE DEF IsRun
    <3> QED
      BY <2>1, Zenon
  <2>3. QED
    BY <2>2
<1>2. ASSUME NEW n \in 1 .. Len(s), n - 1 \in T
      PROVE  n \in T
  <2>1. PICK g : IsRun(g, n - 1)
    BY <1>2
  <2> DEFINE h == [i \in 0 .. n |-> IF i = n THEN ConstructEntry(g[n - 1], s[n]) ELSE g[i]]
  <2>2. h = [i \in 0 .. n |-> Turn(h, i)]
    <3> SUFFICES ASSUME NEW i \in 0 .. n PROVE h[i] = Turn(h, i)
      OBVIOUS
    <3>1. CASE i = n
      <4>1. h[n] = ConstructEntry(g[n - 1], s[n]) /\ h[n - 1] = g[n - 1]
        OBVIOUS
      <4>2. QED
        BY <3>1, <4>1
    <3>2. CASE i # n
      <4>1. h[i] = g[i] /\ g[i] = Turn(g, i)
        BY <2>1, <3>2
      <4>2. i # 0 => h[i - 1] = g[i - 1]
        BY <3>2
      <4>3. QED
        BY <4>1, <4>2
    <3>3. QED
      BY <3>1, <3>2
  <2>3. \E q : IsRun(q, n)
    <3>1. IsRun(h, n)
      BY <2>2
    <3> HIDE DEF IsRun, h
    <3>2. QED
      BY <3>1, Zenon
  <2>4. QED
    BY <2>3
<1>3. Len(s) \in T
  <2> HIDE DEF T
  <2>1. \A i \in 0 .. Len(s) : i \in T
    BY <1>1, <1>2, CountUp
  <2>2. QED
    BY <2>1
<1>4. IsRun(p, Len(s))
  <2>1. PICK g : IsRun(g, Len(s))
    BY <1>3
  <2>2. p = CHOOSE q : IsRun(q, Len(s))
    BY DEF Constructs
  <2> HIDE DEF IsRun, p
  <2>3. QED
    BY <2>1, <2>2, Zenon
<1> HIDE DEF p
<1>5. p[0] = NewGenerator
  BY <1>4
<1>6. ASSUME NEW i \in 1 .. Len(s)
      PROVE  p[i] = ConstructEntry(p[i - 1], s[i])
  BY <1>4
<1>7. QED
  BY <1>5, <1>6 DEF p

LEMMA ParseEntryGives ==
    ASSUME NEW e \in XtEntry
    PROVE  LET p == ParseEntry(e)
           IN  /\ p.name = NoSpaces(IF e.name = Empty THEN e.key ELSE e.name)
               /\ p.key = IF e.key = Empty THEN e.name ELSE e.key
               /\ p.label = IF e.label = Empty THEN p.key ELSE e.label
               /\ p.type = IF e.type = NoType THEN "String" ELSE e.type
               /\ p.group = e.group /\ p.parent = e.parent /\ p.default = e.default
               /\ p.bounds = e.bounds /\ p.choices = e.choices /\ p.paramMax = e.paramMax
BY DEF ParseEntry, XtEntry

GeneratorFields == {"current", "variables", "skeletonGroup", "items", "ok"}

IsGenerator(g) == DOMAIN g = GeneratorFields /\ IsSeq(g.items)

\* The items an entry gets from the generator g.
EntryItems(g, e) ==
    IF e.paramMax = -1
    THEN <<CompiledItem(e, e.key, e.name,
             IF e.parent = Empty THEN g.skeletonGroup ELSE g.variables[Variable(e.group)])>>
    ELSE [n \in 1 .. (e.paramMax + 1) |->
             CompiledItem(e, ParamString(e.key, n - 1), ParamString(e.name, n - 1),
                          g.skeletonGroup)]

LEMMA GroupChangeGives ==
    ASSUME NEW g, NEW e, IsGenerator(g)
    PROVE  /\ IsGenerator(HandleCurrentGroupChange(g, e))
           /\ HandleCurrentGroupChange(g, e).items = g.items
           /\ HandleCurrentGroupChange(g, e).ok = g.ok
<1> DEFINE withParent == Ensure(g.variables, Variable(e.parent), <<e.parent>>)
           variables == Ensure(withParent, Variable(e.group),
                               Append(withParent[Variable(e.parent)], e.group))
<1>1. HandleCurrentGroupChange(g, e) =
          IF e.group = g.current THEN g
          ELSE IF e.parent = Empty
          THEN [g EXCEPT !.current = e.group, !.skeletonGroup = <<e.group>>]
          ELSE [g EXCEPT !.current = e.group, !.variables = variables]
  BY DEF HandleCurrentGroupChange
<1> HIDE DEF variables
<1>2. QED
  BY <1>1 DEF IsGenerator, GeneratorFields

LEMMA EntryItemsSeq ==
    ASSUME NEW h, NEW e, e.paramMax \in Nat \cup {-1}
    PROVE  IsSeq(EntryItems(h, e))
<1> DEFINE list == EntryItems(h, e)
           one == CompiledItem(e, e.key, e.name,
                     IF e.parent = Empty THEN h.skeletonGroup ELSE h.variables[Variable(e.group)])
<1>1. CASE e.paramMax = -1
  <2>1. list = <<one>>
    BY <1>1 DEF EntryItems
  <2> HIDE DEF one, list
  <2>2. <<one>> \in Seq({one})
    OBVIOUS
  <2>3. QED
    BY <2>1, <2>2, AnySeq DEF list
<1>2. CASE e.paramMax # -1
  <2> DEFINE k == e.paramMax + 1
             F(n) == CompiledItem(e, ParamString(e.key, n - 1), ParamString(e.name, n - 1),
                                  h.skeletonGroup)
  <2>1. list = [n \in 1 .. k |-> F(n)]
    BY <1>2 DEF EntryItems
  <2> HIDE DEF F, list
  <2>2. k \in Nat
    BY <1>2
  <2> HIDE DEF k
  <2>3. list \in Seq({F(n) : n \in 1 .. k})
    BY <2>1, <2>2
  <2>4. QED
    BY <2>3, AnySeq DEF list
<1>3. QED
  BY <1>1, <1>2

\* A turn of the loop that goes well adds the entry's items.
LEMMA ConstructEntryGives ==
    ASSUME NEW g, NEW e, IsGenerator(g), e.paramMax \in Nat \cup {-1}
    PROVE  LET r == ConstructEntry(g, e)
               h == HandleCurrentGroupChange(g, e)
           IN  /\ IsGenerator(r)
               /\ r.ok => /\ g.ok /\ CompilesAsWritten(e)
                          /\ r.items = g.items \o EntryItems(h, e)
                          /\ r.current = h.current /\ r.variables = h.variables
                          /\ r.skeletonGroup = h.skeletonGroup
<1> DEFINE r == ConstructEntry(g, e)
           h == HandleCurrentGroupChange(g, e)
           list == EntryItems(h, e)
           new == h.items \o list
           one == CompiledItem(e, e.key, e.name,
                     IF e.parent = Empty THEN h.skeletonGroup ELSE h.variables[Variable(e.group)])
<1>1. /\ IsGenerator(h) /\ h.items = g.items /\ h.ok = g.ok
  BY GroupChangeGives
<1> HIDE DEF h
<1>2. IsSeq(list)
  BY EntryItemsSeq
<1>3. IsSeq(new)
  <2> HIDE DEF list
  <2> QED
    BY <1>1, <1>2, ConcatAny DEF IsGenerator
<1>4. CASE ~CompilesAsWritten(e)
  <2>1. r = [g EXCEPT !.ok = FALSE]
    BY <1>4 DEF ConstructEntry
  <2>2. QED
    BY <2>1 DEF IsGenerator, GeneratorFields
<1>5. CASE CompilesAsWritten(e) /\ e.paramMax = -1
  <2>1. r = NormalEntry(h, e)
    BY <1>5 DEF ConstructEntry, h
  <2>2. r = IF e.parent # Empty /\ Variable(e.group) \notin DOMAIN h.variables
            THEN [h EXCEPT !.ok = FALSE] ELSE [h EXCEPT !.items = Append(h.items, one)]
    BY <2>1 DEF NormalEntry
  <2>3. list = <<one>>
    BY <1>5 DEF EntryItems
  <2> HIDE DEF one, r, list
  <2>4. Append(h.items, one) = new
    <3>1. h.items \in Seq({h.items[i] : i \in DOMAIN h.items})
      BY <1>1 DEF IsGenerator, IsSeq
    <3> DEFINE s == h.items
               U == {h.items[i] : i \in DOMAIN h.items} \cup {one}
    <3>2. s \in Seq(U) /\ one \in U
      BY <3>1
    <3> HIDE DEF s, U
    <3>3. Append(s, one) = s \o <<one>>
      BY <3>2
    <3>4. QED
      BY <2>3, <3>3 DEF s
  <2> HIDE DEF new
  <2>5. QED
    BY <1>1, <1>3, <1>5, <2>2, <2>4 DEF IsGenerator, GeneratorFields, r, h, new, list
<1>6. CASE CompilesAsWritten(e) /\ e.paramMax # -1
  <2>1. r = IndexedEntry(h, e)
    BY <1>6 DEF ConstructEntry, h
  <2>2. r = [h EXCEPT !.items = new]
    BY <1>6, <2>1 DEF IndexedEntry, EntryItems
  <2> HIDE DEF new, r
  <2>3. QED
    BY <1>1, <1>3, <1>6, <2>2 DEF IsGenerator, GeneratorFields, r, h, new, list
<1>7. QED
  BY <1>4, <1>5, <1>6

HasParams(es) == Len(es) \in Nat /\ \A i \in 1 .. Len(es) : es[i].paramMax \in Nat \cup {-1}

\* When the whole constructor is right, it was at each entry, and the entries compile.
LEMMA ConstructsGives ==
    ASSUME NEW es, HasParams(es), Constructs(es)[Len(es)].ok
    PROVE  /\ \A i \in 0 .. Len(es) : IsGenerator(Constructs(es)[i]) /\ Constructs(es)[i].ok
           /\ \A i \in 1 .. Len(es) : CompilesAsWritten(es[i])
<1> DEFINE n == Len(es)
           C(i) == Constructs(es)[i]
           T == {i \in 0 .. n : IsGenerator(C(i))}
           U == {i \in 0 .. n : C(n - i).ok}
<1>1. n \in Nat
  BY DEF HasParams
<1>2. \A i \in 1 .. n : C(i) = ConstructEntry(C(i - 1), es[i])
  BY <1>1, ConstructsStep
<1>3. IsGenerator(C(0))
  <2>1. IsSeq(<<>>)
    <3>1. <<>> \in Seq({})
      OBVIOUS
    <3>2. QED
      BY <3>1, AnySeq
  <2>2. C(0) = NewGenerator
    BY <1>1, ConstructsStep
  <2>3. QED
    BY <2>1, <2>2 DEF IsGenerator, GeneratorFields, NewGenerator
<1> HIDE DEF C
<1>4. ASSUME NEW i \in 1 .. n, IsGenerator(C(i - 1))
      PROVE  IsGenerator(C(i)) /\ (C(i).ok => C(i - 1).ok /\ CompilesAsWritten(es[i]))
  <2>1. es[i].paramMax \in Nat \cup {-1}
    BY DEF HasParams
  <2>2. QED
    BY <1>2, <1>4, <2>1, ConstructEntryGives
<1>5. \A i \in 0 .. n : IsGenerator(C(i))
  <2>1. 0 \in T /\ \A i \in 1 .. n : i - 1 \in T => i \in T
    BY <1>1, <1>3, <1>4
  <2> HIDE DEF T, n
  <2>2. \A i \in 0 .. n : i \in T
    BY <1>1, <2>1, CountUp
  <2>3. QED
    BY <2>2 DEF T
<1>6. \A i \in 0 .. n : C(n - i).ok
  <2>1. 0 \in U
    BY <1>1 DEF C
  <2>2. ASSUME NEW i \in 1 .. n, i - 1 \in U
        PROVE  i \in U
    <3>1. /\ n - (i - 1) \in 1 .. n /\ (n - (i - 1)) - 1 = n - i
          /\ C(n - (i - 1)).ok /\ n - i \in 0 .. n
      BY <1>1, <2>2
    <3>2. QED
      BY <1>4, <1>5, <3>1
  <2> HIDE DEF U, n
  <2>3. \A i \in 0 .. n : i \in U
    BY <1>1, <2>1, <2>2, CountUp
  <2>4. QED
    BY <2>3 DEF U
<1>7. \A i \in 0 .. n : C(i).ok
  <2> SUFFICES ASSUME NEW i \in 0 .. n PROVE C(i).ok
    OBVIOUS
  <2>1. n - i \in 0 .. n /\ n - (n - i) = i
    BY <1>1
  <2>2. QED
    BY <1>6, <2>1
<1>8. \A i \in 1 .. n : CompilesAsWritten(es[i])
  BY <1>1, <1>4, <1>5, <1>7
<1>9. QED
  BY <1>5, <1>7, <1>8 DEF C

-----------------------------------------------------------------------------
(* The groups of the compiled class *)

ApartIn(es) ==
    \A i, j \in DOMAIN es :
        /\ Variable(es[i].group) = Variable(es[j].group) => Path(es[i]) = Path(es[j])
        /\ es[i].parent # Empty =>
               Variable(es[i].group) # Variable(es[j].parent) /\ es[i].paramMax = -1
        /\ Variable(es[i].parent) = Variable(es[j].parent) => es[i].parent = es[j].parent

\* What a variable of the constructor stands for.
StandsFor(es, v, path) ==
    \E k \in DOMAIN es :
        /\ es[k].parent # Empty
        /\ \/ v = Variable(es[k].parent) /\ path = <<es[k].parent>>
           \/ v = Variable(es[k].group) /\ path = Path(es[k])

\* The current group is that of an entry, and what the constructor has for it is the entry's path.
CurrentIsOf(es, g) ==
    \/ g.current = Empty
    \/ \E k \in DOMAIN es :
          /\ es[k].group = g.current
          /\ es[k].parent = Empty => g.skeletonGroup = <<g.current>>
          /\ es[k].parent # Empty => Variable(g.current) \in DOMAIN g.variables

VariablesStand(es, g) == \A v \in DOMAIN g.variables : StandsFor(es, v, g.variables[v])

LEMMA PairOf ==
    ASSUME NEW a, NEW b
    PROVE  Append(<<a>>, b) = <<a, b>>
<1> DEFINE s == <<a>>
           t == Append(s, b)
<1>1. s \in Seq({a}) /\ Len(s) = 1 /\ s[1] = a
  OBVIOUS
<1> HIDE DEF s
<1>2. IsSeq(s)
  BY <1>1, AnySeq
<1>3. IsSeq(t) /\ Len(t) = Len(s) + 1 /\ (\A i \in 1 .. Len(s) : t[i] = s[i])
      /\ t[Len(s) + 1] = b
  BY <1>2, AppendAny
<1> HIDE DEF t
<1>4. t = <<a, b>>
  BY <1>1, <1>3 DEF IsSeq
<1>5. QED
  BY <1>4 DEF s, t

LEMMA EnsureGives ==
    ASSUME NEW f, NEW k, NEW v
    PROVE  /\ DOMAIN Ensure(f, k, v) = DOMAIN f \cup {k}
           /\ \A x \in DOMAIN f : Ensure(f, k, v)[x] = f[x]
           /\ k \notin DOMAIN f => Ensure(f, k, v)[k] = v
BY DEF Ensure, Inserted

\* A parent's variable and a group's own are told apart.
LEMMA ParentStands ==
    ASSUME NEW es, ApartIn(es), NEW i \in DOMAIN es, es[i].parent # Empty, NEW path,
           StandsFor(es, Variable(es[i].parent), path)
    PROVE  path = <<es[i].parent>>
BY DEF StandsFor, ApartIn

LEMMA GroupStands ==
    ASSUME NEW es, ApartIn(es), NEW i \in DOMAIN es, es[i].parent # Empty, NEW path,
           StandsFor(es, Variable(es[i].group), path)
    PROVE  path = Path(es[i])
BY DEF StandsFor, ApartIn

\* Behind the change of the group an entry's items are made for the entry's path.
LEMMA GroupChangeKeeps ==
    ASSUME NEW es, ApartIn(es), NEW i \in DOMAIN es, es[i].group # Empty,
           NEW g, IsGenerator(g), CurrentIsOf(es, g), VariablesStand(es, g)
    PROVE  LET h == HandleCurrentGroupChange(g, es[i])
           IN  /\ CurrentIsOf(es, h) /\ VariablesStand(es, h)
               /\ es[i].parent = Empty => h.skeletonGroup = Path(es[i])
               /\ es[i].parent # Empty => h.variables[Variable(es[i].group)] = Path(es[i])
<1> DEFINE e == es[i]
           h == HandleCurrentGroupChange(g, e)
           p == Variable(e.parent)
           v == Variable(e.group)
           gv == g.variables
           w == <<e.parent>>
           withParent == Ensure(gv, p, w)
           full == Append(withParent[p], e.group)
           variables == Ensure(withParent, v, full)
<1>1. h = IF e.group = g.current THEN g
          ELSE IF e.parent = Empty
          THEN [g EXCEPT !.current = e.group, !.skeletonGroup = <<e.group>>]
          ELSE [g EXCEPT !.current = e.group, !.variables = variables]
  BY DEF HandleCurrentGroupChange
<1>2. CASE e.group = g.current
  <2>1. h = g
    BY <1>1, <1>2
  <2> HIDE DEF h
  <2>2. PICK k \in DOMAIN es :
            /\ es[k].group = e.group
            /\ es[k].parent = Empty => g.skeletonGroup = <<e.group>>
            /\ es[k].parent # Empty => v \in DOMAIN g.variables
    BY <1>2 DEF CurrentIsOf
  <2>3. Path(es[k]) = Path(e)
    BY <2>2 DEF ApartIn
  <2>4. es[k].parent = Empty <=> e.parent = Empty
    BY <2>3 DEF Path
  <2>5. e.parent = Empty => g.skeletonGroup = Path(e)
    BY <2>2, <2>4 DEF Path
  <2>6. e.parent # Empty => g.variables[v] = Path(e)
    <3>1. e.parent # Empty => StandsFor(es, v, g.variables[v])
      BY <2>2, <2>4 DEF VariablesStand
    <3>2. QED
      BY <3>1, GroupStands
  <2>7. QED
    BY <2>1, <2>5, <2>6 DEF h
<1>3. CASE e.group # g.current /\ e.parent = Empty
  <2>1. h = [g EXCEPT !.current = e.group, !.skeletonGroup = <<e.group>>]
    BY <1>1, <1>3
  <2>2. h.current = e.group /\ h.skeletonGroup = <<e.group>> /\ h.variables = g.variables
    BY <2>1 DEF IsGenerator, GeneratorFields
  <2> HIDE DEF h
  <2>3. CurrentIsOf(es, h)
    BY <1>3, <2>2 DEF CurrentIsOf
  <2>4. QED
    BY <1>3, <2>2, <2>3 DEF VariablesStand, Path, h
<1>4. CASE e.group # g.current /\ e.parent # Empty
  <2>1. h = [g EXCEPT !.current = e.group, !.variables = variables]
    BY <1>1, <1>4
  <2> HIDE DEF variables
  <2>2. h.current = e.group /\ h.variables = variables
    BY <2>1 DEF IsGenerator, GeneratorFields
  <2> HIDE DEF h
  <2>3. /\ DOMAIN withParent = DOMAIN gv \cup {p}
        /\ \A x \in DOMAIN gv : withParent[x] = gv[x]
        /\ p \notin DOMAIN gv => withParent[p] = w
    <3> HIDE DEF p, w, gv
    <3> QED
      BY EnsureGives
  <2>4. withParent[p] = w
    <3>1. CASE p \in DOMAIN gv
      <4>1. StandsFor(es, p, gv[p])
        BY <3>1 DEF VariablesStand
      <4> HIDE DEF gv
      <4>2. gv[p] = w
        BY <1>4, <4>1, ParentStands
      <4> HIDE DEF withParent, p, w
      <4>3. QED
        BY <2>3, <3>1, <4>2
    <3>2. CASE p \notin DOMAIN gv
      BY <2>3, <3>2
    <3>3. QED
      BY <3>1, <3>2
  <2>5. full = Path(e)
    <3>1. full = Append(w, e.group)
      BY <2>4
    <3> HIDE DEF full
    <3>2. QED
      BY <1>4, <3>1, PairOf DEF Path
  <2>6. /\ DOMAIN variables = DOMAIN withParent \cup {v}
        /\ \A x \in DOMAIN withParent : variables[x] = withParent[x]
        /\ v \notin DOMAIN withParent => variables[v] = full
    <3> HIDE DEF withParent, v, full
    <3> QED
      BY EnsureGives DEF variables
  <2> HIDE DEF withParent, full
  <2>7. StandsFor(es, p, <<e.parent>>) /\ StandsFor(es, v, Path(e))
    BY <1>4 DEF StandsFor
  <2>8. VariablesStand(es, h)
    <3> SUFFICES ASSUME NEW x \in DOMAIN variables PROVE StandsFor(es, x, variables[x])
      BY <2>2 DEF VariablesStand
    <3>1. CASE x \in DOMAIN gv
      BY <2>3, <2>6, <3>1 DEF VariablesStand
    <3>2. CASE x = p
      BY <2>3, <2>4, <2>6, <2>7, <3>2
    <3>3. CASE x = v /\ v \notin DOMAIN withParent
      BY <2>5, <2>6, <2>7, <3>3
    <3>4. QED
      BY <2>3, <2>6, <3>1, <3>2, <3>3
  <2>9. h.variables[v] = Path(e)
    <3>1. StandsFor(es, v, h.variables[v])
      BY <2>2, <2>6, <2>8 DEF VariablesStand
    <3>2. QED
      BY <1>4, <3>1, GroupStands
  <2>10. CurrentIsOf(es, h)
    <3>1. v \in DOMAIN h.variables
      BY <2>2, <2>6
    <3>2. QED
      BY <1>4, <2>2, <3>1 DEF CurrentIsOf
  <2>11. QED
    BY <1>4, <2>8, <2>9, <2>10 DEF h
<1>5. QED
  BY <1>2, <1>3, <1>4

ParsedNames(e) ==
    IF e.paramMax = -1 THEN {e.name} ELSE {ParamString(e.name, n) : n \in 0 .. e.paramMax}

\* An entry has an item of each of its names in the entry's group.
Placed(items, e) ==
    \A n \in ParsedNames(e) :
        \E x \in 1 .. Len(items) : items[x].name = n /\ items[x].group = Path(e)

LEMMA PlacedInBoth ==
    ASSUME NEW s, IsSeq(s), NEW t, IsSeq(t), NEW e, Placed(s, e) \/ Placed(t, e)
    PROVE  Placed(s \o t, e)
<1> DEFINE u == s \o t
<1>1. /\ Len(u) = Len(s) + Len(t)
      /\ \A i \in 1 .. Len(s) : u[i] = s[i]
      /\ \A i \in 1 .. Len(t) : u[Len(s) + i] = t[i]
  BY ConcatAny
<1>2. Len(s) \in Nat /\ Len(t) \in Nat
  BY DEF IsSeq
<1> HIDE DEF u
<1> SUFFICES ASSUME NEW n \in ParsedNames(e)
             PROVE  \E x \in 1 .. Len(u) : u[x].name = n /\ u[x].group = Path(e)
  BY DEF Placed, u
<1>3. CASE Placed(s, e)
  <2>1. PICK x \in 1 .. Len(s) : s[x].name = n /\ s[x].group = Path(e)
    BY <1>3 DEF Placed
  <2>2. x \in 1 .. Len(u) /\ u[x] = s[x]
    BY <1>1, <1>2
  <2>3. QED
    BY <2>1, <2>2
<1>4. CASE Placed(t, e)
  <2>1. PICK x \in 1 .. Len(t) : t[x].name = n /\ t[x].group = Path(e)
    BY <1>4 DEF Placed
  <2>2. Len(s) + x \in 1 .. Len(u) /\ u[Len(s) + x] = t[x]
    BY <1>1, <1>2
  <2>3. QED
    BY <2>1, <2>2
<1>5. QED
  BY <1>3, <1>4

LEMMA CompiledItemGives ==
    ASSUME NEW e, NEW key, NEW name, NEW group
    PROVE  /\ CompiledItem(e, key, name, group).name = name
           /\ CompiledItem(e, key, name, group).group = group
BY DEF CompiledItem

LEMMA EntryPlaced ==
    ASSUME NEW h, NEW e, e.paramMax \in Nat \cup {-1},
           e.parent = Empty => h.skeletonGroup = Path(e),
           e.parent # Empty => e.paramMax = -1 /\ h.variables[Variable(e.group)] = Path(e)
    PROVE  Placed(EntryItems(h, e), e)
<1> DEFINE list == EntryItems(h, e)
           group == IF e.parent = Empty THEN h.skeletonGroup ELSE h.variables[Variable(e.group)]
           one == CompiledItem(e, e.key, e.name, group)
<1>1. CASE e.paramMax = -1
  <2>1. list = <<one>> /\ ParsedNames(e) = {e.name}
    BY <1>1 DEF EntryItems, ParsedNames
  <2>2. group = Path(e)
    OBVIOUS
  <2>3. one.name = e.name /\ one.group = Path(e)
    <3> HIDE DEF group
    <3> QED
      BY <2>2, CompiledItemGives
  <2> HIDE DEF one, list
  <2>4. Len(list) = 1 /\ list[1] = one
    BY <2>1
  <2>5. QED
    BY <2>1, <2>3, <2>4 DEF Placed, list
<1>2. CASE e.paramMax # -1
  <2> DEFINE k == e.paramMax + 1
             F(n) == CompiledItem(e, ParamString(e.key, n - 1), ParamString(e.name, n - 1),
                                  h.skeletonGroup)
  <2>1. list = [n \in 1 .. k |-> F(n)]
    BY <1>2 DEF EntryItems
  <2>2. k \in Nat /\ h.skeletonGroup = Path(e)
    BY <1>2
  <2>3. \A n \in 1 .. k : F(n).name = ParamString(e.name, n - 1) /\ F(n).group = Path(e)
    BY <2>2, CompiledItemGives
  <2> HIDE DEF F, list
  <2>4. Len(list) = k /\ \A n \in 1 .. k : list[n] = F(n)
    <3> HIDE DEF k
    <3>1. list \in Seq({F(n) : n \in 1 .. k})
      BY <2>1, <2>2
    <3>2. QED
      BY <2>1, <2>2, <3>1
  <2>5. ASSUME NEW n \in ParsedNames(e)
        PROVE  \E x \in 1 .. Len(list) : list[x].name = n /\ list[x].group = Path(e)
    <3>1. PICK m \in 0 .. e.paramMax : n = ParamString(e.name, m)
      BY <1>2 DEF ParsedNames
    <3>2. m + 1 \in 1 .. k /\ (m + 1) - 1 = m
      BY <1>2
    <3>3. list[m + 1].name = n /\ list[m + 1].group = Path(e)
      BY <2>3, <2>4, <3>1, <3>2
    <3>4. QED
      BY <2>4, <3>2, <3>3
  <2>6. QED
    BY <2>5 DEF Placed, list
<1>3. QED
  BY <1>1, <1>2

\* Every entry of a document whose groups are apart has its items where it wants them.
LEMMA ConstructPlaces ==
    ASSUME NEW es, HasParams(es), DOMAIN es = 1 .. Len(es), ApartIn(es),
           \A i \in 1 .. Len(es) : es[i].group # Empty,
           Constructs(es)[Len(es)].ok
    PROVE  \A i \in 1 .. Len(es) : Placed(Constructs(es)[Len(es)].items, es[i])
<1> DEFINE n == Len(es)
           C(i) == Constructs(es)[i]
           T == {i \in 0 .. n : /\ CurrentIsOf(es, C(i)) /\ VariablesStand(es, C(i))
                                /\ \A j \in 1 .. i : Placed(C(i).items, es[j])}
<1>1. n \in Nat
  BY DEF HasParams
<1>2. \A i \in 1 .. n : C(i) = ConstructEntry(C(i - 1), es[i])
  BY <1>1, ConstructsStep
<1>3. \A i \in 0 .. n : IsGenerator(C(i)) /\ C(i).ok
  BY ConstructsGives
<1>4. 0 \in T
  <2>1. C(0) = NewGenerator
    BY <1>1, ConstructsStep
  <2>2. CurrentIsOf(es, C(0)) /\ VariablesStand(es, C(0))
    BY <2>1 DEF CurrentIsOf, VariablesStand, NewGenerator
  <2>3. QED
    BY <1>1, <2>2
<1> HIDE DEF C
<1>5. ASSUME NEW i \in 1 .. n, i - 1 \in T
      PROVE  i \in T
  <2> DEFINE e == es[i]
             g == C(i - 1)
             h == HandleCurrentGroupChange(g, e)
             list == EntryItems(h, e)
  <2>1. /\ IsGenerator(g) /\ CurrentIsOf(es, g) /\ VariablesStand(es, g)
        /\ \A j \in 1 .. i - 1 : Placed(g.items, es[j])
    BY <1>1, <1>3, <1>5
  <2>2. /\ CurrentIsOf(es, h) /\ VariablesStand(es, h)
        /\ e.parent = Empty => h.skeletonGroup = Path(e)
        /\ e.parent # Empty => h.variables[Variable(e.group)] = Path(e)
    <3> HIDE DEF g
    <3> QED
      BY <2>1, GroupChangeKeeps
  <2>3. e.paramMax \in Nat \cup {-1} /\ (e.parent # Empty => e.paramMax = -1)
    BY DEF HasParams, ApartIn
  <2>4. /\ C(i).items = g.items \o list
        /\ C(i).current = h.current /\ C(i).variables = h.variables
        /\ C(i).skeletonGroup = h.skeletonGroup
    <3>1. C(i) = ConstructEntry(g, e) /\ C(i).ok
      BY <1>2, <1>3
    <3> HIDE DEF g, e
    <3>2. QED
      BY <2>1, <2>3, <3>1, ConstructEntryGives
  <2>5. IsSeq(list) /\ Placed(list, e)
    <3> HIDE DEF h, e
    <3> QED
      BY <2>2, <2>3, EntryItemsSeq, EntryPlaced
  <2>6. CurrentIsOf(es, C(i)) /\ VariablesStand(es, C(i))
    <3> HIDE DEF h
    <3> QED
      BY <2>2, <2>4 DEF CurrentIsOf, VariablesStand
  <2>7. ASSUME NEW j \in 1 .. i
        PROVE  Placed(C(i).items, es[j])
    <3>1. IsSeq(g.items)
      BY <2>1 DEF IsGenerator
    <3>2. Placed(g.items, es[j]) \/ Placed(list, es[j])
      BY <2>1, <2>5
    <3> HIDE DEF g, list
    <3>3. Placed(g.items \o list, es[j])
      BY <2>5, <3>1, <3>2, PlacedInBoth
    <3>4. QED
      BY <2>4, <3>3
  <2>8. QED
    BY <2>6, <2>7
<1> HIDE DEF T, n
<1>6. \A i \in 0 .. n : i \in T
  BY <1>1, <1>4, <1>5, CountUp
<1>7. n \in T
  BY <1>1, <1>6
<1>8. QED
  BY <1>7 DEF T, C, n

\* Once the document is read, the class is what the compiler makes of it.
IsCompiled == inside = "end" => compiled = Construct(written)

LEMMA CompiledInit == XtInit => IsCompiled
BY DEF XtInit, IsCompiled

LEMMA CompiledNext == IsCompiled /\ [XtNext]_xtVars => IsCompiled'
<1> SUFFICES ASSUME IsCompiled, [XtNext]_xtVars PROVE IsCompiled'
  OBVIOUS
<1> USE DEF IsCompiled
<1>1. ASSUME NEW t \in Labels, Signal(t) \/ Label(t) \/ ChoiceLabel(t)
      PROVE  IsCompiled'
  BY <1>1 DEF Signal, Label, ChoiceLabel, document
<1>2. ASSUME NEW g \in Groups, StartGroup(g)
      PROVE  IsCompiled'
  BY <1>2 DEF StartGroup
<1>3. ASSUME NEW a \in Attributes, StartEntry(a)
      PROVE  IsCompiled'
  BY <1>3 DEF StartEntry
<1>4. ASSUME NEW d \in Defaults, Default(d)
      PROVE  IsCompiled'
  BY <1>4 DEF Default
<1>5. ASSUME NEW b \in {"min", "max"}, NEW d \in Bounds, Bound(b, d)
      PROVE  IsCompiled'
  BY <1>5 DEF Bound
<1>6. ASSUME NEW m \in ParamMax, Parameter(m)
      PROVE  IsCompiled'
  BY <1>6 DEF Parameter
<1>7. ASSUME NEW n \in ChoiceNames, NEW v \in ChoiceValues, StartChoice(n, v)
      PROVE  IsCompiled'
  BY <1>7 DEF StartChoice
<1>8. ASSUME EndChoice \/ EndEntry \/ EndGroup \/ End
      PROVE  IsCompiled'
  BY <1>8 DEF EndChoice, EndEntry, EndGroup, End
<1>9. CASE UNCHANGED xtVars
  BY <1>9 DEF xtVars, document
<1>10. QED
  BY <1>1, <1>2, <1>3, <1>4, <1>5, <1>6, <1>7, <1>8, <1>9 DEF XtNext

LEMMA ParsedGives ==
    ASSUME NEW es \in Seq(XtEntry)
    PROVE  /\ Len(es) \in Nat /\ DOMAIN es = 1 .. Len(es)
           /\ Len(Parsed(es)) = Len(es) /\ DOMAIN Parsed(es) = 1 .. Len(es)
           /\ \A i \in 1 .. Len(es) : es[i] \in XtEntry /\ Parsed(es)[i] = ParseEntry(es[i])
           /\ HasParams(Parsed(es))
<1> DEFINE n == Len(es)
           ps == Parsed(es)
<1>1. n \in Nat /\ DOMAIN es = 1 .. n /\ \A i \in 1 .. n : es[i] \in XtEntry
  OBVIOUS
<1>2. ps = [i \in 1 .. n |-> ParseEntry(es[i])]
  BY <1>1 DEF Parsed
<1> HIDE DEF ps, n
<1>3. ps \in Seq({ParseEntry(es[i]) : i \in 1 .. n}) /\ DOMAIN ps = 1 .. n
  BY <1>1, <1>2
<1>4. Len(ps) = n
  BY <1>1, <1>3
<1>5. \A i \in 1 .. n : ps[i] = ParseEntry(es[i])
  BY <1>2
<1>6. \A i \in 1 .. n : ps[i].paramMax \in Nat \cup {-1}
  <2> SUFFICES ASSUME NEW i \in 1 .. n PROVE ps[i].paramMax \in Nat \cup {-1}
    OBVIOUS
  <2>1. es[i] \in XtEntry
    BY <1>1
  <2>2. ParseEntry(es[i]).paramMax = es[i].paramMax
    BY <2>1, ParseEntryGives
  <2>3. QED
    BY <1>5, <2>1, <2>2 DEF XtEntry
<1>7. QED
  BY <1>1, <1>3, <1>4, <1>5, <1>6 DEF HasParams, ps, n

\* What the compiler accepts.
LEMMA ConstructMade ==
    ASSUME NEW es \in Seq(XtEntry), Construct(es).made
    PROVE  /\ Construct(es).items = Constructs(Parsed(es))[Len(es)].items
           /\ Constructs(Parsed(es))[Len(es)].ok
           /\ ~Rejected(Parsed(es))
BY DEF Construct, NoClass

\* Whatever groups come before, every entry of a document whose groups are apart has its items in
\* the compiled class in its own group, below its parent.
THEOREM GroupsApartCompiled == XtSpec => []CompiledGroupsApart
<1>1. XtTypeOK /\ IsCompiled => CompiledGroupsApart
  <2> SUFFICES ASSUME XtTypeOK, GroupsAreApart, inside = "end", compiled = Construct(written),
                      compiled.made, NEW i \in DOMAIN written, NEW n \in ItemNames(written[i])
               PROVE  \E item \in ToSet(compiled.items) :
                          item.name = n /\ item.group = Path(written[i])
    BY DEF CompiledGroupsApart, CompiledGroups, IsCompiled
  <2> DEFINE es == Parsed(written)
             items == compiled.items
             class == Constructs(es)[Len(es)]
  <2>1. written \in Seq(XtEntry)
    BY DEF XtTypeOK
  <2>2. /\ Len(written) \in Nat /\ DOMAIN written = 1 .. Len(written)
        /\ Len(es) = Len(written) /\ DOMAIN es = 1 .. Len(written)
        /\ \A k \in 1 .. Len(written) : es[k] = ParseEntry(written[k])
        /\ HasParams(es)
    BY <2>1, ParsedGives
  <2>3. items = class.items /\ class.ok /\ ~Rejected(es)
    BY <2>1, <2>2, ConstructMade
  <2>4. \A k \in 1 .. Len(written) :
            /\ es[k].group = written[k].group /\ es[k].parent = written[k].parent
            /\ es[k].paramMax = written[k].paramMax
    BY <2>1, <2>2, ParseEntryGives
  <2>5. \A k \in 1 .. Len(written) : Path(es[k]) = Path(written[k])
    BY <2>4 DEF Path
  <2> HIDE DEF es, class, items
  <2>6. ApartIn(es)
    BY <2>2, <2>4, <2>5 DEF ApartIn, GroupsAreApart
  <2>7. \A k \in 1 .. Len(es) : es[k].group # Empty
    BY <2>2, <2>3 DEF Rejected
  <2>8. Placed(items, es[i])
    BY <2>2, <2>3, <2>6, <2>7, ConstructPlaces DEF class
  <2>9. n \in ParsedNames(es[i])
    BY <2>2, <2>4 DEF ParsedNames, ItemNames
  <2>10. PICK x \in 1 .. Len(items) : items[x].name = n /\ items[x].group = Path(es[i])
    BY <2>8, <2>9 DEF Placed
  <2>11. x \in DOMAIN items
    <3>1. IsSeq(items)
      <4>1. Len(es) \in 0 .. Len(es)
        BY <2>2
      <4>2. QED
        BY <2>2, <2>3, <4>1, ConstructsGives DEF class, IsGenerator
    <3>2. QED
      BY <3>1, <2>10 DEF IsSeq
  <2>12. items[x] \in ToSet(items)
    BY <2>11 DEF ToSet
  <2>13. QED
    BY <2>2, <2>5, <2>10, <2>12 DEF items
<1>2. QED
  BY <1>1, CompiledInit, CompiledNext, XtTypeCorrect, PTL DEF XtSpec

-----------------------------------------------------------------------------
(* The items of the two readers *)

\* What the loader has read of a choice.
ReadOf(c) == [name |-> c.name, value |-> Empty, label |-> Trimmed(c.label)]

ChoicesAgree(hs, es) ==
    Len(hs) = Len(es) /\ \A c \in 1 .. Len(es) : hs[c] = ReadOf(es[c])

\* What the loader has read of the entry that is open.
FieldsAgree(h, e) ==
    /\ h.name = Trimmed(e.name) /\ h.key = Trimmed(e.key) /\ h.type = e.type
    /\ e.label # Empty => h.label = Trimmed(e.label)
    /\ h.default = Trimmed(e.default) /\ h.bounds = e.bounds

\* Nothing is left of the entry before but its label and choice.
IsReset(h) == h.default = Empty /\ h.bounds = NoBounds /\ h.choices = <<>>

\* An entry for which the compiler has an item, and the loader is to have the same.
Meant(e) ==
    /\ Plain(e) /\ e.group # Empty
    /\ ParseEntry(e).name # Empty /\ CompilesAsWritten(ParseEntry(e))

\* The item of an entry in the loader of a base group.
ShownIn(b, e) ==
    LET p == ParseEntry(e)
        item == WithoutValues(CompiledItem(p, p.key, p.name, <<e.group>>))
    IN  [item EXCEPT !.group = IF b = Empty THEN @ ELSE Cons(b, @)]

LEMMA TrimmedEmpty == Trimmed(Empty) = Empty
<1>1. Empty \in Texts /\ DOMAIN Empty = {}
  BY DEF Empty, Texts
<1>2. QED
  BY <1>1 DEF Trimmed

LEMMA NoSpacesOfEmpty == NoSpaces(Empty) = Empty
<1>1. Len(Empty) = 0
  BY DEF Empty
<1>2. Removing(Empty, Space)[0] = Empty
  BY <1>1, RemovingStep
<1>3. QED
  BY <1>1, <1>2 DEF NoSpaces, Removed

LEMMA ConsOne ==
    ASSUME NEW a, NEW b
    PROVE  Cons(a, <<b>>) = <<a, b>>
<1> DEFINE s == <<a>>
           t == <<b>>
           u == s \o t
<1>1. s \in Seq({a}) /\ Len(s) = 1 /\ s[1] = a /\ t \in Seq({b}) /\ Len(t) = 1 /\ t[1] = b
  OBVIOUS
<1> HIDE DEF s, t
<1>2. IsSeq(s) /\ IsSeq(t)
  BY <1>1, AnySeq
<1>3. /\ IsSeq(u) /\ Len(u) = Len(s) + Len(t)
      /\ \A i \in 1 .. Len(s) : u[i] = s[i]
      /\ \A i \in 1 .. Len(t) : u[Len(s) + i] = t[i]
  BY <1>2, ConcatAny
<1> HIDE DEF u
<1>4. IsSeq(u) /\ Len(u) = 2 /\ u[1] = a /\ u[2] = b
  <2>1. 1 \in 1 .. Len(s) /\ 1 \in 1 .. Len(t) /\ Len(s) + 1 = 2
    BY <1>1
  <2>2. QED
    BY <1>1, <1>3, <2>1
<1>5. u = <<a, b>>
  BY <1>4 DEF IsSeq
<1>6. QED
  BY <1>5 DEF Cons, s, t, u

LEMMA IndexOfAgrees ==
    ASSUME NEW hs \in Seq(XtChoice), NEW es \in Seq(XtChoice), ChoicesAgree(hs, es), NEW n
    PROVE  IndexOf(hs, n) = IndexOf(es, n)
<1>1. DOMAIN hs = 1 .. Len(hs) /\ DOMAIN es = 1 .. Len(es)
  OBVIOUS
<1>4. ASSUME NEW c \in 1 .. Len(es)
      PROVE  hs[c].name = es[c].name
  <2>1. hs[c] = ReadOf(es[c])
    BY DEF ChoicesAgree
  <2>2. QED
    BY <2>1 DEF ReadOf
<1>5. Len(hs) = Len(es)
  BY DEF ChoicesAgree
<1> DEFINE S == {c \in DOMAIN hs : hs[c].name = n}
           T == {c \in DOMAIN es : es[c].name = n}
           First(U) == IF U = {} THEN 0 ELSE CHOOSE c \in U : \A d \in U : c <= d
<1>2. S = T
  BY <1>1, <1>4, <1>5
<1>3. IndexOf(hs, n) = First(S) /\ IndexOf(es, n) = First(T)
  BY DEF IndexOf
<1> HIDE DEF S, T, First
<1>6. QED
  BY <1>2, <1>3

\* Where a choice is found the name is one of a choice.
LEMMA IndexOfFinds ==
    ASSUME NEW es \in Seq(XtChoice), NEW n, IndexOf(es, n) # 0
    PROVE  n \notin DOMAIN Number
<1> DEFINE named == {c \in DOMAIN es : es[c].name = n}
<1>1. named # {}
  BY DEF IndexOf
<1>2. PICK c \in DOMAIN es : es[c].name = n
  BY <1>1
<1>3. n \in ChoiceNames \cup {Empty}
  <2>1. es[c] \in XtChoice
    OBVIOUS
  <2>2. QED
    BY <1>2, <2>1 DEF XtChoice
<1>4. QED
  BY <1>3, XtAssumption

\* A number that a type holds is what C++ makes of it.
LEMMA WrappedFits ==
    ASSUME NEW type, NEW n \in Int, n \in Lowest(type) .. (Lowest(type) + Span(type) - 1)
    PROVE  Wrapped(type, n) = n
<1>1. Span(type) \in Nat \ {0}
  BY XtAssumption DEF Span
<1>2. Lowest(type) \in Int
  BY <1>1 DEF Lowest
<1> DEFINE low == Lowest(type)
           span == Span(type)
<1> HIDE DEF low, span
<1>3. low \in Int /\ span \in Nat \ {0} /\ n \in low .. (low + span - 1)
  BY <1>1, <1>2 DEF low, span
<1>4. n - low \in 0 .. span - 1
  BY <1>3
<1>5. (n - low) % span = n - low
  BY <1>3, <1>4
<1>6. ((n - low) % span) + low = n
  BY <1>3, <1>5
<1>7. QED
  BY <1>6 DEF Wrapped, low, span

\* An integer that a type holds is the same for the two readers.
LEMMA IntegerConverts ==
    ASSUME NEW type, type \notin {"Bool", "Double"}, NEW s, IsInteger(type, s)
    PROVE  /\ ToInteger(type, s) = NumberOf(s).whole
           /\ Converted(type, Constant(s)) = Value(NumberOf(s).whole)
<1>1. NumberOf(s) \in [whole : Int, fraction : Texts] /\ Constant(s) = NumberOf(s)
  BY XtAssumption DEF IsInteger, IsNumber, NumberOf, Constant
<1>2. Wrapped(type, NumberOf(s).whole) = NumberOf(s).whole
  BY <1>1, WrappedFits DEF IsInteger
<1>3. QED
  BY <1>1, <1>2 DEF ToInteger, Converted

\* What is empty is no number, no time and no truth.
LEMMA EmptyIsNone ==
    /\ ~IsNumber(Empty) /\ Empty \notin DOMAIN Times /\ Empty \notin {True, False}
    /\ \A type : ToInteger(type, Empty) = 0
    /\ ToDouble(Empty) = Value(0)
<1>1. ~IsNumber(Empty) /\ Empty \notin DOMAIN Times /\ Empty \notin {True, False}
  BY XtAssumption, TrimmedEmpty DEF IsNumber
<1>2. \A type : ToInteger(type, Empty) = 0
  BY <1>1 DEF ToInteger, IsInteger
<1>3. ToDouble(Empty) = Value(0)
  <2>1. ToDouble(Empty) = Value(0) \o Empty
    BY <1>1 DEF ToDouble, Converted, Zero
  <2>2. <<ToString(0)>> \o <<>> = <<ToString(0)>>
    OBVIOUS
  <2>3. QED
    BY <2>1, <2>2 DEF Value, Empty
<1>4. QED
  BY <1>1, <1>2, <1>3

\* An empty text has one part, which is empty.
LEMMA EmptyParts == Len(Split(Empty)) = 1 /\ SkipEmptyParts(Split(Empty)) = Nothing
<1> DEFINE next(g, i) == IF i = 0 THEN <<Empty>>
                         ELSE IF Empty[i] = Comma THEN Append(g[i - 1], Empty)
                         ELSE Append(Front(g[i - 1]), Append(Last(g[i - 1]), Empty[i]))
           p == Splitting(Empty)
           g == [i \in 0 .. 0 |-> <<Empty>>]
<1>1. Len(Empty) = 0
  BY DEF Empty
<1>2. p = CHOOSE f : f = [i \in 0 .. Len(Empty) |-> next(f, i)]
  BY DEF Splitting
<1>3. g = [i \in 0 .. Len(Empty) |-> next(g, i)]
  BY <1>1
<1> HIDE DEF next, g
<1>4. p = [i \in 0 .. Len(Empty) |-> next(p, i)]
  BY <1>2, <1>3
<1> HIDE DEF p
<1>5. p[0] = next(p, 0)
  BY <1>1, <1>4
<1>6. Split(Empty) = <<Empty>>
  BY <1>1, <1>5 DEF Split, next, p
<1> DEFINE one == <<Empty>>
<1>7. Len(one) = 1 /\ one[1] = Empty
  OBVIOUS
<1> HIDE DEF one
<1>8. Removing(one, Empty)[1] = Empty
  <2>1. Len(one) \in Nat /\ 1 \in 1 .. Len(one) /\ 1 - 1 = 0
    BY <1>7
  <2>2. Removing(one, Empty)[1] = Removing(one, Empty)[1 - 1]
    BY <1>7, <2>1, RemovingStep
  <2>3. QED
    BY <2>1, <2>2, RemovingStep
<1>9. QED
  BY <1>6, <1>7, <1>8 DEF one, SkipEmptyParts, Removed, Nothing, Empty

\* The default of an item is the same for the two readers, when it is one that they take for the
\* same and it compiles.
LEMMA LoaderDefaultShows ==
    ASSUME NEW h \in XtHandler, NEW e \in XtEntry, h.type = e.type, h.default = e.default,
           ChoicesAgree(h.choices, e.choices), NEW p, p.type = e.type, p.default = e.default,
           p.choices = e.choices, CompilesAsWritten(p), Trimmed(e.default) = e.default,
           e.type \in LoaderTypes, SameText(e)
    PROVE  LoaderDefault(h) = CompiledDefault(p)
<1> DEFINE s == e.default
           c == IndexOf(e.choices, s)
           mine == LoaderDefault(h)
           theirs == CompiledDefault(p)
<1>1. h.choices \in Seq(XtChoice) /\ e.choices \in Seq(XtChoice)
  BY DEF XtHandler, XtEntry
<1>2. IndexOf(h.choices, s) = c
  BY <1>1, IndexOfAgrees
<1>3. h.type = e.type /\ h.default = s /\ p.type = e.type /\ p.default = s /\ p.choices = e.choices
  OBVIOUS
<1>4. e.type # "Enum" => theirs = IF s = Empty THEN MissingDefault(p) ELSE WrittenDefault(e.type, s)
  BY <1>3 DEF CompiledDefault
<1>5. Trimmed(s) = s
  OBVIOUS
<1>6. ASSUME NEW type, IsInteger(type, s), s # Empty
      PROVE  IsNumber(s)
  BY <1>6 DEF IsInteger
<1> HIDE DEF mine, theirs
<1>7. CASE e.type = "Bool"
  <2>1. s \in {True, False} /\ s # Empty /\ ~IsNumber(s)
    BY <1>5, <1>7, EmptyIsNone, XtAssumption DEF SameText, IsNumber
  <2>2. mine = <<s>>
    BY <1>3, <1>7, <2>1, XtAssumption DEF LoaderDefault, mine
  <2>3. theirs = <<Converted("Bool", Constant(s))>>
    BY <1>4, <1>7, <2>1 DEF WrittenDefault, ListTypes
  <2>4. Constant(s) = [whole |-> IF s = True THEN 1 ELSE 0, fraction |-> Empty]
    BY <1>5, <2>1 DEF Constant
  <2>5. Converted("Bool", Constant(s)) = s
    BY <2>1, <2>4, XtAssumption DEF Converted
  <2>6. QED
    BY <2>2, <2>3, <2>5 DEF mine, theirs
<1>8. CASE e.type = "Color"
  <2>1. s # Empty /\ Len(Split(s)) = 1
    BY <1>8 DEF SameText
  <2>2. ~IsRgb(s)
    BY <2>1 DEF IsRgb
  <2>3. mine = ColorNamed(s)
    BY <1>3, <1>8 DEF LoaderDefault, mine
  <2>4. theirs = ColorNamed(s)
    BY <1>4, <1>8, <2>1, <2>2 DEF WrittenDefault
  <2>5. QED
    BY <2>3, <2>4 DEF mine, theirs
<1>9. CASE e.type = "Time"
  <2>1. mine = IF s \in DOMAIN Times THEN <<Times[s].second, Times[s].ms>> ELSE Nothing
    BY <1>3, <1>9 DEF LoaderDefault, mine
  <2>2. s \in DOMAIN Times => s # Empty /\ Times[s].ms = Empty
    BY <1>9, EmptyIsNone DEF SameText
  <2>3. MissingDefault(p) = Nothing
    BY <1>3, <1>9 DEF MissingDefault, NumericTypes, IntegerTypes
  <2>4. WrittenDefault(e.type, s)
            = IF s \in DOMAIN Times THEN <<Times[s].second, Empty>> ELSE Nothing
    BY <1>9 DEF WrittenDefault
  <2>5. QED
    BY <1>4, <1>9, <2>1, <2>2, <2>3, <2>4 DEF mine, theirs
<1>10. CASE e.type = "Enum"
  <2>1. mine = <<Value(IF IsInteger("Int", s) THEN NumberOf(s).whole
                       ELSE IF c = 0 THEN 0 ELSE c - 1)>>
    BY <1>2, <1>3, <1>10 DEF LoaderDefault, mine
  <2>2. theirs = IF c # 0 THEN <<Value(c - 1)>>
                 ELSE IF s = Empty THEN MissingDefault(p) ELSE WrittenDefault("Enum", s)
    BY <1>3, <1>10 DEF CompiledDefault, theirs
  <2>3. c # 0 => ~IsInteger("Int", s)
    BY <1>1, <1>5, IndexOfFinds DEF IsInteger, IsNumber
  <2>4. MissingDefault(p) = <<Value(0)>>
    BY <1>3, <1>10 DEF MissingDefault
  <2>5. WrittenDefault("Enum", s) = <<Converted("Enum", Constant(s))>>
    BY DEF WrittenDefault, ListTypes
  <2>6. s = Empty => ~IsInteger("Int", s)
    BY EmptyIsNone DEF IsInteger
  <2>7. IsInteger("Int", s) => Converted("Enum", Constant(s)) = Value(NumberOf(s).whole)
    <3>1. Span("Enum") = Span("Int") /\ Lowest("Enum") = Lowest("Int")
      BY DEF Span, Lowest
    <3>2. IsInteger("Int", s) => IsInteger("Enum", s)
      BY <3>1 DEF IsInteger
    <3>3. QED
      BY <3>2, IntegerConverts
  <2>8. s = Empty \/ IsInteger("Int", s) \/ c # 0
    BY <1>10 DEF SameText
  <2> HIDE DEF s, c
  <2>9. QED
    BY <2>1, <2>2, <2>3, <2>4, <2>5, <2>6, <2>7, <2>8 DEF mine, theirs
<1>11. CASE e.type \in IntegerTypes
  <2>1. e.type \notin {"Bool", "Color", "Time", "Enum", "Double", "IntList"} \cup ListTypes
    BY <1>11 DEF IntegerTypes, ListTypes
  <2>2. mine = <<Value(ToInteger(e.type, s))>>
    BY <1>3, <1>11, <2>1 DEF LoaderDefault, mine
  <2>3. MissingDefault(p) = <<Value(0)>>
    BY <1>3, <1>11, <2>1 DEF MissingDefault, NumericTypes
  <2>4. WrittenDefault(e.type, s) = <<Converted(e.type, Constant(s))>>
    BY <1>11, <2>1 DEF WrittenDefault, NumericTypes
  <2>5. s = Empty \/ IsInteger(e.type, s)
    BY <1>11 DEF SameText
  <2>6. s # Empty => Value(ToInteger(e.type, s)) = Converted(e.type, Constant(s))
    BY <2>1, <2>5, IntegerConverts
  <2>7. s = Empty => ToInteger(e.type, s) = 0
    BY EmptyIsNone
  <2>8. QED
    BY <1>4, <2>1, <2>2, <2>3, <2>4, <2>6, <2>7 DEF mine, theirs
<1>12. CASE e.type = "Double"
  <2>1. mine = <<ToDouble(s)>>
    BY <1>3, <1>12 DEF LoaderDefault, mine, IntegerTypes
  <2>2. MissingDefault(p) = <<Value(0)>>
    BY <1>3, <1>12 DEF MissingDefault, NumericTypes
  <2>3. WrittenDefault("Double", s) = <<Converted("Double", Constant(s))>>
    BY DEF WrittenDefault, NumericTypes, ListTypes
  <2>4. s # Empty => ToDouble(s) = Converted("Double", Constant(s))
    BY <1>12 DEF SameText, ToDouble, Constant
  <2>5. s = Empty => ToDouble(s) = Value(0)
    BY EmptyIsNone
  <2>6. QED
    BY <1>4, <1>12, <2>1, <2>2, <2>3, <2>4, <2>5 DEF mine, theirs
<1>13. CASE e.type = "StringList"
  <2>1. mine = SkipEmptyParts(Split(s))
    BY <1>3, <1>13 DEF LoaderDefault, mine, IntegerTypes
  <2>2. MissingDefault(p) = Nothing
    BY <1>3, <1>13 DEF MissingDefault, NumericTypes, IntegerTypes, ListTypes
  <2>3. WrittenDefault("StringList", s) = Split(s)
    BY DEF WrittenDefault, ListTypes
  <2>4. s # Empty => SkipEmptyParts(Split(s)) = Split(s)
    BY <1>13 DEF SameText
  <2>5. QED
    BY <1>4, <1>13, <2>1, <2>2, <2>3, <2>4, EmptyParts DEF mine, theirs
<1>14. CASE e.type = "IntList"
  <2> DEFINE parts == Split(s)
             solid == SkipEmptyParts(parts)
             read == [i \in DOMAIN solid |-> Value(ToInteger("Int", solid[i]))]
             made == [i \in DOMAIN parts |-> Converted("Int", Constant(parts[i]))]
  <2>1. mine = read
    BY <1>3, <1>14 DEF LoaderDefault, mine, IntegerTypes
  <2>2. MissingDefault(p) = Nothing
    BY <1>3, <1>14 DEF MissingDefault, NumericTypes, IntegerTypes
  <2>3. WrittenDefault("IntList", s) = made
    BY DEF WrittenDefault, ListTypes
  <2>4. s # Empty => solid = parts /\ \A i \in DOMAIN parts : IsInteger("Int", parts[i])
    BY <1>14 DEF SameText
  <2>5. s # Empty => \A i \in DOMAIN parts :
                        Value(ToInteger("Int", parts[i])) = Converted("Int", Constant(parts[i]))
    <3> SUFFICES ASSUME s # Empty, NEW i \in DOMAIN parts
                 PROVE  Value(ToInteger("Int", parts[i])) = Converted("Int", Constant(parts[i]))
      OBVIOUS
    <3>1. IsInteger("Int", parts[i])
      BY <2>4
    <3>2. QED
      BY <3>1, IntegerConverts
  <2>6. s = Empty => solid = Nothing
    BY EmptyParts
  <2> HIDE DEF parts, solid
  <2>7. s # Empty => read = made
    BY <2>4, <2>5
  <2>8. s = Empty => read = Nothing
    BY <2>6 DEF Nothing
  <2>9. QED
    BY <1>4, <1>14, <2>1, <2>2, <2>3, <2>7, <2>8 DEF mine, theirs
<1>15. CASE e.type \in DOMAIN Coordinates
  <2>1. /\ e.type \in {"Point", "PointF", "Size", "SizeF", "Rect", "RectF"}
        /\ Coordinates[e.type] \in {2, 4}
    BY <1>15 DEF Coordinates
  <2>2. s = Empty
    BY <1>3, <2>1 DEF CompilesAsWritten, NumericTypes, IntegerTypes, ListTypes
  <2>3. mine = Nothing
    <3>1. Len(Split(s)) < Coordinates[e.type]
      BY <2>1, <2>2, EmptyParts
    <3>2. QED
      BY <1>3, <1>15, <2>1, <3>1 DEF LoaderDefault, LoaderCoordinates, mine, IntegerTypes
  <2>4. MissingDefault(p) = Nothing
    BY <1>3, <1>15, <2>1 DEF MissingDefault, NumericTypes, IntegerTypes, ListTypes
  <2>5. QED
    BY <1>4, <2>1, <2>2, <2>3, <2>4 DEF mine, theirs
<1>16. CASE e.type \in {"String", "Path", "Password", "Url", "DateTime"}
  <2>1. e.type \notin DOMAIN Coordinates
    BY <1>16 DEF Coordinates
  <2>2. mine = <<s>>
    BY <1>3, <1>16, <2>1 DEF LoaderDefault, mine, IntegerTypes
  <2>3. MissingDefault(p) = <<Empty>>
    BY <1>3, <1>16, <2>1 DEF MissingDefault, NumericTypes, IntegerTypes, ListTypes
  <2>4. WrittenDefault(e.type, s) = <<s>>
    BY <1>16 DEF WrittenDefault, NumericTypes, IntegerTypes, ListTypes
  <2>5. QED
    BY <1>4, <1>16, <2>2, <2>3, <2>4 DEF mine, theirs
<1>17. e.type # "Font"
  BY DEF SameText
<1>18. QED
  BY <1>7, <1>8, <1>9, <1>10, <1>11, <1>12, <1>13, <1>14, <1>15, <1>16, <1>17
     DEF LoaderTypes, IntegerTypes, Coordinates

\* And so are the bounds.
LEMMA LoaderBoundsShow ==
    ASSUME NEW h, NEW e, NEW p, h.type = e.type, p.type = e.type, h.bounds = e.bounds,
           p.bounds = e.bounds, CompilesAsWritten(p), SameText(e)
    PROVE  LoaderBounds(h) = CompiledBounds(p)
<1>1. ASSUME NEW b \in {"min", "max"}
      PROVE  (IF h.type \in NumericTypes /\ IsInteger("Int", h.bounds[b])
              THEN <<Converted(h.type, NumberOf(h.bounds[b]))>> ELSE Nothing)
             = IF p.bounds[b] = Empty THEN Nothing
               ELSE <<Converted(p.type, Constant(p.bounds[b]))>>
  <2>1. p.bounds[b] # Empty => p.type \in NumericTypes \cup {"Enum"}
    BY DEF CompilesAsWritten
  <2>2. e.bounds[b] # Empty => e.type # "Enum" /\ IsInteger("Int", e.bounds[b])
    BY DEF SameText
  <2>3. IsInteger("Int", e.bounds[b])
            => e.bounds[b] # Empty /\ Constant(e.bounds[b]) = NumberOf(e.bounds[b])
    BY EmptyIsNone DEF IsInteger, Constant
  <2>4. QED
    BY <2>1, <2>2, <2>3
<1>2. QED
  BY <1>1 DEF LoaderBounds, CompiledBounds

LEMMA LoaderChoicesShow ==
    ASSUME NEW hs \in Seq(XtChoice), NEW es \in Seq(XtChoice), ChoicesAgree(hs, es),
           \A c \in DOMAIN es : Trimmed(es[c].label) = es[c].label
    PROVE  hs = [c \in DOMAIN es |-> [es[c] EXCEPT !.value = Empty]]
<1>1. ASSUME NEW c \in DOMAIN es
      PROVE  hs[c] = [es[c] EXCEPT !.value = Empty]
  <2>1. es[c] \in XtChoice
    OBVIOUS
  <2>2. hs[c] = [name |-> es[c].name, value |-> Empty, label |-> es[c].label]
    BY DEF ChoicesAgree, ReadOf
  <2>3. QED
    BY <2>1, <2>2 DEF XtChoice
<1>2. DOMAIN hs = DOMAIN es
  BY DEF ChoicesAgree
<1>3. hs = [c \in DOMAIN hs |-> hs[c]]
  OBVIOUS
<1>4. QED
  BY <1>1, <1>2, <1>3

LEMMA MeantName ==
    ASSUME NEW e \in XtEntry, Meant(e), NEW h, FieldsAgree(h, e)
    PROVE  /\ LoaderName(h) = ParseEntry(e).name /\ LoaderName(h) # Empty
           /\ (IF h.key = Empty THEN LoaderName(h) ELSE h.key) = ParseEntry(e).key
<1> DEFINE p == ParseEntry(e)
<1>1. e.name \in Texts /\ e.key \in Texts
  BY DEF XtEntry
<1>2. /\ p.name = NoSpaces(IF e.name = Empty THEN e.key ELSE e.name) /\ p.name # Empty
      /\ p.key = IF e.key = Empty THEN e.name ELSE e.key
  BY ParseEntryGives DEF Meant
<1> HIDE DEF p
<1>3. h.name = Trimmed(e.name) /\ h.key = e.key /\ (e.key # Empty \/ NoSpaces(e.name) = e.name)
  <2>1. Trimmed(e.key) = e.key
    BY DEF Meant, Plain
  <2>2. QED
    BY <2>1 DEF Meant, Plain, FieldsAgree
<1>4. NoSpaces(Trimmed(e.name)) = NoSpaces(e.name)
  BY <1>1, NoSpacesOfTrimmed
<1>5. LoaderName(h) = NoSpaces(IF h.name = Empty THEN h.key ELSE h.name)
  BY DEF LoaderName
<1>6. LoaderName(h) = p.name
  <2>1. CASE e.name = Empty
    BY <1>2, <1>3, <1>5, <2>1, TrimmedEmpty
  <2>2. CASE e.name # Empty
    <3>1. p.name = NoSpaces(e.name)
      BY <1>2, <2>2
    <3>2. Trimmed(e.name) # Empty
      BY <1>2, <1>4, <3>1, NoSpacesOfEmpty
    <3>3. QED
      BY <1>3, <1>4, <1>5, <3>1, <3>2
  <2>3. QED
    BY <2>1, <2>2
<1>7. e.key = Empty => p.name = p.key
  <2>1. e.key = Empty => e.name # Empty
    BY <1>2, NoSpacesOfEmpty
  <2>2. QED
    BY <1>2, <1>3, <2>1
<1>8. QED
  BY <1>2, <1>3, <1>6, <1>7 DEF p

\* What addItem() makes of an entry is what the compiled class has for it, in the loader's group.
LEMMA LoaderShows ==
    ASSUME NEW e \in XtEntry, Meant(e), NEW h \in XtHandler, FieldsAgree(h, e),
           ChoicesAgree(h.choices, e.choices), NEW b
    PROVE  /\ LoaderItem(h, Joined(b, e.group)) = ShownIn(b, e)
           /\ LoaderItem(h, Joined(b, e.group)).name # Empty
           /\ LoaderItem(h, Joined(b, e.group)).type \in LoaderTypes
<1> DEFINE p == ParseEntry(e)
           item == CompiledItem(p, p.key, p.name, <<e.group>>)
           path == IF b = Empty THEN <<e.group>> ELSE Cons(b, <<e.group>>)
           bare == [c \in DOMAIN item.choices |-> [item.choices[c] EXCEPT !.value = Empty]]
           mine == LoaderItem(h, Joined(b, e.group))
           listed == IF h.type = "Enum" THEN h.choices ELSE <<>>
<1>1. /\ p.type = e.type /\ p.label = e.label /\ p.default = e.default /\ p.bounds = e.bounds
      /\ p.choices = e.choices
  <2>1. e.type # NoType
    BY DEF Meant, Plain, LoaderTypes, NoType
  <2>2. e.label # Empty
    BY DEF Meant, Plain
  <2>3. QED
    BY <2>1, <2>2, ParseEntryGives
<1>2. /\ h.type = e.type /\ h.label = e.label /\ h.default = e.default /\ h.bounds = e.bounds
  <2>1. Trimmed(e.default) = e.default /\ Trimmed(e.label) = e.label /\ e.label # Empty
    BY DEF Meant, Plain
  <2>2. QED
    BY <2>1 DEF FieldsAgree
<1>3. CompilesAsWritten(p)
  BY DEF Meant
<1>4. /\ LoaderName(h) = p.name /\ LoaderName(h) # Empty
      /\ (IF h.key = Empty THEN LoaderName(h) ELSE h.key) = p.key
  BY MeantName
<1> HIDE DEF p
<1>19. SameText(e) /\ e.type \in LoaderTypes /\ Trimmed(e.default) = e.default
  BY DEF Meant, Plain
<1>5. LoaderDefault(h) = CompiledDefault(p)
  BY <1>1, <1>2, <1>3, <1>19, LoaderDefaultShows
<1>6. LoaderBounds(h) = CompiledBounds(p)
  BY <1>1, <1>2, <1>3, <1>19, LoaderBoundsShow
<1>7. Joined(b, e.group) = path
  <2>1. e.group # Empty
    BY DEF Meant
  <2>2. Joined(b, e.group) = IF b = Empty THEN <<e.group>> ELSE <<b, e.group>>
    BY <2>1 DEF Joined
  <2>3. QED
    BY <2>2, ConsOne
<1>8. item = [name |-> p.name, group |-> <<e.group>>, key |-> p.key, type |-> e.type,
              label |-> e.label, default |-> CompiledDefault(p), bounds |-> CompiledBounds(p),
              choices |-> IF e.type = "Enum" THEN e.choices ELSE <<>>]
  BY <1>1 DEF CompiledItem
<1>9. listed = bare
  <2>1. CASE e.type = "Enum"
    <3>1. h.choices \in Seq(XtChoice) /\ e.choices \in Seq(XtChoice)
      BY DEF XtHandler, XtEntry
    <3>2. \A c \in DOMAIN e.choices : Trimmed(e.choices[c].label) = e.choices[c].label
      BY DEF Meant, Plain
    <3>3. h.choices = [c \in DOMAIN e.choices |-> [e.choices[c] EXCEPT !.value = Empty]]
      BY <3>1, <3>2, LoaderChoicesShow
    <3>4. item.choices = e.choices
      BY <1>8, <2>1
    <3> HIDE DEF item
    <3>5. QED
      BY <1>2, <2>1, <3>3, <3>4
  <2>2. CASE e.type # "Enum"
    <3>1. item.choices = <<>>
      BY <1>8, <2>2
    <3> HIDE DEF item
    <3>2. DOMAIN bare = {} /\ bare = [c \in {} |-> bare[c]]
      BY <3>1
    <3>3. bare = <<>>
      BY <3>2
    <3>4. QED
      BY <1>2, <2>2, <3>3
  <2>3. QED
    BY <2>1, <2>2
<1> HIDE DEF listed, bare, path
<1>10. mine = [name |-> p.name, group |-> path, key |-> p.key, type |-> e.type,
               label |-> e.label, default |-> CompiledDefault(p), bounds |-> CompiledBounds(p),
               choices |-> listed]
  BY <1>2, <1>4, <1>5, <1>6, <1>7 DEF LoaderItem, listed
<1> DEFINE mid == WithoutValues(item)
<1>16. mid = [item EXCEPT !.choices = bare]
  BY DEF WithoutValues, bare
<1> HIDE DEF mid
<1>17. ShownIn(b, e) = [mid EXCEPT !.group = IF b = Empty THEN mid.group ELSE Cons(b, mid.group)]
  BY DEF ShownIn, mid, p
<1> HIDE DEF item
<1>18. mid.group = <<e.group>>
  BY <1>8, <1>16
<1>11. ShownIn(b, e) = [[item EXCEPT !.choices = bare] EXCEPT !.group = path]
  BY <1>16, <1>17, <1>18 DEF path
<1>12. ShownIn(b, e) =
           [name |-> p.name, group |-> path, key |-> p.key, type |-> e.type, label |-> e.label,
            default |-> CompiledDefault(p), bounds |-> CompiledBounds(p), choices |-> bare]
  BY <1>8, <1>11
<1>13. e.type \in LoaderTypes
  BY DEF Meant, Plain
<1> HIDE DEF mine
<1>14. mine = ShownIn(b, e) /\ mine.name # Empty /\ mine.type \in LoaderTypes
  BY <1>4, <1>9, <1>10, <1>12, <1>13
<1>15. QED
  BY <1>14 DEF mine

ItemsShown ==
    (\A i \in DOMAIN written : Meant(written[i])) =>
        /\ Len(loader.items) = Len(written)
        /\ \A i \in 1 .. Len(written) : loader.items[i] = ShownIn(loader.base, written[i])

\* What the handler has read of the entry, and of it alone.
HandlerReads ==
    /\ inside \in {"kcfg", "group", "entries"} => IsReset(handler)
    /\ inside \in {"group", "entries"} => element = NewEntry(element.group, element.parent)
    /\ inside \in {"group", "entries", "entry", "choice"} =>
           loader.group = Joined(loader.base, element.group)
    /\ inside \in {"entry", "choice"} => FieldsAgree(handler, element)
    /\ inside = "entry" => ChoicesAgree(handler.choices, element.choices)
    /\ inside = "choice" =>
           /\ handler.inChoice /\ element.choices # <<>>
           /\ ChoicesAgree(Append(handler.choices, handler.choice), element.choices)

LoaderInv == HandlerReads /\ ItemsShown

LEMMA FreshIsReset ==
    /\ IsReset(FreshHandler)
    /\ \A h : IsReset(ResetState(h))
<1>1. IsReset(FreshHandler)
  BY DEF IsReset, FreshHandler
<1>2. ASSUME NEW h
      PROVE  IsReset(ResetState(h))
  <2>1. ResetState(h) = [FreshHandler EXCEPT !.choice = h.choice]
    BY DEF ResetState
  <2>2. /\ ResetState(h).default = Empty /\ ResetState(h).bounds = NoBounds
        /\ ResetState(h).choices = <<>>
    BY <2>1 DEF FreshHandler
  <2>3. QED
    BY <2>2 DEF IsReset
<1>3. QED
  BY <1>1, <1>2

LEMMA LoaderInitReads == XtInit => LoaderInv
<1> SUFFICES ASSUME XtInit PROVE LoaderInv
  OBVIOUS
<1>1. inside = "kcfg" /\ handler = FreshHandler /\ written = <<>>
  BY DEF XtInit
<1>2. HandlerReads
  BY <1>1, FreshIsReset DEF HandlerReads
<1>3. loader.items = <<>>
  BY DEF XtInit
<1>4. ItemsShown
  BY <1>1, <1>3 DEF ItemsShown
<1>5. QED
  BY <1>2, <1>4 DEF LoaderInv

\* The last element of what is appended to agrees with what it was made from.
LEMMA AgreeAppend ==
    ASSUME NEW hs \in Seq(XtChoice), NEW es \in Seq(XtChoice), ChoicesAgree(hs, es),
           NEW h \in XtChoice, NEW e \in XtChoice, h = ReadOf(e)
    PROVE  ChoicesAgree(Append(hs, h), Append(es, e))
<1> DEFINE new == Append(hs, h)
           old == Append(es, e)
<1>1. /\ Len(hs) \in Nat /\ Len(es) = Len(hs) /\ Len(new) = Len(hs) + 1 /\ Len(old) = Len(hs) + 1
      /\ \A c \in 1 .. Len(hs) : new[c] = hs[c] /\ old[c] = es[c]
      /\ new[Len(hs) + 1] = h /\ old[Len(hs) + 1] = e
  BY DEF ChoicesAgree
<1> HIDE DEF new, old
<1>2. \A c \in 1 .. Len(hs) : hs[c] = ReadOf(es[c])
  BY <1>1 DEF ChoicesAgree
<1>3. \A c \in 1 .. Len(hs) + 1 : new[c] = ReadOf(old[c])
  BY <1>1, <1>2
<1>4. QED
  BY <1>1, <1>3 DEF ChoicesAgree, new, old

\* Another label for the last choice.
LEMMA AgreeLabel ==
    ASSUME NEW hs \in Seq(XtChoice), NEW es \in Seq(XtChoice), es # <<>>, NEW h \in XtChoice,
           ChoicesAgree(Append(hs, h), es), NEW t
    PROVE  ChoicesAgree(Append(hs, [h EXCEPT !.label = Trimmed(t)]),
                        [es EXCEPT ![Len(es)].label = t])
<1> DEFINE n == Len(es)
           m == [h EXCEPT !.label = Trimmed(t)]
           old == Append(hs, h)
           new == Append(hs, m)
           e == [es[n] EXCEPT !.label = t]
           fs == [es EXCEPT ![n] = e]
<1>1. n \in Nat /\ n # 0 /\ DOMAIN es = 1 .. n /\ es[n] \in XtChoice
  OBVIOUS
<1>2. IsSeq(hs)
  BY AnySeq
<1> HIDE DEF m
<1>3. /\ Len(hs) \in Nat /\ Len(old) = Len(hs) + 1 /\ Len(new) = Len(hs) + 1
      /\ \A c \in 1 .. Len(hs) : old[c] = hs[c] /\ new[c] = hs[c]
      /\ old[Len(hs) + 1] = h /\ new[Len(hs) + 1] = m
  BY <1>2, AppendAny
<1> HIDE DEF old, new
<1>4. Len(old) = n /\ \A c \in 1 .. n : old[c] = ReadOf(es[c])
  BY DEF ChoicesAgree, old
<1> HIDE DEF n, e
<1>5. DOMAIN fs = 1 .. n /\ \A c \in 1 .. n : fs[c] = IF c = n THEN e ELSE es[c]
  BY <1>1
<1>6. Len(fs) = n
  <2>1. fs \in Seq({fs[c] : c \in 1 .. n})
    <3> HIDE DEF fs
    <3>1. \E k \in Nat : DOMAIN fs = 1 .. k
      BY <1>1, <1>5
    <3>2. fs = [c \in 1 .. n |-> fs[c]]
      BY <1>5 DEF fs
    <3>3. QED
      BY <1>1, <3>2
  <2> HIDE DEF fs
  <2>2. QED
    BY <1>1, <1>5, <2>1
<1> HIDE DEF fs
<1>7. h = ReadOf(es[n])
  BY <1>1, <1>3, <1>4
<1>8. m = ReadOf(e)
  BY <1>1, <1>7 DEF m, e, ReadOf, XtChoice
<1>9. \A c \in 1 .. n : new[c] = ReadOf(fs[c])
  <2> SUFFICES ASSUME NEW c \in 1 .. n PROVE new[c] = ReadOf(fs[c])
    OBVIOUS
  <2>1. CASE c = n
    BY <1>3, <1>4, <1>5, <1>8, <2>1
  <2>2. CASE c # n
    <3>1. c \in 1 .. Len(hs)
      BY <1>1, <1>3, <1>4, <2>2
    <3>2. QED
      BY <1>3, <1>4, <1>5, <2>2, <3>1
  <2>3. QED
    BY <2>1, <2>2
<1>10. ChoicesAgree(new, fs)
  BY <1>3, <1>4, <1>6, <1>9 DEF ChoicesAgree
<1>11. QED
  BY <1>10 DEF new, m, fs, e, n

\* What a step that reads nothing of an entry leaves as it was.
LEMMA ItemsStay ==
    ASSUME ItemsShown, written' = written, loader'.items = loader.items, loader'.base = loader.base
    PROVE  ItemsShown'
<1>1. ItemsShown' =
          ((\A i \in DOMAIN written : Meant(written[i])) =>
              /\ Len(loader.items) = Len(written)
              /\ \A i \in 1 .. Len(written) : loader.items[i] = ShownIn(loader.base, written[i]))
  BY DEF ItemsShown
<1>2. QED
  BY <1>1 DEF ItemsShown

LEMMA StartGroupReads ==
    ASSUME XtTypeOK, LoaderInv, NEW g \in Groups, StartGroup(g)
    PROVE  LoaderInv'
<1> DEFINE gp == Joined(loader.base, g.name)
           gs == IF g.name = Empty THEN loader.groups ELSE Append(loader.groups, g.name)
<1>1. /\ inside = "kcfg" /\ inside' = "group" /\ element' = NewEntry(g.name, g.parent)
      /\ written' = written /\ handler' = handler
      /\ loader' = [loader EXCEPT !.group = gp, !.groups = gs]
  BY DEF StartGroup
<1>2. element'.group = g.name /\ element'.parent = g.parent
  BY <1>1 DEF NewEntry
<1> HIDE DEF gs
<1>3. /\ loader'.group = gp /\ loader'.base = loader.base /\ loader'.items = loader.items
  <2> HIDE DEF gp
  <2> QED
    BY <1>1 DEF XtTypeOK, LoaderFields
<1>4. ItemsShown'
  BY <1>1, <1>3, ItemsStay DEF LoaderInv
<1>5. IsReset(handler)
  BY <1>1 DEF LoaderInv, HandlerReads
<1>6. HandlerReads'
  BY <1>1, <1>2, <1>3, <1>5 DEF HandlerReads
<1>7. QED
  BY <1>4, <1>6 DEF LoaderInv

LEMMA StartEntryReads ==
    ASSUME XtTypeOK, LoaderInv, NEW a \in Attributes, StartEntry(a)
    PROVE  LoaderInv'
<1> DEFINE n == Trimmed(a.name)
           k == Trimmed(a.key)
<1>1. /\ inside \in {"group", "entries"} /\ inside' = "entry"
      /\ element' = [element EXCEPT !.name = a.name, !.key = a.key, !.type = a.type]
      /\ handler' = [handler EXCEPT !.name = n, !.key = k, !.type = a.type]
      /\ written' = written /\ loader' = loader
  BY DEF StartEntry
<1>2. /\ IsReset(handler) /\ element = NewEntry(element.group, element.parent)
      /\ loader.group = Joined(loader.base, element.group)
  BY <1>1 DEF LoaderInv, HandlerReads
<1>3. /\ element.default = Empty /\ element.bounds = NoBounds /\ element.choices = <<>>
      /\ element.label = Empty
  BY <1>2 DEF NewEntry
<1> HIDE DEF n, k
<1>4. /\ handler'.name = n /\ handler'.key = k /\ handler'.type = a.type
      /\ handler'.default = Empty /\ handler'.bounds = NoBounds /\ handler'.choices = <<>>
  BY <1>1, <1>2 DEF XtTypeOK, XtHandler, IsReset
<1>5. /\ element'.name = a.name /\ element'.key = a.key /\ element'.type = a.type
      /\ element'.default = Empty /\ element'.bounds = NoBounds /\ element'.choices = <<>>
      /\ element'.label = Empty /\ element'.group = element.group
  BY <1>1, <1>3 DEF XtTypeOK, XtEntry
<1>6. FieldsAgree(handler', element')
  BY <1>4, <1>5, TrimmedEmpty DEF FieldsAgree, n, k
<1>7. ChoicesAgree(handler'.choices, element'.choices)
  BY <1>4, <1>5 DEF ChoicesAgree
<1>8. HandlerReads'
  BY <1>1, <1>2, <1>5, <1>6, <1>7 DEF HandlerReads
<1>9. ItemsShown'
  BY <1>1, ItemsStay DEF LoaderInv
<1>10. QED
  BY <1>8, <1>9 DEF LoaderInv

\* A step inside an entry that leaves its choices as they are.
LEMMA FieldReads ==
    ASSUME XtTypeOK, LoaderInv, inside = "entry", inside' = "entry", loader' = loader,
           written' = written, handler'.choices = handler.choices,
           element'.choices = element.choices, element'.group = element.group,
           FieldsAgree(handler', element')
    PROVE  LoaderInv'
<1>1. /\ ChoicesAgree(handler.choices, element.choices)
      /\ loader.group = Joined(loader.base, element.group)
  BY DEF LoaderInv, HandlerReads
<1>2. HandlerReads'
  BY <1>1 DEF HandlerReads
<1>3. ItemsShown'
  BY ItemsStay DEF LoaderInv
<1>4. QED
  BY <1>2, <1>3 DEF LoaderInv

LEMMA LabelReads ==
    ASSUME XtTypeOK, LoaderInv, NEW t \in Labels, Label(t)
    PROVE  LoaderInv'
<1> DEFINE u == Trimmed(t)
<1>1. /\ inside = "entry" /\ inside' = "entry" /\ loader' = loader /\ written' = written
      /\ element' = [element EXCEPT !.label = t] /\ handler' = [handler EXCEPT !.label = u]
  BY DEF Label
<1>2. FieldsAgree(handler, element)
  BY <1>1 DEF LoaderInv, HandlerReads
<1> HIDE DEF u
<1>3. /\ element'.name = element.name /\ element'.key = element.key
      /\ element'.type = element.type /\ element'.default = element.default
      /\ element'.bounds = element.bounds /\ element'.choices = element.choices
      /\ element'.group = element.group /\ element'.label = t
  BY <1>1 DEF XtTypeOK, XtEntry
<1>4. /\ handler'.name = handler.name /\ handler'.key = handler.key
      /\ handler'.type = handler.type /\ handler'.default = handler.default
      /\ handler'.bounds = handler.bounds /\ handler'.choices = handler.choices
      /\ handler'.label = u
  BY <1>1 DEF XtTypeOK, XtHandler
<1>5. FieldsAgree(handler', element')
  BY <1>2, <1>3, <1>4 DEF FieldsAgree, u
<1>6. QED
  BY <1>1, <1>3, <1>4, <1>5, FieldReads

LEMMA DefaultReads ==
    ASSUME XtTypeOK, LoaderInv, NEW d \in Defaults, Default(d)
    PROVE  LoaderInv'
<1> DEFINE u == Trimmed(d.text)
<1>1. /\ inside = "entry" /\ inside' = "entry" /\ loader' = loader /\ written' = written
      /\ element' = [element EXCEPT !.default = d.text] /\ handler' = [handler EXCEPT !.default = u]
  BY DEF Default
<1>2. FieldsAgree(handler, element)
  BY <1>1 DEF LoaderInv, HandlerReads
<1> HIDE DEF u
<1>3. /\ element'.name = element.name /\ element'.key = element.key
      /\ element'.type = element.type /\ element'.default = d.text
      /\ element'.bounds = element.bounds /\ element'.choices = element.choices
      /\ element'.group = element.group /\ element'.label = element.label
  BY <1>1 DEF XtTypeOK, XtEntry
<1>4. /\ handler'.name = handler.name /\ handler'.key = handler.key
      /\ handler'.type = handler.type /\ handler'.default = u
      /\ handler'.bounds = handler.bounds /\ handler'.choices = handler.choices
      /\ handler'.label = handler.label
  BY <1>1 DEF XtTypeOK, XtHandler
<1>5. FieldsAgree(handler', element')
  BY <1>2, <1>3, <1>4 DEF FieldsAgree, u
<1>6. QED
  BY <1>1, <1>3, <1>4, <1>5, FieldReads

LEMMA BoundReads ==
    ASSUME XtTypeOK, LoaderInv, NEW b \in {"min", "max"}, NEW d \in Bounds, Bound(b, d)
    PROVE  LoaderInv'
<1> DEFINE eb == [element.bounds EXCEPT ![b] = d.text]
           hb == [handler.bounds EXCEPT ![b] = d.text]
<1>1. /\ inside = "entry" /\ inside' = "entry" /\ loader' = loader /\ written' = written
      /\ element' = [element EXCEPT !.bounds = eb] /\ handler' = [handler EXCEPT !.bounds = hb]
  BY DEF Bound
<1>2. FieldsAgree(handler, element)
  BY <1>1 DEF LoaderInv, HandlerReads
<1>7. hb = eb
  BY <1>2 DEF FieldsAgree
<1> HIDE DEF eb, hb
<1>3. /\ element'.name = element.name /\ element'.key = element.key
      /\ element'.type = element.type /\ element'.default = element.default
      /\ element'.bounds = eb /\ element'.choices = element.choices
      /\ element'.group = element.group /\ element'.label = element.label
  BY <1>1 DEF XtTypeOK, XtEntry
<1>4. /\ handler'.name = handler.name /\ handler'.key = handler.key
      /\ handler'.type = handler.type /\ handler'.default = handler.default
      /\ handler'.bounds = hb /\ handler'.choices = handler.choices
      /\ handler'.label = handler.label
  BY <1>1 DEF XtTypeOK, XtHandler
<1>5. FieldsAgree(handler', element')
  BY <1>2, <1>3, <1>4, <1>7 DEF FieldsAgree
<1>6. QED
  BY <1>1, <1>3, <1>4, <1>5, FieldReads

LEMMA ParameterReads ==
    ASSUME XtTypeOK, LoaderInv, NEW m \in ParamMax, Parameter(m)
    PROVE  LoaderInv'
<1>1. /\ inside = "entry" /\ inside' = "entry" /\ loader' = loader /\ written' = written
      /\ element' = [element EXCEPT !.paramMax = m] /\ handler' = handler
  BY DEF Parameter
<1>2. FieldsAgree(handler, element)
  BY <1>1 DEF LoaderInv, HandlerReads
<1>3. /\ element'.name = element.name /\ element'.key = element.key
      /\ element'.type = element.type /\ element'.default = element.default
      /\ element'.bounds = element.bounds /\ element'.choices = element.choices
      /\ element'.group = element.group /\ element'.label = element.label
  BY <1>1 DEF XtTypeOK, XtEntry
<1>5. FieldsAgree(handler', element')
  BY <1>1, <1>2, <1>3 DEF FieldsAgree
<1>6. QED
  BY <1>1, <1>3, <1>5, FieldReads

LEMMA StartChoiceReads ==
    ASSUME XtTypeOK, LoaderInv, NEW n \in ChoiceNames, NEW v \in ChoiceValues, StartChoice(n, v)
    PROVE  LoaderInv'
<1> DEFINE e == [name |-> n, value |-> v, label |-> Empty]
           h == [NoChoice EXCEPT !.name = n]
           es == Append(element.choices, e)
<1>1. /\ inside = "entry" /\ inside' = "choice" /\ loader' = loader /\ written' = written
      /\ element' = [element EXCEPT !.choices = es]
      /\ handler' = [handler EXCEPT !.choice = h, !.inChoice = TRUE]
  BY DEF StartChoice
<1>2. /\ FieldsAgree(handler, element) /\ ChoicesAgree(handler.choices, element.choices)
      /\ loader.group = Joined(loader.base, element.group)
  BY <1>1 DEF LoaderInv, HandlerReads
<1>3. e \in XtChoice /\ h \in XtChoice
  BY XtAssumption, EmptyText DEF XtChoice, NoChoice
<1>4. h = ReadOf(e)
  BY TrimmedEmpty DEF ReadOf, NoChoice
<1>5. handler.choices \in Seq(XtChoice) /\ element.choices \in Seq(XtChoice)
  BY DEF XtTypeOK, XtHandler, XtEntry
<1> HIDE DEF e, h
<1>6. ChoicesAgree(Append(handler.choices, h), es)
  BY <1>2, <1>3, <1>4, <1>5, AgreeAppend
<1>7. es # <<>>
  BY <1>3, <1>5
<1> HIDE DEF es
<1>8. /\ element'.name = element.name /\ element'.key = element.key
      /\ element'.type = element.type /\ element'.default = element.default
      /\ element'.bounds = element.bounds /\ element'.choices = es
      /\ element'.group = element.group /\ element'.label = element.label
  BY <1>1 DEF XtTypeOK, XtEntry
<1>9. /\ handler'.name = handler.name /\ handler'.key = handler.key
      /\ handler'.type = handler.type /\ handler'.default = handler.default
      /\ handler'.bounds = handler.bounds /\ handler'.choices = handler.choices
      /\ handler'.label = handler.label /\ handler'.choice = h /\ handler'.inChoice
  BY <1>1 DEF XtTypeOK, XtHandler
<1>10. FieldsAgree(handler', element')
  BY <1>2, <1>8, <1>9 DEF FieldsAgree
<1>11. HandlerReads'
  BY <1>1, <1>2, <1>6, <1>7, <1>8, <1>9, <1>10 DEF HandlerReads
<1>12. ItemsShown'
  BY <1>1, ItemsStay DEF LoaderInv
<1>13. QED
  BY <1>11, <1>12 DEF LoaderInv

LEMMA ChoiceLabelReads ==
    ASSUME XtTypeOK, LoaderInv, NEW t \in Labels, ChoiceLabel(t)
    PROVE  LoaderInv'
<1> DEFINE h == [handler.choice EXCEPT !.label = Trimmed(t)]
           es == [element.choices EXCEPT ![Len(element.choices)].label = t]
<1>1. /\ inside = "choice" /\ inside' = "choice" /\ loader' = loader /\ written' = written
      /\ element' = [element EXCEPT !.choices = es]
  BY DEF ChoiceLabel
<1>2. /\ FieldsAgree(handler, element)
      /\ handler.inChoice /\ element.choices # <<>>
      /\ ChoicesAgree(Append(handler.choices, handler.choice), element.choices)
      /\ loader.group = Joined(loader.base, element.group)
  BY <1>1 DEF LoaderInv, HandlerReads
<1>3. handler' = [handler EXCEPT !.choice = h]
  BY <1>2 DEF ChoiceLabel
<1>4. /\ handler.choices \in Seq(XtChoice) /\ element.choices \in Seq(XtChoice)
      /\ handler.choice \in XtChoice
  BY DEF XtTypeOK, XtHandler, XtEntry
<1>5. ChoicesAgree(Append(handler.choices, h), es)
  BY <1>2, <1>4, AgreeLabel
<1>6. es # <<>>
  <2>1. DOMAIN es = DOMAIN element.choices
    OBVIOUS
  <2>2. DOMAIN element.choices # {}
    <3> DEFINE s == element.choices
    <3>1. s \in Seq(XtChoice) /\ s # <<>>
      BY <1>2, <1>4
    <3> HIDE DEF s
    <3>2. DOMAIN s = 1 .. Len(s) /\ Len(s) \in Nat /\ Len(s) # 0
      BY <3>1
    <3>3. 1 \in DOMAIN s
      BY <3>2
    <3>4. QED
      BY <3>3 DEF s
  <2> HIDE DEF es
  <2>3. QED
    BY <2>1, <2>2
<1> HIDE DEF h, es
<1>8. /\ element'.name = element.name /\ element'.key = element.key
      /\ element'.type = element.type /\ element'.default = element.default
      /\ element'.bounds = element.bounds /\ element'.choices = es
      /\ element'.group = element.group /\ element'.label = element.label
  BY <1>1 DEF XtTypeOK, XtEntry
<1>9. /\ handler'.name = handler.name /\ handler'.key = handler.key
      /\ handler'.type = handler.type /\ handler'.default = handler.default
      /\ handler'.bounds = handler.bounds /\ handler'.choices = handler.choices
      /\ handler'.label = handler.label /\ handler'.choice = h
      /\ handler'.inChoice = handler.inChoice
  BY <1>3 DEF XtTypeOK, XtHandler
<1>10. FieldsAgree(handler', element')
  BY <1>2, <1>8, <1>9 DEF FieldsAgree
<1>11. HandlerReads'
  BY <1>1, <1>2, <1>5, <1>6, <1>8, <1>9, <1>10 DEF HandlerReads
<1>12. ItemsShown'
  BY <1>1, ItemsStay DEF LoaderInv
<1>13. QED
  BY <1>11, <1>12 DEF LoaderInv

LEMMA EndChoiceReads ==
    ASSUME XtTypeOK, LoaderInv, EndChoice
    PROVE  LoaderInv'
<1> DEFINE hs == Append(handler.choices, handler.choice)
<1>1. /\ inside = "choice" /\ inside' = "entry" /\ loader' = loader /\ written' = written
      /\ element' = element
      /\ handler' = [handler EXCEPT !.choices = hs, !.inChoice = FALSE]
  BY DEF EndChoice
<1>2. /\ FieldsAgree(handler, element) /\ ChoicesAgree(hs, element.choices)
      /\ loader.group = Joined(loader.base, element.group)
  BY <1>1 DEF LoaderInv, HandlerReads
<1> HIDE DEF hs
<1>9. /\ handler'.name = handler.name /\ handler'.key = handler.key
      /\ handler'.type = handler.type /\ handler'.default = handler.default
      /\ handler'.bounds = handler.bounds /\ handler'.choices = hs
      /\ handler'.label = handler.label
  BY <1>1 DEF XtTypeOK, XtHandler
<1>10. FieldsAgree(handler', element')
  BY <1>1, <1>2, <1>9 DEF FieldsAgree
<1>11. HandlerReads'
  BY <1>1, <1>2, <1>9, <1>10 DEF HandlerReads
<1>12. ItemsShown'
  BY <1>1, ItemsStay DEF LoaderInv
<1>13. QED
  BY <1>11, <1>12 DEF LoaderInv

\* An item for each entry, if all are meant.
LEMMA EndEntryShows ==
    ASSUME XtTypeOK, LoaderInv, EndEntry
    PROVE  ItemsShown'
<1> SUFFICES ASSUME \A i \in DOMAIN written' : Meant(written'[i])
             PROVE  /\ Len(loader'.items) = Len(written')
                    /\ \A i \in 1 .. Len(written') :
                           loader'.items[i] = ShownIn(loader'.base, written'[i])
  <2>1. (\A i \in DOMAIN written' : Meant(written'[i]))
            = (\A i \in DOMAIN written : Meant(written[i]))'
    OBVIOUS
  <2>2. QED
    BY <2>1 DEF ItemsShown
<1> DEFINE n == Len(written)
           item == LoaderItem(handler, loader.group)
           items == Append(loader.items, item)
           b == loader.base
<1>1. /\ inside = "entry" /\ written' = Append(written, element)
      /\ loader' = AddItem(loader, handler)
  BY DEF EndEntry
<1>2. /\ n \in Nat /\ DOMAIN written = 1 .. n /\ DOMAIN written' = 1 .. n + 1
      /\ Len(written') = n + 1 /\ written'[n + 1] = element
      /\ \A i \in 1 .. n : written'[i] = written[i]
  <2>1. written \in Seq(XtEntry) /\ element \in XtEntry
    BY DEF XtTypeOK
  <2>2. QED
    BY <1>1, <2>1
<1>3. Meant(element) /\ \A i \in 1 .. n : Meant(written[i])
  <2>1. n + 1 \in DOMAIN written' /\ \A i \in 1 .. n : i \in DOMAIN written'
    BY <1>2
  <2>2. QED
    BY <1>2, <2>1
<1>4. Len(loader.items) = n /\ \A i \in 1 .. n : loader.items[i] = ShownIn(b, written[i])
  BY <1>2, <1>3 DEF LoaderInv, ItemsShown
<1>5. /\ FieldsAgree(handler, element) /\ ChoicesAgree(handler.choices, element.choices)
      /\ loader.group = Joined(b, element.group)
  BY <1>1 DEF LoaderInv, HandlerReads
<1>6. item = ShownIn(b, element) /\ item.name # Empty /\ item.type \in LoaderTypes
  <2>1. element \in XtEntry /\ handler \in XtHandler
    BY DEF XtTypeOK
  <2>2. QED
    BY <1>3, <1>5, <2>1, LoaderShows
<1>7. /\ Len(items) = n + 1 /\ items[n + 1] = item
      /\ \A i \in 1 .. n : items[i] = loader.items[i]
  <2>1. IsSeq(loader.items)
    BY DEF XtTypeOK
  <2> HIDE DEF item
  <2>2. QED
    BY <1>4, <2>1, AppendAny
<1>8. loader'.items = items /\ loader'.base = b
  <2> DEFINE names == Inserted(loader.keysToNames, Joint(item.group, item.key), item.name)
  <2>1. AddItem(loader, handler) = [loader EXCEPT !.items = items, !.keysToNames = names]
    BY <1>6 DEF AddItem
  <2> HIDE DEF names, items, item
  <2>2. QED
    BY <1>1, <2>1 DEF XtTypeOK, LoaderFields
<1> HIDE DEF n, item, items, b
<1>9. \A i \in 1 .. n + 1 : items[i] = ShownIn(b, written'[i])
  <2> SUFFICES ASSUME NEW i \in 1 .. n + 1 PROVE items[i] = ShownIn(b, written'[i])
    OBVIOUS
  <2>1. i = n + 1 \/ i \in 1 .. n
    BY <1>2
  <2>2. QED
    BY <1>2, <1>4, <1>6, <1>7, <2>1
<1>10. QED
  BY <1>2, <1>7, <1>8, <1>9

LEMMA EndEntryReads ==
    ASSUME XtTypeOK, LoaderInv, EndEntry
    PROVE  LoaderInv'
<1>1. /\ inside = "entry" /\ inside' = "entries" /\ loader' = AddItem(loader, handler)
      /\ element' = NewEntry(element.group, element.parent) /\ handler' = ResetState(handler)
  BY DEF EndEntry
<1>2. loader.group = Joined(loader.base, element.group)
  BY <1>1 DEF LoaderInv, HandlerReads
<1>3. loader'.base = loader.base /\ loader'.group = loader.group
  <2>1. DOMAIN loader = LoaderFields /\ IsSeq(loader.items)
    BY DEF XtTypeOK
  <2>2. QED
    BY <1>1, <2>1, AddItemType
<1>4. element'.group = element.group /\ element'.parent = element.parent
  BY <1>1 DEF NewEntry
<1>5. IsReset(handler')
  BY <1>1, FreshIsReset
<1>6. HandlerReads'
  BY <1>1, <1>2, <1>3, <1>4, <1>5 DEF HandlerReads
<1>7. QED
  BY <1>6, EndEntryShows DEF LoaderInv

LEMMA OtherReads ==
    ASSUME XtTypeOK, LoaderInv, (\E t \in Labels : Signal(t)) \/ EndGroup \/ End
    PROVE  LoaderInv'
<1>1. /\ written' = written /\ loader' = loader /\ element' = element
      /\ inside' \in {"kcfg", "end"}
  BY DEF EndGroup, End, Signal, document
<1>2. IsReset(handler')
  <2>1. IsReset(handler)
    BY DEF EndGroup, End, Signal, LoaderInv, HandlerReads
  <2>2. CASE \E t \in Labels : Signal(t)
    <3>1. PICK t \in Labels : Signal(t)
      BY <2>2
    <3> DEFINE u == Trimmed(t)
    <3>2. handler' = [handler EXCEPT !.label = u]
      BY <3>1 DEF Signal
    <3> HIDE DEF u
    <3>3. QED
      BY <2>1, <3>2 DEF IsReset, XtTypeOK, XtHandler
  <2>3. CASE EndGroup \/ End
    BY <2>1, <2>3 DEF EndGroup, End
  <2>4. QED
    BY <2>2, <2>3
<1>3. HandlerReads'
  BY <1>1, <1>2 DEF HandlerReads
<1>4. ItemsShown'
  BY <1>1, ItemsStay DEF LoaderInv
<1>5. QED
  BY <1>3, <1>4 DEF LoaderInv

LEMMA LoaderNextReads == XtTypeOK /\ LoaderInv /\ [XtNext]_xtVars => LoaderInv'
<1> SUFFICES ASSUME XtTypeOK, LoaderInv, [XtNext]_xtVars PROVE LoaderInv'
  OBVIOUS
<1>1. ASSUME NEW t \in Labels, Signal(t) \/ Label(t) \/ ChoiceLabel(t)
      PROVE  LoaderInv'
  BY <1>1, OtherReads, LabelReads, ChoiceLabelReads
<1>2. ASSUME NEW g \in Groups, StartGroup(g)
      PROVE  LoaderInv'
  BY <1>2, StartGroupReads
<1>3. ASSUME NEW a \in Attributes, StartEntry(a)
      PROVE  LoaderInv'
  BY <1>3, StartEntryReads
<1>4. ASSUME NEW d \in Defaults, Default(d)
      PROVE  LoaderInv'
  BY <1>4, DefaultReads
<1>5. ASSUME NEW b \in {"min", "max"}, NEW d \in Bounds, Bound(b, d)
      PROVE  LoaderInv'
  BY <1>5, BoundReads
<1>6. ASSUME NEW m \in ParamMax, Parameter(m)
      PROVE  LoaderInv'
  BY <1>6, ParameterReads
<1>7. ASSUME NEW n \in ChoiceNames, NEW v \in ChoiceValues, StartChoice(n, v)
      PROVE  LoaderInv'
  BY <1>7, StartChoiceReads
<1>8. ASSUME EndChoice \/ EndEntry \/ EndGroup \/ End
      PROVE  LoaderInv'
  BY <1>8, EndChoiceReads, EndEntryReads, OtherReads
<1>9. CASE UNCHANGED xtVars
  BY <1>9 DEF xtVars, document, LoaderInv, HandlerReads, ItemsShown
<1>10. QED
  BY <1>1, <1>2, <1>3, <1>4, <1>5, <1>6, <1>7, <1>8, <1>9 DEF XtNext

-----------------------------------------------------------------------------
(* The compiled class of plain entries *)

ItemOf(e) ==
    LET p == ParseEntry(e)
    IN  CompiledItem(p, p.key, p.name, <<e.group>>)

\* The items of the first entries are made, each in its group.
MadeItems(es, g, k) ==
    /\ IsGenerator(g) /\ g.skeletonGroup = <<g.current>>
    /\ Len(g.items) = k /\ \A i \in 1 .. k : g.items[i] = ItemOf(es[i])

LEMMA GroupChangePlain ==
    ASSUME NEW g, NEW p, IsGenerator(g), g.skeletonGroup = <<g.current>>, p.parent = Empty
    PROVE  LET h == HandleCurrentGroupChange(g, p)
           IN  h.skeletonGroup = <<p.group>> /\ h.current = p.group
<1> DEFINE h == HandleCurrentGroupChange(g, p)
           one == <<p.group>>
<1>1. h = IF p.group = g.current THEN g
          ELSE [g EXCEPT !.current = p.group, !.skeletonGroup = one]
  BY DEF HandleCurrentGroupChange
<1>2. CASE p.group = g.current
  BY <1>1, <1>2
<1>3. CASE p.group # g.current
  <2> HIDE DEF one, h
  <2>1. h.skeletonGroup = one /\ h.current = p.group
    BY <1>1, <1>3 DEF IsGenerator, GeneratorFields
  <2>2. QED
    BY <2>1 DEF one, h
<1>4. QED
  BY <1>2, <1>3

LEMMA PlainEntryMade ==
    ASSUME NEW es \in Seq(XtEntry), NEW k \in 1 .. Len(es), Plain(es[k]), NEW g,
           MadeItems(es, g, k - 1), ConstructEntry(g, ParseEntry(es[k])).ok
    PROVE  MadeItems(es, ConstructEntry(g, ParseEntry(es[k])), k)
<1> DEFINE e == es[k]
           p == ParseEntry(es[k])
           h == HandleCurrentGroupChange(g, p)
           r == ConstructEntry(g, p)
           item == ItemOf(e)
           list == EntryItems(h, p)
<1>1. e \in XtEntry /\ k \in Nat /\ k - 1 \in Nat
  OBVIOUS
<1>2. p.parent = Empty /\ p.paramMax = -1 /\ p.group = e.group
  BY <1>1, ParseEntryGives DEF Plain
<1>3. IsGenerator(g) /\ g.skeletonGroup = <<g.current>> /\ Len(g.items) = k - 1
      /\ \A i \in 1 .. k - 1 : g.items[i] = ItemOf(es[i])
  BY DEF MadeItems
<1>4. item = CompiledItem(p, p.key, p.name, <<p.group>>)
  BY <1>2 DEF ItemOf
<1> HIDE DEF p, item
<1>5. h.skeletonGroup = <<p.group>> /\ h.current = p.group
  BY <1>2, <1>3, GroupChangePlain
<1>6. /\ IsGenerator(r) /\ r.items = g.items \o list
      /\ r.current = h.current /\ r.skeletonGroup = h.skeletonGroup
  BY <1>2, <1>3, ConstructEntryGives DEF p
<1>7. list = <<item>>
  <2> HIDE DEF h
  <2>1. list = <<CompiledItem(p, p.key, p.name, h.skeletonGroup)>>
    BY <1>2 DEF EntryItems
  <2>2. QED
    BY <1>4, <1>5, <2>1
<1> HIDE DEF list, h, r
<1>8. /\ Len(r.items) = k /\ r.items[k] = item
      /\ \A i \in 1 .. k - 1 : r.items[i] = g.items[i]
  <2>1. IsSeq(g.items)
    BY <1>3 DEF IsGenerator
  <2>2. IsSeq(list) /\ Len(list) = 1 /\ list[1] = item
    <3>1. <<item>> \in Seq({item}) /\ Len(<<item>>) = 1 /\ <<item>>[1] = item
      OBVIOUS
    <3>2. QED
      BY <1>7, <3>1, AnySeq
  <2> DEFINE s == g.items
             u == s \o list
  <2>7. IsSeq(s)
    BY <2>1
  <2> HIDE DEF s
  <2>8. IsSeq(s) /\ IsSeq(list)
    BY <2>2, <2>7
  <2>3. /\ IsSeq(u) /\ Len(u) = Len(s) + Len(list)
        /\ \A i \in 1 .. Len(s) : u[i] = s[i]
        /\ \A i \in 1 .. Len(list) : u[Len(s) + i] = list[i]
    BY <2>8, ConcatAny
  <2> HIDE DEF u
  <2>4. Len(s) = k - 1 /\ r.items = u
    BY <1>3, <1>6 DEF s, u
  <2>5. Len(u) = k /\ u[k] = item /\ \A i \in 1 .. k - 1 : u[i] = s[i]
    <3>1. 1 \in 1 .. Len(list) /\ (k - 1) + 1 = k
      BY <1>1, <2>2
    <3>2. QED
      BY <1>1, <2>2, <2>3, <2>4, <3>1
  <2>6. QED
    BY <2>4, <2>5 DEF s
<1>9. \A i \in 1 .. k : r.items[i] = ItemOf(es[i])
  <2> SUFFICES ASSUME NEW i \in 1 .. k PROVE r.items[i] = ItemOf(es[i])
    OBVIOUS
  <2>1. i = k \/ i \in 1 .. k - 1
    BY <1>1
  <2>2. QED
    BY <1>3, <1>8, <2>1 DEF item, e
<1>10. r.skeletonGroup = <<r.current>>
  BY <1>5, <1>6
<1>11. MadeItems(es, r, k)
  BY <1>6, <1>8, <1>9, <1>10 DEF MadeItems
<1>12. QED
  BY <1>11 DEF r, p

\* The class that is made of plain entries has one item for each, in its group.
LEMMA ConstructShows ==
    ASSUME NEW es \in Seq(XtEntry), Construct(es).made, \A i \in 1 .. Len(es) : Plain(es[i])
    PROVE  /\ \A i \in 1 .. Len(es) : Meant(es[i])
           /\ IsSeq(Construct(es).items) /\ Len(Construct(es).items) = Len(es)
           /\ \A i \in 1 .. Len(es) : Construct(es).items[i] = ItemOf(es[i])
<1> DEFINE n == Len(es)
           ps == Parsed(es)
           C(i) == Constructs(ps)[i]
           T == {k \in 0 .. n : MadeItems(es, C(k), k)}
<1>1. /\ n \in Nat /\ Len(ps) = n /\ DOMAIN ps = 1 .. n
      /\ \A i \in 1 .. n : es[i] \in XtEntry /\ ps[i] = ParseEntry(es[i])
      /\ HasParams(ps)
  BY ParsedGives
<1>2. Construct(es).items = C(n).items /\ C(n).ok /\ ~Rejected(ps)
  BY ConstructMade
<1> HIDE DEF ps
<1>3. \A i \in 0 .. n : IsGenerator(C(i)) /\ C(i).ok
  BY <1>1, <1>2, ConstructsGives
<1>4. \A i \in 1 .. n : CompilesAsWritten(ps[i])
  BY <1>1, <1>2, ConstructsGives
<1>5. \A i \in 1 .. n : C(i) = ConstructEntry(C(i - 1), ps[i])
  BY <1>1, ConstructsStep
<1>6. C(0) = NewGenerator
  BY <1>1, ConstructsStep
<1> HIDE DEF C
<1>7. ASSUME NEW i \in 1 .. n
      PROVE  Meant(es[i])
  <2>1. ps[i].group = es[i].group
    BY <1>1, ParseEntryGives
  <2>2. ps[i].group # Empty /\ Without(ps[i].name) # Empty
    BY <1>1, <1>2 DEF Rejected
  <2>3. Without(Empty) = Empty
    <3>1. Len(Empty) = 0
      BY DEF Empty
    <3>2. Removing(Empty, Place)[0] = Empty
      BY <3>1, RemovingStep
    <3>3. QED
      BY <3>1, <3>2 DEF Without, Removed
  <2>4. ps[i].name # Empty
    BY <2>2, <2>3
  <2>5. QED
    BY <1>1, <1>4, <2>1, <2>2, <2>4 DEF Meant
<1>8. 0 \in T
  <2>1. IsGenerator(C(0))
    BY <1>1, <1>3
  <2>2. /\ C(0).skeletonGroup = <<Empty>> /\ C(0).current = Empty /\ C(0).items = <<>>
    BY <1>6 DEF NewGenerator
  <2>3. Len(C(0).items) = 0
    BY <2>2
  <2>4. MadeItems(es, C(0), 0)
    BY <2>1, <2>2, <2>3 DEF MadeItems
  <2>5. QED
    BY <1>1, <2>4
<1>9. ASSUME NEW k \in 1 .. n, k - 1 \in T
      PROVE  k \in T
  <2>1. C(k) = ConstructEntry(C(k - 1), ParseEntry(es[k])) /\ C(k).ok
    BY <1>1, <1>3, <1>5
  <2>2. MadeItems(es, C(k - 1), k - 1) /\ Plain(es[k])
    BY <1>9
  <2>3. MadeItems(es, C(k), k)
    BY <1>1, <2>1, <2>2, PlainEntryMade
  <2>4. QED
    BY <1>1, <2>3
<1>10. n \in T
  <2> HIDE DEF T, n
  <2>1. \A k \in 0 .. n : k \in T
    BY <1>1, <1>8, <1>9, CountUp
  <2>2. QED
    BY <1>1, <2>1
<1>11. MadeItems(es, C(n), n)
  BY <1>10
<1>12. QED
  BY <1>2, <1>7, <1>11 DEF MadeItems, IsGenerator

\* For a document of plain entries KConfigLoader has the same items as the compiled class, in the
\* same order and in the same groups below its own: nothing that is said of one entry gets into
\* another.
THEOREM LoaderAgrees == XtSpec => []SameItems
<1>1. XtTypeOK /\ IsCompiled /\ LoaderInv => SameItems
  <2> SUFFICES ASSUME XtTypeOK, LoaderInv, inside = "end", compiled = Construct(written),
                      compiled.made, \A i \in DOMAIN written : Plain(written[i])
               PROVE  loader.items =
                          [i \in DOMAIN compiled.items |->
                              InBase(WithoutValues(compiled.items[i]))]
    BY DEF SameItems, IsCompiled
  <2> DEFINE n == Len(written)
             items == compiled.items
  <2>1. written \in Seq(XtEntry) /\ n \in Nat /\ DOMAIN written = 1 .. n
    BY DEF XtTypeOK
  <2>2. /\ \A i \in 1 .. n : Meant(written[i])
        /\ IsSeq(items) /\ Len(items) = n
        /\ \A i \in 1 .. n : items[i] = ItemOf(written[i])
    BY <2>1, ConstructShows
  <2>3. /\ Len(loader.items) = n
        /\ \A i \in 1 .. n : loader.items[i] = ShownIn(loader.base, written[i])
    BY <2>1, <2>2 DEF LoaderInv, ItemsShown
  <2>4. DOMAIN items = 1 .. n /\ DOMAIN loader.items = 1 .. n
    <3>1. IsSeq(loader.items)
      BY DEF XtTypeOK
    <3> DEFINE s == loader.items
    <3> HIDE DEF n, items, s
    <3>2. DOMAIN items = 1 .. Len(items) /\ DOMAIN s = 1 .. Len(s)
      BY <2>2, <3>1 DEF IsSeq, s
    <3>3. QED
      BY <2>2, <2>3, <3>2 DEF s
  <2>5. ASSUME NEW i \in 1 .. n
        PROVE  loader.items[i] = InBase(WithoutValues(items[i]))
    <3>1. loader.items[i] = ShownIn(loader.base, written[i]) /\ items[i] = ItemOf(written[i])
      BY <2>2, <2>3
    <3> HIDE DEF items, n
    <3>2. ShownIn(loader.base, written[i]) = InBase(WithoutValues(ItemOf(written[i])))
      BY DEF ShownIn, InBase, ItemOf
    <3>3. QED
      BY <3>1, <3>2
  <2>6. loader.items = [i \in DOMAIN loader.items |-> loader.items[i]]
    BY DEF XtTypeOK, IsSeq
  <2> HIDE DEF n, items
  <2>7. loader.items = [i \in 1 .. n |-> loader.items[i]]
    BY <2>4, <2>6
  <2>8. loader.items = [i \in 1 .. n |-> InBase(WithoutValues(items[i]))]
    BY <2>5, <2>7
  <2>9. QED
    BY <2>4, <2>8 DEF items
<1>2. QED
  BY <1>1, CompiledInit, CompiledNext, LoaderInitReads, LoaderNextReads, XtTypeCorrect, PTL
     DEF XtSpec

-----------------------------------------------------------------------------
(* KConfUpdate: what the files fulfil *)

IdLines(content) == LinesOf(content, "Id")
VersionLines(content) == LinesOf(content, "Version")
ScriptLines(content) == LinesOf(content, "Script")

\* Different files have different ids: else the id of the last group of a file counts as done for
\* the file after it (MCUpdateSameId.cfg).
OwnIds ==
    \A f, g \in Names : \A C \in Contents[f], D \in Contents[g] :
        \A k \in IdLines(C), m \in IdLines(D) : C[k].id = D[m].id => f = g

\* A file has an id once: the second group of the same id is not looked at.
OnceEach ==
    \A f \in Names : \A C \in Contents[f] :
        \A k, m \in IdLines(C) : C[k].id = C[m].id => k = m

\* A group does not change under its id: nobody would run it again.
Stable ==
    \A f \in Names : \A C, D \in Contents[f] : \A id \in IdsOf(C) \cap IdsOf(D) :
        ScriptsOf(C, id) = ScriptsOf(D, id)

-----------------------------------------------------------------------------
(* Types *)

Done == [Names -> [mtime : Nat, done : SUBSET Ids]]

KonfUpdate ==
    [mode : {"all"} \cup Modes, config : Done, todo : SUBSET Names,
     m_currentFilename : Names \cup {None}, lines : Seq(Line), flushed : BOOLEAN,
     foundVersion : BOOLEAN, m_skip : BOOLEAN, m_id : Ids \cup {None}, opened : Nat,
     group : Ids \cup {None}]

TypeOK ==
    /\ installed \in [Names -> [lines : Seq(Line), mtime : Nat]]
    /\ updaterc \in Done
    /\ tool \in [Procs -> {Off} \cup KonfUpdate]
    /\ installs \in Nat /\ kills \in Nat

-----------------------------------------------------------------------------
(* What is done, given the scripts that ended (fin) and the groups that had trouble (tro) *)

Ran(fin, f, C, id) == \A s \in ScriptsOf(C, id) : <<f, id, s>> \in fin

\* The ids D are counted as done for f, and were run.
DoneOk(fin, f, D) ==
    \A id \in D :
        (\E C \in Contents[f] : id \in IdsOf(C))
            => \E C \in Contents[f] : id \in IdsOf(C) /\ Ran(fin, f, C, id)

\* Line k is the id that the lines up to n, those after k, belong to.
LastId(C, k, n) ==
    k \in IdLines(C) /\ k <= n /\ \A i \in IdLines(C) : ~(k < i /\ i <= n)

\* The tool has read n lines of C and goes on with the next: they are of a version it knows ...
ReadTo(t, C, n) ==
    /\ n \in 0 .. Len(C)
    /\ t.lines = SubSeq(C, n + 1, Len(C))
    /\ t.foundVersion => \E m \in VersionLines(C) : m <= n
    /\ ~t.foundVersion => \A m \in VersionLines(C) : n < m
    /\ \A m \in VersionLines(C) : m <= n => C[m].good
    /\ \A k \in IdLines(C) : k <= n => \E m \in VersionLines(C) : m < k

\* ... it knows the group they belong to, or skips it for a reason ...
KnowsGroup(t, C, n, tro) ==
    /\ IF t.group = None THEN \A k \in IdLines(C) : n < k
       ELSE \E k \in IdLines(C) : LastId(C, k, n) /\ C[k].id = t.group
    /\ t.group # None =>
          IF t.m_skip THEN \/ t.group \in t.config[t.m_currentFilename].done
                           \/ <<t.m_currentFilename, t.group>> \in tro
          ELSE t.m_id = t.group

\* ... and the scripts among them were run, or are left out for a reason.
WasRun(t, C, k, j, fin) == <<t.m_currentFilename, C[k].id, C[j].script>> \in fin

Handled(t, C, n, fin, tro) ==
    \A k \in IdLines(C), j \in ScriptLines(C) :
        j <= n /\ LastId(C, k, j) =>
            \/ WasRun(t, C, k, j, fin)
            \/ <<t.m_currentFilename, C[k].id>> \in tro
            \/ C[k].id \in t.config[t.m_currentFilename].done

GroupRuns(t, C, n, fin) ==
    ~t.m_skip => \A k \in IdLines(C), j \in ScriptLines(C) :
        j <= n /\ LastId(C, k, j) /\ LastId(C, k, n) => WasRun(t, C, k, j, fin)

\* The file was given up at an id with no version before it.
GivenUp(t, C) == t.lines = <<>> /\ t.group = None /\ IdsOf(C) = {}

Reads(t, C, fin, tro) ==
    \/ GivenUp(t, C)
    \/ \E n \in 0 .. Len(C) :
          /\ ReadTo(t, C, n) /\ KnowsGroup(t, C, n, tro)
          /\ Handled(t, C, n, fin, tro) /\ GroupRuns(t, C, n, fin)

\* The id that is kept from group to group is one of a file that is no longer to do, and of the
\* one before while no group of the open one was read.
IdIsOld(t) ==
    t.m_id # None =>
        \E g \in Names \ t.todo :
            /\ Reading(t) /\ t.group = None => g # t.m_currentFilename
            /\ \E C \in Contents[g] : \E k \in IdLines(C) : C[k].id = t.m_id

\* What holds of a process, given also the files (ins) and how often they were changed (now).
ProcessOk(t, fin, tro, ins, now) ==
    /\ \A f \in Names : DoneOk(fin, f, t.config[f].done)
    /\ IdIsOld(t)
    /\ Reading(t) =>
          /\ t.m_currentFilename \notin t.todo /\ t.opened <= now
          /\ \E C \in Contents[t.m_currentFilename] :
                /\ ins[t.m_currentFilename].mtime = t.opened
                       => ins[t.m_currentFilename].lines = C
                /\ Reads(t, C, fin, tro)

ProcessesOk ==
    \A p \in Procs : Running(p) => ProcessOk(tool[p], finished, troubled, installed, installs)

\* What is stored of the files.
FilesOk ==
    \A f \in Names :
        /\ DoneOk(finished, f, updaterc[f].done)
        /\ installed[f].mtime <= installs /\ updaterc[f].mtime <= installs
        /\ installed[f].mtime # 0 => installed[f].lines \in Contents[f]

UpdateInv == TypeOK /\ FilesOk /\ ProcessesOk

-----------------------------------------------------------------------------
(* Types are kept *)

LEMMA ContentType ==
    ASSUME NEW f \in Names, NEW C \in Contents[f]
    PROVE  C \in Seq(Line)
BY UpdateAssumption

\* What the lines of a kind are.
LEMMA LineTypes ==
    ASSUME NEW C \in Seq(Line)
    PROVE  /\ Len(C) \in Nat /\ DOMAIN C = 1 .. Len(C)
           /\ IdLines(C) \subseteq 1 .. Len(C) /\ VersionLines(C) \subseteq 1 .. Len(C)
           /\ ScriptLines(C) \subseteq 1 .. Len(C)
           /\ \A n \in 1 .. Len(C) :
                 /\ C[n] \in Line
                 /\ n \in IdLines(C) <=> C[n].kind = "Id"
                 /\ n \in VersionLines(C) <=> C[n].kind = "Version"
                 /\ n \in ScriptLines(C) <=> C[n].kind = "Script"
           /\ \A k \in IdLines(C) : C[k].id \in Ids
BY DEF IdLines, VersionLines, ScriptLines, LinesOf, Line

\* A running process is one of the records.
LEMMA RunningType ==
    ASSUME TypeOK, NEW p \in Procs, Running(p)
    PROVE  tool[p] \in KonfUpdate
BY DEF TypeOK, Running, Off

LEMMA RunningMode ==
    ASSUME NEW t \in KonfUpdate
    PROVE  t.mode # "off"
BY UpdateAssumption DEF KonfUpdate

LEMMA GoesType ==
    ASSUME NEW t \in KonfUpdate
    PROVE  Goes(t) \in {Off} \cup KonfUpdate
BY DEF Goes

LEMMA CloseType ==
    ASSUME NEW t \in KonfUpdate
    PROVE  CloseFile(t) \in {Off} \cup KonfUpdate
<1>1. <<>> \in Seq(Line)
  OBVIOUS
<1>2. [t EXCEPT !.m_currentFilename = None, !.lines = <<>>, !.foundVersion = FALSE,
                !.opened = 0, !.group = None] \in KonfUpdate
  BY <1>1 DEF KonfUpdate
<1>3. QED
  BY <1>2, GoesType DEF CloseFile

\* What the tool remembers of a group that it was done changes what it has of kconf_updaterc for
\* the open file, and nothing else.
LEMMA RememberedIs ==
    ASSUME NEW t \in KonfUpdate, t.m_currentFilename \in Names
    PROVE  /\ Remembered(t) \in KonfUpdate
           /\ \E D \in Done :
                 /\ Remembered(t) = [t EXCEPT !.config = D]
                 /\ \A f \in Names \ {t.m_currentFilename} : D[f] = t.config[f]
                 /\ LET f == t.m_currentFilename
                    IN  D[f].done = IF HasDone(t) THEN t.config[f].done \cup {t.m_id}
                                    ELSE t.config[f].done
<1> DEFINE f == t.m_currentFilename
           D == IF HasDone(t) THEN [t.config EXCEPT ![f].done = @ \cup {t.m_id}] ELSE t.config
<1>1. t.config \in Done /\ f \in Names
  BY DEF KonfUpdate
<1>2. HasDone(t) => t.m_id \in Ids
  BY DEF HasDone, KonfUpdate
<1>3. D \in Done
  BY <1>1, <1>2 DEF Done
<1>4. Remembered(t) = [t EXCEPT !.config = D]
  BY <1>1 DEF Remembered, WithDone, KonfUpdate
<1>5. /\ \A g \in Names \ {f} : D[g] = t.config[g]
      /\ D[f].done = IF HasDone(t) THEN t.config[f].done \cup {t.m_id} ELSE t.config[f].done
  BY <1>1 DEF Done
<1>6. [t EXCEPT !.config = D] \in KonfUpdate
  BY <1>3 DEF KonfUpdate
<1> HIDE DEF D
<1>7. QED
  BY <1>3, <1>4, <1>5, <1>6

LEMMA BeginGroupType ==
    ASSUME NEW t \in KonfUpdate, NEW id \in Ids
    PROVE  [BeginGroup(t, id) EXCEPT !.group = id] \in KonfUpdate
BY DEF BeginGroup, KonfUpdate

LEMMA NextLineType ==
    ASSUME NEW t \in KonfUpdate, t.lines # <<>>
    PROVE  NextLine(t) \in KonfUpdate /\ Head(t.lines) \in Line
<1>1. t.lines \in Seq(Line)
  BY DEF KonfUpdate
<1>2. Head(t.lines) \in Line /\ Tail(t.lines) \in Seq(Line)
  BY <1>1, HeadTailProperties
<1>3. QED
  BY <1>2 DEF NextLine, KonfUpdate

\* A process that reads has a file open.
LEMMA ReadingFile ==
    ASSUME NEW t \in KonfUpdate, Reading(t)
    PROVE  t.m_currentFilename \in Names
BY DEF KonfUpdate, Reading

-----------------------------------------------------------------------------
(* More scripts that ended, and more trouble, change nothing *)

LEMMA DoneStaysOk ==
    ASSUME NEW fin, NEW fin2, fin \subseteq fin2, NEW f, NEW D, DoneOk(fin, f, D)
    PROVE  DoneOk(fin2, f, D)
BY DEF DoneOk, Ran

LEMMA ReadsStays ==
    ASSUME NEW t, NEW C, NEW fin, NEW tro, NEW fin2, NEW tro2,
           fin \subseteq fin2, tro \subseteq tro2, Reads(t, C, fin, tro)
    PROVE  Reads(t, C, fin2, tro2)
<1>1. CASE GivenUp(t, C)
  BY <1>1 DEF Reads
<1>2. ASSUME NEW n \in 0 .. Len(C),
             ReadTo(t, C, n), KnowsGroup(t, C, n, tro),
             Handled(t, C, n, fin, tro), GroupRuns(t, C, n, fin)
      PROVE  Reads(t, C, fin2, tro2)
  <2>1. KnowsGroup(t, C, n, tro2)
    BY <1>2 DEF KnowsGroup
  <2>2. Handled(t, C, n, fin2, tro2)
    BY <1>2 DEF Handled, WasRun
  <2>3. GroupRuns(t, C, n, fin2)
    BY <1>2 DEF GroupRuns, WasRun
  <2>4. QED
    BY <1>2, <2>1, <2>2, <2>3 DEF Reads
<1>3. QED
  BY <1>1, <1>2 DEF Reads

LEMMA ProcessStaysOk ==
    ASSUME NEW t, NEW fin, NEW tro, NEW fin2, NEW tro2, NEW ins, NEW now,
           fin \subseteq fin2, tro \subseteq tro2, ProcessOk(t, fin, tro, ins, now)
    PROVE  ProcessOk(t, fin2, tro2, ins, now)
<1>1. \A f \in Names : DoneOk(fin2, f, t.config[f].done)
  BY DoneStaysOk DEF ProcessOk
<1>2. \A C : Reads(t, C, fin, tro) => Reads(t, C, fin2, tro2)
  BY ReadsStays
<1>3. QED
  BY <1>1, <1>2 DEF ProcessOk

\* A step of one process keeps the invariant when it leaves that process, and kconf_updaterc, well.
LEMMA StepKeeps ==
    ASSUME UpdateInv, NEW p \in Procs, NEW u \in {Off} \cup KonfUpdate, SetTool(p, u),
           UNCHANGED <<installed, installs>>, kills' \in Nat,
           finished \subseteq finished', troubled \subseteq troubled',
           updaterc' \in Done,
           \A f \in Names : DoneOk(finished', f, updaterc'[f].done)
                            /\ updaterc'[f].mtime <= installs,
           u = Off \/ ProcessOk(u, finished', troubled', installed, installs)
    PROVE  UpdateInv'
<1>1. tool' = [tool EXCEPT ![p] = u] /\ tool \in [Procs -> {Off} \cup KonfUpdate]
  BY DEF SetTool, UpdateInv, TypeOK
<1>2. TypeOK'
  BY <1>1 DEF UpdateInv, TypeOK
<1>3. FilesOk'
  BY DEF UpdateInv, FilesOk
<1>4. ASSUME NEW q \in Procs, tool'[q].mode # "off"
      PROVE  ProcessOk(tool'[q], finished', troubled', installed', installs')
  <2>1. CASE q = p
    BY <1>1, <1>4, <2>1 DEF Off
  <2>2. CASE q # p
    <3>1. tool'[q] = tool[q]
      BY <1>1, <2>2
    <3>2. ProcessOk(tool[q], finished, troubled, installed, installs)
      BY <1>4, <3>1 DEF UpdateInv, ProcessesOk, Running
    <3>3. ProcessOk(tool[q], finished', troubled', installed, installs)
      BY <3>2, ProcessStaysOk
    <3>4. QED
      BY <3>1, <3>3
  <2>3. QED
    BY <2>1, <2>2
<1>5. ProcessesOk'
  BY <1>4 DEF ProcessesOk, Running
<1>6. QED
  BY <1>2, <1>3, <1>5 DEF UpdateInv

-----------------------------------------------------------------------------
(* Opening and closing a file *)

\* A process that starts has read nothing but kconf_updaterc.
LEMMA StartOk ==
    ASSUME UpdateInv, NEW p \in Procs, NEW mode \in {"all"} \cup Modes, NEW todo \in SUBSET Names,
           Start(p, mode, todo)
    PROVE  UpdateInv'
<1> DEFINE u == [mode |-> mode, config |-> updaterc, todo |-> todo,
                 m_currentFilename |-> None, lines |-> <<>>, flushed |-> FALSE,
                 foundVersion |-> FALSE, m_skip |-> FALSE, m_id |-> None,
                 opened |-> 0, group |-> None]
<1>1. SetTool(p, u) /\ UNCHANGED <<installed, updaterc, history>>
  BY DEF Start
<1>2. <<>> \in Seq(Line)
  OBVIOUS
<1>3. u \in KonfUpdate
  BY <1>2 DEF KonfUpdate, UpdateInv, TypeOK
<1>4. u.config = updaterc /\ u.m_id = None /\ u.m_currentFilename = None
  OBVIOUS
<1> HIDE DEF u
<1>5. ProcessOk(u, finished, troubled, installed, installs)
  BY <1>4 DEF ProcessOk, IdIsOld, Reading, UpdateInv, FilesOk
<1>6. QED
  BY <1>1, <1>3, <1>5, StepKeeps DEF UpdateInv, TypeOK, FilesOk, history

\* A file that is closed leaves the id of its last group.
LEMMA CloseOk ==
    ASSUME NEW t \in KonfUpdate, NEW fin, NEW tro, NEW ins, NEW now,
           \A f \in Names : DoneOk(fin, f, t.config[f].done), IdIsOld(t)
    PROVE  CloseFile(t) = Off \/ ProcessOk(CloseFile(t), fin, tro, ins, now)
<1> DEFINE u == [t EXCEPT !.m_currentFilename = None, !.lines = <<>>, !.foundVersion = FALSE,
                          !.opened = 0, !.group = None]
<1>1. /\ u.config = t.config /\ u.m_id = t.m_id /\ u.todo = t.todo
      /\ u.m_currentFilename = None
  BY DEF KonfUpdate
<1>2. CloseFile(t) = Off \/ CloseFile(t) = u
  BY DEF CloseFile, Goes
<1> HIDE DEF u
<1>3. ProcessOk(u, fin, tro, ins, now)
  BY <1>1 DEF ProcessOk, IdIsOld, Reading
<1>4. QED
  BY <1>2, <1>3

\* A file that is opened has no line read.
LEMMA OpenReads ==
    ASSUME NEW t, NEW C \in Seq(Line), NEW fin, NEW tro,
           t.lines = C, t.foundVersion = FALSE, t.group = None
    PROVE  Reads(t, C, fin, tro)
<1>1. C = SubSeq(C, 0 + 1, Len(C))
  BY SubSeqFull
<1>2. 0 \in 0 .. Len(C)
  BY LineTypes
<1>3. ReadTo(t, C, 0)
  BY <1>1, <1>2, LineTypes DEF ReadTo
<1>4. KnowsGroup(t, C, 0, tro)
  BY LineTypes DEF KnowsGroup
<1>5. Handled(t, C, 0, fin, tro) /\ GroupRuns(t, C, 0, fin)
  BY LineTypes DEF Handled, GroupRuns
<1>6. QED
  BY <1>2, <1>3, <1>4, <1>5 DEF Reads

LEMMA OpenFileOk ==
    ASSUME UpdateInv, NEW p \in Procs, OpenFile(p)
    PROVE  UpdateInv'
<1> DEFINE t == tool[p]
<1>1. /\ t \in KonfUpdate /\ ~Reading(t)
      /\ ProcessOk(t, finished, troubled, installed, installs)
  BY RunningType DEF OpenFile, UpdateInv, ProcessesOk
<1>2. UNCHANGED <<installed, updaterc, history>>
  BY DEF OpenFile
<1>3. PICK f \in t.todo :
        SetTool(p, IF installed[f].mtime = 0 THEN Goes([t EXCEPT !.todo = @ \ {f}])
                   ELSE [t EXCEPT !.todo = @ \ {f}, !.m_currentFilename = f,
                                  !.lines = installed[f].lines, !.flushed = FALSE,
                                  !.foundVersion = FALSE,
                                  !.opened = installed[f].mtime, !.group = None])
  BY DEF OpenFile
<1>4. f \in Names /\ f # None
  BY <1>1, UpdateAssumption DEF KonfUpdate
<1>5. CASE installed[f].mtime = 0
  <2> DEFINE u == [t EXCEPT !.todo = @ \ {f}]
  <2>1. u \in KonfUpdate
    BY <1>1 DEF KonfUpdate
  <2>2. /\ u.config = t.config /\ u.m_id = t.m_id /\ u.todo = t.todo \ {f}
        /\ u.m_currentFilename = t.m_currentFilename
    BY <1>1 DEF KonfUpdate
  <2>3. SetTool(p, Goes(u))
    BY <1>3, <1>5
  <2> HIDE DEF u
  <2>4. ProcessOk(u, finished, troubled, installed, installs)
    BY <1>1, <2>2 DEF ProcessOk, IdIsOld, Reading
  <2>5. Goes(u) \in {Off} \cup KonfUpdate /\ (Goes(u) = Off \/ Goes(u) = u)
    BY <2>1, GoesType DEF Goes
  <2>6. QED
    BY <1>2, <2>3, <2>4, <2>5, StepKeeps DEF UpdateInv, TypeOK, FilesOk, history
<1>6. CASE installed[f].mtime # 0
  <2> DEFINE u == [t EXCEPT !.todo = @ \ {f}, !.m_currentFilename = f,
                            !.lines = installed[f].lines, !.flushed = FALSE,
                            !.foundVersion = FALSE,
                            !.opened = installed[f].mtime, !.group = None]
  <2>1. /\ installed[f].lines \in Contents[f] /\ installed[f].lines \in Seq(Line)
        /\ installed[f].mtime \in Nat /\ installed[f].mtime <= installs
    BY <1>4, <1>6, ContentType DEF UpdateInv, FilesOk, TypeOK
  <2>2. u \in KonfUpdate
    BY <1>1, <1>4, <2>1 DEF KonfUpdate
  <2>3. /\ u.config = t.config /\ u.m_id = t.m_id /\ u.todo = t.todo \ {f}
        /\ u.m_currentFilename = f /\ u.lines = installed[f].lines /\ u.foundVersion = FALSE
        /\ u.opened = installed[f].mtime /\ u.group = None
    BY <1>1 DEF KonfUpdate
  <2>4. SetTool(p, u)
    BY <1>3, <1>6
  <2> HIDE DEF u
  <2>5. Reads(u, installed[f].lines, finished, troubled)
    BY <2>1, <2>3, OpenReads
  <2>6. IdIsOld(u)
    BY <1>1, <1>3, <2>3 DEF ProcessOk, IdIsOld, Reading
  <2>7. ProcessOk(u, finished, troubled, installed, installs)
    BY <1>1, <2>1, <2>3, <2>5, <2>6 DEF ProcessOk
  <2>8. QED
    BY <1>2, <2>2, <2>4, <2>7, StepKeeps DEF UpdateInv, TypeOK, FilesOk, history
<1>7. QED
  BY <1>5, <1>6

-----------------------------------------------------------------------------
(* Reading lines *)

\* The next line, when there is one.
LEMMA NextIs ==
    ASSUME NEW t, NEW C \in Seq(Line), NEW n \in 0 .. Len(C), ReadTo(t, C, n)
    PROVE  /\ n \in Nat
           /\ t.lines = <<>> => n = Len(C)
           /\ t.lines # <<>> => /\ n + 1 \in 0 .. Len(C) /\ n + 1 \in 1 .. Len(C)
                                /\ Head(t.lines) = C[n + 1]
                                /\ Tail(t.lines) = SubSeq(C, (n + 1) + 1, Len(C))
<1>1. Len(C) \in Nat /\ n \in Nat /\ t.lines = SubSeq(C, n + 1, Len(C))
  BY DEF ReadTo
<1>2. CASE n = Len(C)
  BY <1>1, <1>2, SubSeqEmpty
<1>3. CASE n # Len(C)
  <2>1. n + 1 \in 1 .. Len(C) /\ Len(C) \in n + 1 .. Len(C) /\ n + 1 \in Int /\ Len(C) \in Int
    BY <1>1, <1>3
  <2>2. /\ Head(t.lines) = C[n + 1]
        /\ Tail(t.lines) = SubSeq(C, (n + 1) + 1, Len(C))
    BY <1>1, <2>1, HeadTailOfSubSeq
  <2>3. n + 1 \in 0 .. Len(C) /\ n + 1 <= Len(C) /\ n + 1 \in Nat
    BY <2>1
  <2>4. Len(t.lines) = Len(C) - (n + 1) + 1
    <3>1. \A i \in 1 .. Len(C) : C[i] \in Line
      OBVIOUS
    <3>2. n + 1 \in 1 .. Len(C) + 1 /\ Len(C) \in (n + 1) - 1 .. Len(C)
      BY <2>1, <1>1
    <3>3. \A i \in n + 1 .. Len(C) : C[i] \in Line
      BY <3>1, <2>1
    <3>4. QED
      BY <1>1, <2>1, <2>3, <3>2, <3>3, SubSeqProperties
  <2>5. t.lines # <<>>
    <3>1. Len(t.lines) # 0
      BY <2>4, <2>1, <1>1
    <3>2. Len(<<>>) = 0
      OBVIOUS
    <3>3. QED
      BY <3>1, <3>2, Zenon
  <2>6. QED
    BY <2>1, <2>2, <2>3, <2>5
<1>4. QED
  BY <1>2, <1>3

\* One more line belongs to the id the lines before belong to, unless it is an id.
LEMMA SameLastId ==
    ASSUME NEW C \in Seq(Line), NEW n \in 0 .. Len(C), n + 1 \notin IdLines(C)
    PROVE  \A k \in IdLines(C) : LastId(C, k, n + 1) <=> LastId(C, k, n)
<1>1. n \in Nat /\ IdLines(C) \subseteq 1 .. Len(C) /\ Len(C) \in Nat
  BY LineTypes
<1>2. \A k \in IdLines(C) : k \in Nat /\ (k <= n + 1 <=> k <= n)
  BY <1>1
<1>3. QED
  BY <1>1, <1>2 DEF LastId

\* A version the tool knows, and nothing else of the process, moves it on.
LEMMA ReadsVersion ==
    ASSUME NEW t, NEW u, NEW C \in Seq(Line), NEW fin, NEW tro, Reads(t, C, fin, tro),
           t.lines # <<>>, Head(t.lines).kind = "Version", Head(t.lines).good,
           u.lines = Tail(t.lines), u.foundVersion = TRUE, u.group = t.group,
           u.m_currentFilename = t.m_currentFilename, u.config = t.config,
           u.m_skip = t.m_skip, u.m_id = t.m_id
    PROVE  Reads(u, C, fin, tro)
<1>1. PICK n \in 0 .. Len(C) :
        /\ ReadTo(t, C, n) /\ KnowsGroup(t, C, n, tro)
        /\ Handled(t, C, n, fin, tro) /\ GroupRuns(t, C, n, fin)
  BY DEF Reads, GivenUp
<1>2. /\ n \in Nat /\ n + 1 \in 0 .. Len(C) /\ n + 1 \in 1 .. Len(C)
      /\ Head(t.lines) = C[n + 1] /\ Tail(t.lines) = SubSeq(C, (n + 1) + 1, Len(C))
  BY <1>1, NextIs, Zenon
<1>3. /\ n + 1 \in VersionLines(C) /\ n + 1 \notin IdLines(C) /\ n + 1 \notin ScriptLines(C)
      /\ C[n + 1].good
  BY <1>2, LineTypes
<1>4. /\ IdLines(C) \subseteq 1 .. Len(C) /\ VersionLines(C) \subseteq 1 .. Len(C)
      /\ ScriptLines(C) \subseteq 1 .. Len(C)
  BY LineTypes
<1>5. ReadTo(u, C, n + 1)
  <2>1. \A m \in VersionLines(C) : m <= n + 1 => C[m].good
    BY <1>1, <1>2, <1>3, <1>4 DEF ReadTo
  <2>2. \A k \in IdLines(C) : k <= n + 1 => \E m \in VersionLines(C) : m < k
    <3>1. \A k \in IdLines(C) : k <= n + 1 => k <= n
      BY <1>2, <1>3, <1>4
    <3>2. QED
      BY <1>1, <3>1 DEF ReadTo
  <2>3. \E m \in VersionLines(C) : m <= n + 1
    BY <1>2, <1>3
  <2>4. QED
    BY <1>2, <2>1, <2>2, <2>3 DEF ReadTo
<1>6. KnowsGroup(u, C, n + 1, tro)
  <2>1. u.group = None => \A k \in IdLines(C) : n + 1 < k
    BY <1>1, <1>2, <1>3, <1>4 DEF KnowsGroup
  <2>2. u.group # None => \E k \in IdLines(C) : LastId(C, k, n + 1) /\ C[k].id = u.group
    BY <1>1, <1>3, SameLastId DEF KnowsGroup
  <2>3. QED
    BY <1>1, <2>1, <2>2 DEF KnowsGroup
<1>7. \A j \in ScriptLines(C) : j <= n + 1 => j <= n
  BY <1>2, <1>3, <1>4
<1>8. Handled(u, C, n + 1, fin, tro)
  BY <1>1, <1>7 DEF Handled, WasRun
<1>9. GroupRuns(u, C, n + 1, fin)
  BY <1>1, <1>3, <1>7, SameLastId DEF GroupRuns, WasRun
<1>10. QED
  BY <1>2, <1>5, <1>6, <1>8, <1>9 DEF Reads

\* The process goes on reading: it is as well as before when it is where it should be in the file.
LEMMA GoesOnOk ==
    ASSUME NEW t, NEW u, NEW fin, NEW tro, NEW fin2, NEW tro2, NEW ins, NEW now,
           ProcessOk(t, fin, tro, ins, now), Reading(t), fin \subseteq fin2, tro \subseteq tro2,
           u.m_currentFilename = t.m_currentFilename, u.todo = t.todo, u.opened = t.opened,
           \A f \in Names : DoneOk(fin2, f, u.config[f].done), IdIsOld(u),
           \A C \in Contents[t.m_currentFilename] :
               Reads(t, C, fin, tro) => Reads(u, C, fin2, tro2)
    PROVE  ProcessOk(u, fin2, tro2, ins, now)
BY DEF ProcessOk, Reading

\* The facts about a process that reads which every step needs.
LEMMA AtLineFacts ==
    ASSUME UpdateInv, NEW p \in Procs, Running(p)
    PROVE  /\ tool[p] \in KonfUpdate
           /\ ProcessOk(tool[p], finished, troubled, installed, installs)
           /\ \A f \in Names : DoneOk(finished, f, updaterc[f].done)
                               /\ updaterc[f].mtime <= installs
           /\ installs \in Nat /\ kills \in Nat /\ updaterc \in Done
BY RunningType DEF UpdateInv, ProcessesOk, FilesOk, TypeOK

LEMMA ReadVersionOk ==
    ASSUME UpdateInv, NEW p \in Procs, ReadVersion(p)
    PROVE  UpdateInv'
<1> DEFINE t == tool[p]
           u == [NextLine(t) EXCEPT !.foundVersion = TRUE]
<1>1. /\ Running(p) /\ Reading(t) /\ t.lines # <<>> /\ Head(t.lines).kind = "Version"
      /\ SetTool(p, IF Head(t.lines).good THEN u ELSE CloseFile(t))
      /\ UNCHANGED <<installed, updaterc, history>>
  BY DEF ReadVersion, AtLine
<1>2. t \in KonfUpdate /\ ProcessOk(t, finished, troubled, installed, installs)
  BY <1>1, AtLineFacts
<1>3. CASE Head(t.lines).good
  <2>1. NextLine(t) \in KonfUpdate
    BY <1>1, <1>2, NextLineType
  <2>2. u \in KonfUpdate
    BY <2>1 DEF KonfUpdate
  <2>3. /\ u.lines = Tail(t.lines) /\ u.foundVersion = TRUE /\ u.group = t.group
        /\ u.m_currentFilename = t.m_currentFilename /\ u.config = t.config
        /\ u.m_skip = t.m_skip /\ u.m_id = t.m_id /\ u.todo = t.todo /\ u.opened = t.opened
    BY <1>2 DEF NextLine, KonfUpdate
  <2>4. SetTool(p, u)
    BY <1>1, <1>3
  <2> HIDE DEF u
  <2>5. ASSUME NEW C \in Contents[t.m_currentFilename], Reads(t, C, finished, troubled)
        PROVE  Reads(u, C, finished, troubled)
    <3>1. C \in Seq(Line)
      BY <1>1, <1>2, ReadingFile, ContentType
    <3>2. QED
      BY <3>1, <2>3, <2>5, <1>1, <1>3, ReadsVersion
  <2>6. IdIsOld(u)
    BY <1>2, <2>3 DEF ProcessOk, IdIsOld, Reading
  <2>7. ProcessOk(u, finished, troubled, installed, installs)
    <3>1. \A f \in Names : DoneOk(finished, f, u.config[f].done)
      BY <1>2, <2>3 DEF ProcessOk
    <3>2. QED
      BY <1>1, <1>2, <2>3, <2>5, <2>6, <3>1, GoesOnOk
  <2>8. QED
    BY <1>1, <2>2, <2>4, <2>7, AtLineFacts, StepKeeps DEF history
<1>4. CASE ~Head(t.lines).good
  <2>1. SetTool(p, CloseFile(t))
    BY <1>1, <1>4
  <2>2. CloseFile(t) \in {Off} \cup KonfUpdate
    BY <1>2, CloseType
  <2>3. CloseFile(t) = Off \/ ProcessOk(CloseFile(t), finished, troubled, installed, installs)
    BY <1>2, CloseOk DEF ProcessOk
  <2>4. QED
    BY <1>1, <2>1, <2>2, <2>3, AtLineFacts, StepKeeps DEF history
<1>5. QED
  BY <1>3, <1>4

-----------------------------------------------------------------------------
(* Scripts *)

LEMMA LastIdUnique ==
    ASSUME NEW C \in Seq(Line), NEW n \in Nat, NEW k, NEW m, LastId(C, k, n), LastId(C, m, n)
    PROVE  k = m
BY LineTypes DEF LastId

\* The lines read belong to the group the process is in.
LEMMA InGroup ==
    ASSUME NEW t, NEW C \in Seq(Line), NEW n \in Nat, NEW tro, KnowsGroup(t, C, n, tro),
           NEW k \in IdLines(C), LastId(C, k, n)
    PROVE  t.group # None /\ C[k].id = t.group
<1>1. k \in Nat /\ k <= n
  BY LineTypes DEF LastId
<1>2. t.group # None
  BY <1>1 DEF KnowsGroup
<1>3. PICK m \in IdLines(C) : LastId(C, m, n) /\ C[m].id = t.group
  BY <1>2 DEF KnowsGroup
<1>4. QED
  BY <1>2, <1>3, LastIdUnique

\* A script is skipped, ends, or is given up with the rest of its group.
LEMMA ReadsScript ==
    ASSUME NEW t, NEW u, NEW C \in Seq(Line), NEW fin, NEW tro, NEW fin2, NEW tro2,
           Reads(t, C, fin, tro), fin \subseteq fin2, tro \subseteq tro2,
           t.lines # <<>>, Head(t.lines).kind = "Script",
           u.lines = Tail(t.lines), u.foundVersion = t.foundVersion, u.group = t.group,
           u.m_currentFilename = t.m_currentFilename, u.config = t.config, u.m_id = t.m_id,
           \/ t.m_skip /\ u.m_skip
           \/ /\ ~t.m_skip /\ ~u.m_skip
              /\ <<t.m_currentFilename, t.group, Head(t.lines).script>> \in fin2
           \/ u.m_skip /\ <<t.m_currentFilename, t.group>> \in tro2
    PROVE  Reads(u, C, fin2, tro2)
<1>1. PICK n \in 0 .. Len(C) :
        /\ ReadTo(t, C, n) /\ KnowsGroup(t, C, n, tro)
        /\ Handled(t, C, n, fin, tro) /\ GroupRuns(t, C, n, fin)
  BY DEF Reads, GivenUp
<1>2. /\ n \in Nat /\ n + 1 \in 0 .. Len(C) /\ n + 1 \in 1 .. Len(C)
      /\ Head(t.lines) = C[n + 1] /\ Tail(t.lines) = SubSeq(C, (n + 1) + 1, Len(C))
  BY <1>1, NextIs, Zenon
<1>3. n + 1 \in ScriptLines(C) /\ n + 1 \notin IdLines(C) /\ n + 1 \notin VersionLines(C)
  BY <1>2, LineTypes
<1>4. /\ IdLines(C) \subseteq 1 .. Len(C) /\ VersionLines(C) \subseteq 1 .. Len(C)
      /\ ScriptLines(C) \subseteq 1 .. Len(C)
  BY LineTypes
<1>5. /\ \A k \in IdLines(C) : (k <= n + 1 <=> k <= n) /\ (n + 1 < k <=> n < k)
      /\ \A m \in VersionLines(C) : (m <= n + 1 <=> m <= n) /\ (n + 1 < m <=> n < m)
      /\ \A j \in ScriptLines(C) : j <= n + 1 <=> j <= n \/ j = n + 1
  BY <1>2, <1>3, <1>4
<1>6. ReadTo(u, C, n + 1)
  BY <1>1, <1>2, <1>5 DEF ReadTo
<1>7. KnowsGroup(u, C, n + 1, tro2)
  <2>1. u.group = None => \A k \in IdLines(C) : n + 1 < k
    BY <1>1, <1>5 DEF KnowsGroup
  <2>2. u.group # None => \E k \in IdLines(C) : LastId(C, k, n + 1) /\ C[k].id = u.group
    BY <1>1, <1>3, SameLastId DEF KnowsGroup
  <2>3. u.group # None =>
            IF u.m_skip THEN \/ u.group \in u.config[u.m_currentFilename].done
                             \/ <<u.m_currentFilename, u.group>> \in tro2
            ELSE u.m_id = u.group
    BY <1>1 DEF KnowsGroup
  <2>4. QED
    BY <2>1, <2>2, <2>3 DEF KnowsGroup
\* The script that was read is one of the group the process is in.
<1>8. ASSUME NEW k \in IdLines(C), LastId(C, k, n + 1)
      PROVE  LastId(C, k, n) /\ t.group # None /\ C[k].id = t.group
  BY <1>1, <1>2, <1>3, <1>8, SameLastId, InGroup
<1>9. Handled(u, C, n + 1, fin2, tro2)
  <2>1. ASSUME NEW k \in IdLines(C), NEW j \in ScriptLines(C), j <= n, LastId(C, k, j)
        PROVE  \/ WasRun(u, C, k, j, fin2)
               \/ <<u.m_currentFilename, C[k].id>> \in tro2
               \/ C[k].id \in u.config[u.m_currentFilename].done
    BY <1>1, <2>1 DEF Handled, WasRun
  <2>2. ASSUME NEW k \in IdLines(C), LastId(C, k, n + 1)
        PROVE  \/ WasRun(u, C, k, n + 1, fin2)
               \/ <<u.m_currentFilename, C[k].id>> \in tro2
               \/ C[k].id \in u.config[u.m_currentFilename].done
    BY <1>1, <1>2, <1>8, <2>2 DEF KnowsGroup, WasRun
  <2>3. QED
    BY <1>5, <2>1, <2>2 DEF Handled
<1>10. GroupRuns(u, C, n + 1, fin2)
  <2>1. ASSUME ~u.m_skip, NEW k \in IdLines(C), NEW j \in ScriptLines(C),
               j <= n + 1, LastId(C, k, j), LastId(C, k, n + 1)
        PROVE  WasRun(u, C, k, j, fin2)
    <3>1. ~t.m_skip /\ <<t.m_currentFilename, t.group, Head(t.lines).script>> \in fin2
      BY <2>1
    <3>2. CASE j = n + 1
      BY <1>2, <1>8, <2>1, <3>1, <3>2 DEF WasRun
    <3>3. CASE j <= n
      BY <1>1, <1>8, <2>1, <3>1, <3>3 DEF GroupRuns, WasRun
    <3>4. QED
      BY <1>5, <2>1, <3>2, <3>3
  <2>2. QED
    BY <2>1 DEF GroupRuns
<1>11. QED
  BY <1>2, <1>6, <1>7, <1>9, <1>10 DEF Reads

LEMMA ScriptLineOk ==
    ASSUME UpdateInv, NEW p \in Procs, AtLine(p, "Script"), NEW skip \in BOOLEAN,
           NEW fin2, NEW tro2, fin2 = finished', tro2 = troubled',
           SetTool(p, [NextLine(tool[p]) EXCEPT !.m_skip = skip]),
           UNCHANGED <<installed, updaterc, installs, kills>>,
           finished \subseteq fin2, troubled \subseteq tro2,
           \/ tool[p].m_skip /\ skip
           \/ /\ ~tool[p].m_skip /\ ~skip
              /\ <<tool[p].m_currentFilename, tool[p].group, Head(tool[p].lines).script>>
                    \in fin2
           \/ skip /\ <<tool[p].m_currentFilename, tool[p].group>> \in tro2
    PROVE  UpdateInv'
<1> DEFINE t == tool[p]
           u == [NextLine(t) EXCEPT !.m_skip = skip]
<1>1. Running(p) /\ Reading(t) /\ t.lines # <<>> /\ Head(t.lines).kind = "Script"
  BY DEF AtLine
<1>2. t \in KonfUpdate /\ ProcessOk(t, finished, troubled, installed, installs)
  BY <1>1, AtLineFacts
<1>3. NextLine(t) \in KonfUpdate
  BY <1>1, <1>2, NextLineType
<1>4. u \in KonfUpdate
  BY <1>3 DEF KonfUpdate
<1>5. /\ u.lines = Tail(t.lines) /\ u.foundVersion = t.foundVersion /\ u.group = t.group
      /\ u.m_currentFilename = t.m_currentFilename /\ u.config = t.config
      /\ u.m_id = t.m_id /\ u.todo = t.todo /\ u.opened = t.opened
  BY <1>2 DEF NextLine, KonfUpdate
<1>6. u.m_skip = skip
  BY <1>3, Zenon DEF KonfUpdate
<1>7. SetTool(p, u)
  OBVIOUS
<1> HIDE DEF u
<1>8. ASSUME NEW C \in Contents[t.m_currentFilename], Reads(t, C, finished, troubled)
      PROVE  Reads(u, C, fin2, tro2)
  <2>1. C \in Seq(Line)
    BY <1>1, <1>2, ReadingFile, ContentType
  <2>2. \/ t.m_skip /\ u.m_skip
        \/ /\ ~t.m_skip /\ ~u.m_skip
           /\ <<t.m_currentFilename, t.group, Head(t.lines).script>> \in fin2
        \/ u.m_skip /\ <<t.m_currentFilename, t.group>> \in tro2
    BY <1>6, Zenon
  <2>3. QED
    BY <2>1, <2>2, <1>1, <1>5, <1>8, ReadsScript
<1>9. IdIsOld(u)
  BY <1>2, <1>5 DEF ProcessOk, IdIsOld, Reading
<1>10. \A f \in Names : /\ DoneOk(fin2, f, u.config[f].done)
                        /\ DoneOk(fin2, f, updaterc[f].done)
  BY <1>1, <1>2, <1>5, AtLineFacts, DoneStaysOk DEF ProcessOk
<1>11. ProcessOk(u, fin2, tro2, installed, installs)
  BY <1>1, <1>2, <1>5, <1>8, <1>9, <1>10, GoesOnOk
<1>12. QED
  BY <1>1, <1>4, <1>7, <1>10, <1>11, AtLineFacts, StepKeeps

LEMMA SkipScriptOk ==
    ASSUME UpdateInv, NEW p \in Procs, SkipScript(p)
    PROVE  UpdateInv'
<1>1. /\ AtLine(p, "Script") /\ tool[p].m_skip /\ SetTool(p, NextLine(tool[p]))
      /\ UNCHANGED <<installed, updaterc, history>>
  BY DEF SkipScript
<1>2. tool[p] \in KonfUpdate /\ tool[p].lines # <<>>
  BY <1>1, AtLineFacts DEF AtLine
<1>3. NextLine(tool[p]) = [NextLine(tool[p]) EXCEPT !.m_skip = TRUE]
  <2>1. NextLine(tool[p]) \in KonfUpdate /\ NextLine(tool[p]).m_skip = tool[p].m_skip
    BY <1>2, NextLineType DEF NextLine, KonfUpdate
  <2>2. tool[p].m_skip = TRUE
    BY <1>1, <1>2, Zenon DEF KonfUpdate
  <2>3. QED
    BY <2>1, <2>2 DEF KonfUpdate
<1>4. QED
  BY <1>1, <1>3, ScriptLineOk DEF history

LEMMA RunScriptOk ==
    ASSUME UpdateInv, NEW p \in Procs, NEW outcome \in Outcomes, RunScript(p, outcome)
    PROVE  UpdateInv'
<1> DEFINE t == tool[p]
<1>1. /\ AtLine(p, "Script") /\ ~t.m_skip
      /\ SetTool(p, [NextLine(t) EXCEPT !.m_skip = ~Ended(outcome)])
      /\ UNCHANGED <<installed, updaterc, installs, kills, overtaken>>
  BY DEF RunScript
<1>2. /\ finished \subseteq finished' /\ troubled \subseteq troubled'
      /\ Ended(outcome) =>
            <<t.m_currentFilename, t.group, Head(t.lines).script>> \in finished'
      /\ ~Ended(outcome) => <<t.m_currentFilename, t.group>> \in troubled'
  BY DEF RunScript
<1>3. (~Ended(outcome)) \in BOOLEAN
  OBVIOUS
<1>4. CASE Ended(outcome)
  BY <1>1, <1>2, <1>3, <1>4, ScriptLineOk
<1>5. CASE ~Ended(outcome)
  BY <1>1, <1>2, <1>3, <1>5, ScriptLineOk
<1>6. QED
  BY <1>4, <1>5

-----------------------------------------------------------------------------
(* What is remembered was done *)

\* Where a group ends, at the next id or at the end of the file, all of it was run.
LEMMA GroupDone ==
    ASSUME OnceEach, NEW f \in Names, NEW C \in Contents[f], NEW t, NEW fin, NEW tro,
           NEW n \in 0 .. Len(C), t.m_currentFilename = f,
           ReadTo(t, C, n), KnowsGroup(t, C, n, tro), GroupRuns(t, C, n, fin),
           t.group # None, ~t.m_skip, n = Len(C) \/ n + 1 \in IdLines(C)
    PROVE  t.group \in IdsOf(C) /\ Ran(fin, f, C, t.group)
<1>1. C \in Seq(Line)
  BY ContentType
<1>2. /\ Len(C) \in Nat /\ n \in Nat
      /\ IdLines(C) \subseteq 1 .. Len(C) /\ VersionLines(C) \subseteq 1 .. Len(C)
      /\ ScriptLines(C) \subseteq 1 .. Len(C) /\ IdLines(C) \cap ScriptLines(C) = {}
  BY <1>1, LineTypes
<1>3. PICK k \in IdLines(C) : LastId(C, k, n) /\ C[k].id = t.group
  BY DEF KnowsGroup
<1>4. k <= n
  BY <1>3 DEF LastId
<1>5. t.group \in IdsOf(C)
  <2>1. \A i \in IdLines(C) : i <= k => \E m \in VersionLines(C) : m < i
    BY <1>2, <1>4 DEF ReadTo
  <2>2. \A m \in VersionLines(C) : m < k => C[m].good
    BY <1>2, <1>4 DEF ReadTo
  <2>3. QED
    BY <1>3, <2>1, <2>2 DEF IdsOf, IdLines, VersionLines
<1>6. ASSUME NEW s \in ScriptsOf(C, t.group)
      PROVE  <<f, t.group, s>> \in fin
  <2>1. PICK j \in ScriptLines(C), m \in IdLines(C) :
          /\ s = C[j].script /\ C[m].id = t.group /\ m < j
          /\ \A i \in IdLines(C) : ~(m < i /\ i < j)
    BY <1>6 DEF ScriptsOf, ScriptLines, IdLines
  <2>2. m = k
    BY <1>3, <2>1 DEF OnceEach
  <2>3. LastId(C, k, j)
    BY <1>2, <2>1, <2>2 DEF LastId
  <2>4. j <= n
    BY <1>2, <1>4, <2>1, <2>2
  <2>5. QED
    BY <1>3, <2>1, <2>3, <2>4 DEF GroupRuns, WasRun
<1>7. QED
  BY <1>5, <1>6 DEF Ran

\* The id that is remembered is that of the group before, or one the open file does not have.
LEMMA RememberedOk ==
    ASSUME OwnIds, NEW t \in KonfUpdate, NEW fin, Reading(t), IdIsOld(t),
           \A f \in Names : DoneOk(fin, f, t.config[f].done),
           t.group # None /\ ~t.m_skip =>
               /\ t.m_id = t.group
               /\ \E C \in Contents[t.m_currentFilename] :
                     t.group \in IdsOf(C) /\ Ran(fin, t.m_currentFilename, C, t.group)
    PROVE  \A f \in Names : DoneOk(fin, f, Remembered(t).config[f].done)
<1> DEFINE f == t.m_currentFilename
<1>1. f \in Names
  BY ReadingFile
<1>2. PICK D \in Done :
        /\ Remembered(t) = [t EXCEPT !.config = D]
        /\ \A g \in Names \ {f} : D[g] = t.config[g]
        /\ D[f].done = IF HasDone(t) THEN t.config[f].done \cup {t.m_id} ELSE t.config[f].done
  BY <1>1, RememberedIs
<1>3. Remembered(t).config = D
  BY <1>2 DEF KonfUpdate
<1>4. ASSUME HasDone(t), NEW C \in Contents[f], t.m_id \in IdsOf(C)
      PROVE  \E B \in Contents[f] : t.m_id \in IdsOf(B) /\ Ran(fin, f, B, t.m_id)
  <2>1. t.m_id # None /\ ~t.m_skip
    BY <1>4 DEF HasDone
  <2>2. CASE t.group # None
    BY <2>1, <2>2
  <2>3. CASE t.group = None
    <3>1. PICK g \in Names : g # f /\ \E B \in Contents[g] :
                                 \E k \in IdLines(B) : B[k].id = t.m_id
      BY <2>1, <2>3 DEF IdIsOld
    <3>2. \E k \in IdLines(C) : C[k].id = t.m_id
      BY <1>4 DEF IdsOf, IdLines
    <3>3. QED
      BY <1>1, <3>1, <3>2 DEF OwnIds
  <2>4. QED
    BY <2>2, <2>3
<1>5. DoneOk(fin, f, D[f].done)
  BY <1>1, <1>2, <1>4 DEF DoneOk
<1>6. QED
  BY <1>1, <1>2, <1>3, <1>5

\* So is what a sync stores of it.
LEMMA SyncDoneOk ==
    ASSUME UpdateInv, NEW t \in KonfUpdate, Reading(t), SyncDone(t),
           \A f \in Names : DoneOk(finished, f, Remembered(t).config[f].done)
    PROVE  /\ updaterc' \in Done
           /\ \A f \in Names : /\ DoneOk(finished, f, updaterc'[f].done)
                               /\ updaterc'[f].mtime = updaterc[f].mtime
<1> DEFINE f == t.m_currentFilename
<1>1. f \in Names /\ updaterc \in Done
  BY ReadingFile DEF UpdateInv, TypeOK
<1>2. CASE Remembered(t) = t
  BY <1>1, <1>2 DEF SyncDone, UpdateInv, FilesOk
<1>3. CASE Remembered(t) # t
  <2>1. Remembered(t) = WithDone(t)
    BY <1>3 DEF Remembered
  <2>2. updaterc' = [updaterc EXCEPT ![f].done = Remembered(t).config[f].done]
    BY <1>3, <2>1 DEF SyncDone
  <2>3. Remembered(t).config \in Done
    BY <1>1, RememberedIs DEF KonfUpdate
  <2>4. /\ updaterc' \in Done /\ updaterc'[f].done = Remembered(t).config[f].done
        /\ \A g \in Names : g # f => updaterc'[g] = updaterc[g]
        /\ updaterc'[f].mtime = updaterc[f].mtime
    BY <1>1, <2>2, <2>3 DEF Done
  <2>5. QED
    BY <1>1, <2>4 DEF UpdateInv, FilesOk
<1>4. QED
  BY <1>2, <1>3

\* At an id and at the end of the file: the process and its group, where it is in the file.
LEMMA GroupFacts ==
    ASSUME OnceEach, OwnIds, NEW t \in KonfUpdate, NEW fin, NEW tro, NEW ins, NEW now,
           ProcessOk(t, fin, tro, ins, now), Reading(t),
           t.lines = <<>> \/ Head(t.lines).kind = "Id"
    PROVE  \A f \in Names : DoneOk(fin, f, Remembered(t).config[f].done)
<1> DEFINE f == t.m_currentFilename
<1>1. f \in Names
  BY ReadingFile
<1>2. PICK C \in Contents[f] : Reads(t, C, fin, tro)
  BY DEF ProcessOk
<1>3. C \in Seq(Line)
  BY <1>1, ContentType
<1>4. ASSUME t.group # None, ~t.m_skip
      PROVE  t.m_id = t.group /\ t.group \in IdsOf(C) /\ Ran(fin, f, C, t.group)
  <2>1. PICK n \in 0 .. Len(C) :
          /\ ReadTo(t, C, n) /\ KnowsGroup(t, C, n, tro)
          /\ Handled(t, C, n, fin, tro) /\ GroupRuns(t, C, n, fin)
    BY <1>2, <1>4 DEF Reads, GivenUp
  <2>2. n = Len(C) \/ n + 1 \in IdLines(C)
    <3>1. CASE t.lines = <<>>
      BY <1>3, <2>1, <3>1, NextIs
    <3>2. CASE t.lines # <<>>
      <4>1. n + 1 \in 1 .. Len(C) /\ Head(t.lines) = C[n + 1]
        BY <1>3, <2>1, <3>2, NextIs, Zenon
      <4>2. QED
        BY <1>3, <3>2, <4>1, LineTypes
    <3>3. QED
      BY <3>1, <3>2
  <2>3. QED
    BY <1>1, <1>4, <2>1, <2>2, GroupDone DEF KnowsGroup
<1>5. QED
  BY <1>2, <1>4, RememberedOk DEF ProcessOk

-----------------------------------------------------------------------------
(* Ids *)

\* The group an id begins: the lines before are dealt with, and it is run or was done.
LEMMA ReadsId ==
    ASSUME NEW t, NEW u, NEW C \in Seq(Line), NEW fin, NEW tro, Reads(t, C, fin, tro),
           t.lines # <<>>, Head(t.lines).kind = "Id", t.foundVersion, NEW id \in Ids,
           id = Head(t.lines).id,
           u.lines = Tail(t.lines), u.foundVersion = t.foundVersion, u.group = id,
           u.m_currentFilename = t.m_currentFilename,
           t.config[t.m_currentFilename].done \subseteq u.config[t.m_currentFilename].done,
           IF u.m_skip THEN id \in u.config[t.m_currentFilename].done ELSE u.m_id = id
    PROVE  Reads(u, C, fin, tro)
<1>1. PICK n \in 0 .. Len(C) :
        /\ ReadTo(t, C, n) /\ KnowsGroup(t, C, n, tro)
        /\ Handled(t, C, n, fin, tro) /\ GroupRuns(t, C, n, fin)
  BY DEF Reads, GivenUp
<1>2. /\ n \in Nat /\ n + 1 \in 0 .. Len(C) /\ n + 1 \in 1 .. Len(C)
      /\ Head(t.lines) = C[n + 1] /\ Tail(t.lines) = SubSeq(C, (n + 1) + 1, Len(C))
  BY <1>1, NextIs, Zenon
<1>3. n + 1 \in IdLines(C) /\ n + 1 \notin ScriptLines(C) /\ n + 1 \notin VersionLines(C)
  BY <1>2, LineTypes
<1>4. /\ IdLines(C) \subseteq 1 .. Len(C) /\ VersionLines(C) \subseteq 1 .. Len(C)
      /\ ScriptLines(C) \subseteq 1 .. Len(C)
  BY LineTypes
<1>5. /\ \A k \in IdLines(C) : k <= n + 1 <=> k <= n \/ k = n + 1
      /\ \A m \in VersionLines(C) : m <= n + 1 <=> m <= n
      /\ \A j \in ScriptLines(C) : j <= n + 1 <=> j <= n
  BY <1>2, <1>3, <1>4
<1>6. \E m \in VersionLines(C) : m <= n /\ m < n + 1
  BY <1>1, <1>2, <1>4 DEF ReadTo
<1>7. ReadTo(u, C, n + 1)
  <2>1. \A k \in IdLines(C) : k <= n + 1 => \E m \in VersionLines(C) : m < k
    BY <1>1, <1>5, <1>6 DEF ReadTo
  <2>2. \A m \in VersionLines(C) : m <= n + 1 => C[m].good
    BY <1>1, <1>5 DEF ReadTo
  <2>3. QED
    BY <1>2, <1>5, <1>6, <2>1, <2>2 DEF ReadTo
<1>8. LastId(C, n + 1, n + 1)
  BY <1>2, <1>3, <1>4 DEF LastId
<1>9. KnowsGroup(u, C, n + 1, tro)
  BY <1>2, <1>3, <1>8, UpdateAssumption DEF KnowsGroup
<1>10. Handled(u, C, n + 1, fin, tro)
  BY <1>1, <1>5 DEF Handled, WasRun
<1>11. GroupRuns(u, C, n + 1, fin)
  <2>1. \A k \in IdLines(C) : LastId(C, k, n + 1) => k = n + 1
    BY <1>2, <1>8, LastIdUnique
  <2>2. \A j \in ScriptLines(C) : j <= n + 1 => ~LastId(C, n + 1, j)
    BY <1>2, <1>4, <1>5 DEF LastId
  <2>3. QED
    BY <2>1, <2>2 DEF GroupRuns
<1>12. QED
  BY <1>2, <1>7, <1>9, <1>10, <1>11 DEF Reads

\* An id that no version stands before gives the file up, which then has no groups.
LEMMA ReadsUnversioned ==
    ASSUME NEW t, NEW u, NEW C \in Seq(Line), NEW fin, NEW tro, Reads(t, C, fin, tro),
           t.lines # <<>>, Head(t.lines).kind = "Id", ~t.foundVersion,
           u.lines = <<>>, u.group = t.group
    PROVE  Reads(u, C, fin, tro)
<1>1. PICK n \in 0 .. Len(C) :
        /\ ReadTo(t, C, n) /\ KnowsGroup(t, C, n, tro)
        /\ Handled(t, C, n, fin, tro) /\ GroupRuns(t, C, n, fin)
  BY DEF Reads, GivenUp
<1>2. n \in Nat /\ n + 1 \in 1 .. Len(C) /\ Head(t.lines) = C[n + 1]
  BY <1>1, NextIs, Zenon
<1>3. n + 1 \in IdLines(C)
  BY <1>2, LineTypes
<1>4. /\ IdLines(C) \subseteq 1 .. Len(C) /\ VersionLines(C) \subseteq 1 .. Len(C)
      /\ \A m \in VersionLines(C) : n < m
  BY <1>1, LineTypes DEF ReadTo
<1>5. \A k \in IdLines(C) : n < k
  BY <1>1, <1>2, <1>4 DEF ReadTo
<1>6. t.group = None
  BY <1>1, <1>2, <1>4, <1>5 DEF KnowsGroup, LastId
<1>7. \A k \in IdLines(C) : n + 1 <= k
  BY <1>2, <1>4, <1>5
<1>8. ~\E m \in VersionLines(C) : m < n + 1
  BY <1>2, <1>4
<1>9. IdsOf(C) = {}
  BY <1>3, <1>7, <1>8 DEF IdsOf, IdLines, VersionLines
<1>10. QED
  BY <1>6, <1>9 DEF Reads, GivenUp

LEMMA ReadIdOk ==
    ASSUME OnceEach, OwnIds, UpdateInv, NEW p \in Procs, ReadId(p)
    PROVE  UpdateInv'
<1> DEFINE t == tool[p]
           f == t.m_currentFilename
           id == Head(t.lines).id
<1>1. /\ Running(p) /\ Reading(t) /\ t.lines # <<>> /\ Head(t.lines).kind = "Id"
      /\ UNCHANGED <<installed, history>>
  BY DEF ReadId, AtLine
<1>2. /\ t \in KonfUpdate /\ ProcessOk(t, finished, troubled, installed, installs)
      /\ f \in Names /\ f # None
  BY <1>1, AtLineFacts, ReadingFile DEF Reading
<1>3. /\ NextLine(t) \in KonfUpdate /\ NextLine(t).lines = Tail(t.lines)
      /\ NextLine(t) = [t EXCEPT !.lines = Tail(@)] /\ Head(t.lines) \in Line
  BY <1>1, <1>2, NextLineType DEF NextLine, KonfUpdate
<1>4. id \in Ids
  BY <1>1, <1>3 DEF Line
<1>5. CASE t.foundVersion
  <2>1. /\ SyncDone(t)
        /\ SetTool(p, [BeginGroup(Remembered(NextLine(t)), id) EXCEPT !.group = id])
    BY <1>5 DEF ReadId
  <2>2. \A g \in Names : DoneOk(finished, g, Remembered(t).config[g].done)
    BY <1>1, <1>2, GroupFacts
  <2>3. /\ updaterc' \in Done
        /\ \A g \in Names : /\ DoneOk(finished, g, updaterc'[g].done)
                            /\ updaterc'[g].mtime = updaterc[g].mtime
    BY <1>1, <1>2, <2>1, <2>2, SyncDoneOk
  <2> DEFINE s == NextLine(t)
             v == Remembered(s)
             u == [BeginGroup(v, id) EXCEPT !.group = id]
  <2>4. /\ s.m_currentFilename = f /\ s.config = t.config /\ s.m_id = t.m_id
        /\ s.m_skip = t.m_skip /\ s.mode = t.mode /\ s.todo = t.todo /\ s.opened = t.opened
        /\ s.foundVersion = t.foundVersion
    BY <1>2, <1>3 DEF KonfUpdate
  <2>5. v.config = Remembered(t).config
    <3>1. HasDone(s) <=> HasDone(t)
      BY <2>4 DEF HasDone
    <3>2. WithDone(s).config = WithDone(t).config
      BY <1>2, <1>3, <2>4 DEF WithDone, KonfUpdate
    <3>3. QED
      BY <2>4, <3>1, <3>2 DEF Remembered
  <2> HIDE DEF s
  <2>6. PICK D \in Done :
          /\ v = [s EXCEPT !.config = D]
          /\ D[f].done = IF HasDone(s) THEN s.config[f].done \cup {s.m_id}
                         ELSE s.config[f].done
    <3>1. s \in KonfUpdate
      BY <1>3 DEF s
    <3>2. QED
      BY <1>2, <2>4, <3>1, RememberedIs
  <2>7. v \in KonfUpdate
    BY <1>2, <1>3, <2>4, RememberedIs DEF s
  <2>8. /\ v.lines = Tail(t.lines) /\ v.m_currentFilename = f /\ v.config = D
        /\ v.m_id = t.m_id /\ v.todo = t.todo /\ v.opened = t.opened
        /\ v.foundVersion = t.foundVersion
    BY <1>3, <2>4, <2>6 DEF KonfUpdate, s
  <2>9. t.config[f].done \subseteq D[f].done
    BY <2>4, <2>6
  <2> HIDE DEF v
  <2>10. u \in KonfUpdate
    BY <1>4, <2>7, BeginGroupType
  <2>11. /\ u.lines = Tail(t.lines) /\ u.m_currentFilename = f /\ u.config = D
         /\ u.todo = t.todo /\ u.opened = t.opened /\ u.foundVersion = t.foundVersion
         /\ u.group = id
    BY <2>7, <2>8 DEF BeginGroup, KonfUpdate
  <2>12. \/ u.m_skip = TRUE /\ id \in D[f].done /\ u.m_id = t.m_id
         \/ u.m_skip = FALSE /\ u.m_id = id
    BY <2>7, <2>8 DEF BeginGroup, KonfUpdate
  <2>13. SetTool(p, u)
    BY <2>1 DEF v, s
  <2> HIDE DEF u
  <2>14. ASSUME NEW C \in Contents[f], Reads(t, C, finished, troubled)
         PROVE  Reads(u, C, finished, troubled)
    <3>1. C \in Seq(Line)
      BY <1>2, ContentType
    <3>2. IF u.m_skip THEN id \in u.config[f].done ELSE u.m_id = id
      BY <2>11, <2>12
    <3>3. QED
      BY <1>1, <1>4, <1>5, <2>9, <2>11, <2>14, <3>1, <3>2, ReadsId
  <2>15. IdIsOld(u)
    <3>1. u.group # None
      BY <1>4, <2>11, UpdateAssumption
    <3>2. CASE u.m_id = t.m_id
      BY <1>2, <2>11, <3>1, <3>2 DEF IdIsOld, ProcessOk
    <3>3. CASE u.m_id = id
      <4>1. PICK C \in Contents[f] : Reads(t, C, finished, troubled)
        BY <1>1, <1>2 DEF ProcessOk
      <4>2. C \in Seq(Line)
        BY <1>2, ContentType
      <4>3. PICK n \in 0 .. Len(C) : ReadTo(t, C, n)
        BY <1>1, <4>1 DEF Reads, GivenUp
      <4>4. n + 1 \in 1 .. Len(C) /\ Head(t.lines) = C[n + 1]
        BY <1>1, <4>2, <4>3, NextIs, Zenon
      <4>5. n + 1 \in IdLines(C) /\ C[n + 1].id = u.m_id
        BY <1>1, <3>3, <4>2, <4>4, LineTypes
      <4>6. f \in Names \ u.todo
        BY <1>1, <1>2, <2>11 DEF ProcessOk
      <4>7. QED
        BY <3>1, <4>5, <4>6 DEF IdIsOld
    <3>4. QED
      BY <2>12, <3>2, <3>3
  <2>16. \A g \in Names : DoneOk(finished, g, u.config[g].done)
    BY <2>2, <2>5, <2>8, <2>11
  <2>17. ProcessOk(u, finished, troubled, installed, installs)
    BY <1>1, <1>2, <2>11, <2>14, <2>15, <2>16, GoesOnOk
  <2>18. QED
    BY <1>1, <2>3, <2>10, <2>13, <2>17, AtLineFacts, StepKeeps DEF history
<1>6. CASE ~t.foundVersion
  <2> DEFINE u == [t EXCEPT !.lines = <<>>]
  <2>1. SetTool(p, u) /\ UNCHANGED updaterc
    BY <1>6 DEF ReadId
  <2>2. <<>> \in Seq(Line)
    OBVIOUS
  <2>3. /\ u \in KonfUpdate /\ u.lines = <<>> /\ u.group = t.group /\ u.config = t.config
        /\ u.m_currentFilename = f /\ u.todo = t.todo /\ u.opened = t.opened
        /\ u.m_id = t.m_id
    BY <1>2, <2>2 DEF KonfUpdate
  <2> HIDE DEF u
  <2>4. ASSUME NEW C \in Contents[f], Reads(t, C, finished, troubled)
        PROVE  Reads(u, C, finished, troubled)
    <3>1. C \in Seq(Line)
      BY <1>2, ContentType
    <3>2. QED
      BY <1>1, <1>6, <2>3, <2>4, <3>1, ReadsUnversioned
  <2>5. IdIsOld(u) /\ \A g \in Names : DoneOk(finished, g, u.config[g].done)
    BY <1>2, <2>3 DEF ProcessOk, IdIsOld, Reading
  <2>6. ProcessOk(u, finished, troubled, installed, installs)
    BY <1>1, <1>2, <2>3, <2>4, <2>5, GoesOnOk
  <2>7. QED
    BY <1>1, <2>1, <2>3, <2>6, AtLineFacts, StepKeeps DEF history
<1>7. QED
  BY <1>5, <1>6

-----------------------------------------------------------------------------
(* The end of a file, upgrades and crashes *)

\* A process that knows more groups to be done is where it was.
LEMMA ReadsOn ==
    ASSUME NEW t, NEW u, NEW C, NEW fin, NEW tro, Reads(t, C, fin, tro),
           u.lines = t.lines, u.foundVersion = t.foundVersion, u.group = t.group,
           u.m_currentFilename = t.m_currentFilename, u.m_id = t.m_id, u.m_skip = t.m_skip,
           t.config[t.m_currentFilename].done \subseteq u.config[t.m_currentFilename].done
    PROVE  Reads(u, C, fin, tro)
<1>1. CASE GivenUp(t, C)
  BY <1>1 DEF Reads, GivenUp
<1>2. ASSUME NEW n \in 0 .. Len(C),
             ReadTo(t, C, n), KnowsGroup(t, C, n, tro),
             Handled(t, C, n, fin, tro), GroupRuns(t, C, n, fin)
      PROVE  Reads(u, C, fin, tro)
  <2>1. ReadTo(u, C, n) /\ GroupRuns(u, C, n, fin)
    BY <1>2 DEF ReadTo, GroupRuns, WasRun
  <2>2. KnowsGroup(u, C, n, tro)
    BY <1>2 DEF KnowsGroup
  <2>3. Handled(u, C, n, fin, tro)
    BY <1>2 DEF Handled, WasRun
  <2>4. QED
    BY <2>1, <2>2, <2>3 DEF Reads
<1>3. QED
  BY <1>1, <1>2 DEF Reads

LEMMA FlushOk ==
    ASSUME OnceEach, OwnIds, UpdateInv, NEW p \in Procs, Flush(p)
    PROVE  UpdateInv'
<1> DEFINE t == tool[p]
           f == t.m_currentFilename
           u == [Remembered(t) EXCEPT !.flushed = TRUE]
<1>1. /\ Running(p) /\ Reading(t) /\ t.lines = <<>>
      /\ SyncDone(t) /\ SetTool(p, u) /\ UNCHANGED <<installed, history>>
  BY DEF Flush, AtEnd
<1>2. /\ t \in KonfUpdate /\ ProcessOk(t, finished, troubled, installed, installs)
      /\ f \in Names
  BY <1>1, AtLineFacts, ReadingFile
<1>3. \A g \in Names : DoneOk(finished, g, Remembered(t).config[g].done)
  BY <1>1, <1>2, GroupFacts
<1>4. /\ updaterc' \in Done
      /\ \A g \in Names : /\ DoneOk(finished, g, updaterc'[g].done)
                          /\ updaterc'[g].mtime = updaterc[g].mtime
  BY <1>1, <1>2, <1>3, SyncDoneOk
<1>5. PICK D \in Done :
        /\ Remembered(t) = [t EXCEPT !.config = D]
        /\ D[f].done = IF HasDone(t) THEN t.config[f].done \cup {t.m_id} ELSE t.config[f].done
  BY <1>2, RememberedIs
<1>6. /\ u.lines = t.lines /\ u.m_currentFilename = f /\ u.config = D /\ u.m_id = t.m_id
      /\ u.todo = t.todo /\ u.opened = t.opened /\ u.foundVersion = t.foundVersion
      /\ u.group = t.group /\ u.m_skip = t.m_skip /\ u \in KonfUpdate
      /\ Remembered(t).config = D
  BY <1>2, <1>5 DEF KonfUpdate
<1>7. t.config[f].done \subseteq D[f].done
  BY <1>5
<1> HIDE DEF u
<1>8. ASSUME NEW C \in Contents[f], Reads(t, C, finished, troubled)
      PROVE  Reads(u, C, finished, troubled)
  BY <1>6, <1>7, <1>8, ReadsOn
<1>9. IdIsOld(u)
  BY <1>2, <1>6 DEF ProcessOk, IdIsOld, Reading
<1>10. ProcessOk(u, finished, troubled, installed, installs)
  BY <1>1, <1>2, <1>3, <1>6, <1>8, <1>9, GoesOnOk
<1>11. QED
  BY <1>1, <1>4, <1>6, <1>10, AtLineFacts, StepKeeps DEF history

LEMMA RecordFileOk ==
    ASSUME UpdateInv, NEW p \in Procs, RecordFile(p)
    PROVE  UpdateInv'
<1> DEFINE t == tool[p]
           f == t.m_currentFilename
           records == t.mode # "test"
           u == IF records THEN [t EXCEPT !.config[f].mtime = installed[f].mtime] ELSE t
<1>1. /\ Running(p) /\ Reading(t) /\ SetTool(p, CloseFile(u))
      /\ updaterc' = IF records THEN [updaterc EXCEPT ![f].mtime = installed[f].mtime]
                     ELSE updaterc
      /\ UNCHANGED <<installed, installs, kills, finished, troubled>>
  BY DEF RecordFile, AtEnd
<1>2. /\ t \in KonfUpdate /\ ProcessOk(t, finished, troubled, installed, installs)
      /\ f \in Names
  BY <1>1, AtLineFacts, ReadingFile
<1>3. installed[f].mtime \in Nat /\ installed[f].mtime <= installs
  BY <1>2 DEF UpdateInv, TypeOK, FilesOk
<1>4. /\ updaterc' \in Done
      /\ \A g \in Names : updaterc'[g].done = updaterc[g].done
      /\ \A g \in Names : updaterc'[g].mtime \in {updaterc[g].mtime, installed[f].mtime}
  BY <1>1, <1>2, <1>3 DEF UpdateInv, TypeOK, Done
<1>5. t.config \in Done
  BY <1>2 DEF KonfUpdate
<1>6. [t.config EXCEPT ![f].mtime = installed[f].mtime] \in Done
  BY <1>2, <1>3, <1>5 DEF Done
<1>7. /\ u \in KonfUpdate /\ u.m_id = t.m_id /\ u.m_currentFilename = f /\ u.todo = t.todo
      /\ u.group = t.group /\ \A g \in Names : u.config[g].done = t.config[g].done
  BY <1>2, <1>5, <1>6 DEF KonfUpdate, Done
<1> HIDE DEF u
<1>8. \A g \in Names : DoneOk(finished, g, u.config[g].done)
  BY <1>2, <1>7 DEF ProcessOk
<1>9. IdIsOld(u)
  BY <1>2, <1>7 DEF ProcessOk, IdIsOld, Reading
<1>10. CloseFile(u) = Off \/ ProcessOk(CloseFile(u), finished, troubled, installed, installs)
  BY <1>7, <1>8, <1>9, CloseOk
<1>11. CloseFile(u) \in {Off} \cup KonfUpdate
  BY <1>7, CloseType
<1>12. \A g \in Names : DoneOk(finished', g, updaterc'[g].done) /\ updaterc'[g].mtime <= installs
  BY <1>1, <1>3, <1>4 DEF UpdateInv, FilesOk
<1>13. QED
  BY <1>1, <1>4, <1>10, <1>11, <1>12, AtLineFacts, StepKeeps

LEMMA InstallOk ==
    ASSUME UpdateInv, NEW f \in Names, NEW content \in Contents[f], Install(f, content)
    PROVE  UpdateInv'
<1>1. /\ installs' = installs + 1 /\ installs \in Nat
      /\ installed' = [installed EXCEPT ![f] = [lines |-> content, mtime |-> installs + 1]]
      /\ UNCHANGED <<updaterc, tool, kills, finished, troubled>>
  BY DEF Install, UpdateInv, TypeOK
<1>2. content \in Seq(Line)
  BY ContentType
<1>3. TypeOK'
  BY <1>1, <1>2 DEF UpdateInv, TypeOK
<1>4. \A g \in Names : installed'[g] = IF g = f THEN [lines |-> content, mtime |-> installs + 1]
                                      ELSE installed[g]
  BY <1>1 DEF UpdateInv, TypeOK
<1>5. FilesOk'
  <2>1. \A g \in Names : installed[g].mtime \in Nat /\ updaterc[g].mtime \in Nat
    BY DEF UpdateInv, TypeOK, Done
  <2>2. QED
    BY <1>1, <1>4, <2>1 DEF UpdateInv, FilesOk
<1>6. ASSUME NEW p \in Procs, Running(p)
      PROVE  ProcessOk(tool[p], finished, troubled, installed', installs')
  <2> DEFINE t == tool[p]
  <2>1. t \in KonfUpdate /\ ProcessOk(t, finished, troubled, installed, installs)
    BY <1>6, AtLineFacts
  <2>2. t.opened \in Nat /\ (Reading(t) => t.m_currentFilename \in Names)
    BY <2>1, ReadingFile DEF KonfUpdate
  <2> HIDE DEF t
  <2>3. Reading(t) => t.opened <= installs' /\ t.opened # installs + 1
    BY <1>1, <2>1, <2>2 DEF ProcessOk
  <2>4. ASSUME Reading(t)
        PROVE  \A C \in Contents[t.m_currentFilename] :
                  (installed[t.m_currentFilename].mtime = t.opened
                     => installed[t.m_currentFilename].lines = C)
                  => (installed'[t.m_currentFilename].mtime = t.opened
                        => installed'[t.m_currentFilename].lines = C)
    BY <1>4, <2>2, <2>3, <2>4
  <2>5. QED
    BY <2>1, <2>3, <2>4 DEF ProcessOk, t
<1>7. ProcessesOk'
  BY <1>1, <1>6 DEF ProcessesOk, Running
<1>8. QED
  BY <1>3, <1>5, <1>7 DEF UpdateInv

LEMMA KillOk ==
    ASSUME UpdateInv, NEW p \in Procs, Kill(p)
    PROVE  UpdateInv'
<1>1. /\ SetTool(p, Off) /\ kills' = kills + 1
      /\ UNCHANGED <<installed, updaterc, installs, finished, troubled, overtaken>>
  BY DEF Kill
<1>2. /\ kills' \in Nat /\ updaterc' \in Done
      /\ \A f \in Names : DoneOk(finished', f, updaterc'[f].done) /\ updaterc'[f].mtime <= installs
  BY <1>1 DEF UpdateInv, TypeOK, FilesOk
<1>3. QED
  BY <1>1, <1>2, StepKeeps

-----------------------------------------------------------------------------
(* Only what has been done is recorded as done *)

LEMMA UpdateInvInit ==
    ASSUME UpdateInit
    PROVE  UpdateInv
<1>1. <<>> \in Seq(Line)
  OBVIOUS
<1>2. TypeOK
  BY <1>1 DEF UpdateInit, TypeOK, Done
<1>3. FilesOk
  BY DEF UpdateInit, FilesOk, DoneOk
<1>4. ProcessesOk
  BY DEF UpdateInit, ProcessesOk, Running, Off
<1>5. QED
  BY <1>2, <1>3, <1>4 DEF UpdateInv

LEMMA UpdateInvNext ==
    ASSUME OwnIds, OnceEach, UpdateInv, [UpdateNext]_updateVars
    PROVE  UpdateInv'
<1>1. ASSUME NEW p \in Sessions, Login(p)
      PROVE  UpdateInv'
  BY <1>1, StartOk DEF Login, FindUpdateFiles, Procs
<1>2. ASSUME NEW p \in Helpers, CommandLine(p)
      PROVE  UpdateInv'
  BY <1>2, StartOk DEF CommandLine, Procs
<1>3. ASSUME NEW p \in Procs, Step(p)
      PROVE  UpdateInv'
  BY <1>3, OpenFileOk, ReadVersionOk, ReadIdOk, SkipScriptOk, RunScriptOk, FlushOk, RecordFileOk
     DEF Step
<1>4. ASSUME NEW p \in Procs, Kill(p)
      PROVE  UpdateInv'
  BY <1>4, KillOk
<1>5. ASSUME NEW f \in Names, NEW content \in Contents[f], Install(f, content)
      PROVE  UpdateInv'
  BY <1>5, InstallOk
<1>6. CASE UNCHANGED updateVars
  BY <1>6 DEF updateVars, history, UpdateInv, TypeOK, FilesOk, ProcessesOk, Running
<1>7. QED
  BY <1>1, <1>2, <1>3, <1>4, <1>5, <1>6 DEF UpdateNext

\* A group that kconf_updaterc counts as done was run, as DoneWasRun says.
LEMMA InvDoneWasRun ==
    ASSUME UpdateInv
    PROVE  DoneWasRun
BY DEF UpdateInv, FilesOk, DoneOk, Ran, DoneWasRun, AllFinished

\* Only what has been done is recorded as done, if no two files share an id and no file has one
\* twice: for any files, upgrades, processes, modes and crashes.
THEOREM DoneAlwaysRun == OwnIds /\ OnceEach => (UpdateSpec => []DoneWasRun)
<1>1. ASSUME OwnIds, OnceEach
      PROVE  UpdateSpec => []DoneWasRun
  <2>1. UpdateInit => UpdateInv
    BY UpdateInvInit
  <2>2. UpdateInv /\ [UpdateNext]_updateVars => UpdateInv'
    BY <1>1, UpdateInvNext
  <2>3. UpdateInv => DoneWasRun
    BY InvDoneWasRun
  <2>4. QED
    BY <2>1, <2>2, <2>3, PTL DEF UpdateSpec
<1>2. QED
  BY <1>1

-----------------------------------------------------------------------------
(* No update is forgotten *)

\* Where the file ends, its groups have been run or had trouble: a group that was skipped because
\* it was done ran then, and has the same scripts now.
LEMMA ReadAll ==
    ASSUME Stable, NEW f \in Names, NEW C \in Contents[f], NEW t, NEW fin, NEW tro,
           t.m_currentFilename = f, t.lines = <<>>, Reads(t, C, fin, tro),
           DoneOk(fin, f, t.config[f].done), NEW id \in IdsOf(C)
    PROVE  Ran(fin, f, C, id) \/ <<f, id>> \in tro
<1>1. C \in Seq(Line)
  BY ContentType
<1>2. PICK n \in 0 .. Len(C) :
        /\ ReadTo(t, C, n) /\ KnowsGroup(t, C, n, tro)
        /\ Handled(t, C, n, fin, tro) /\ GroupRuns(t, C, n, fin)
  BY DEF Reads, GivenUp
<1>3. n = Len(C)
  BY <1>1, <1>2, NextIs
<1>4. /\ IdLines(C) \subseteq 1 .. Len(C) /\ ScriptLines(C) \subseteq 1 .. Len(C)
      /\ IdLines(C) \cap ScriptLines(C) = {} /\ Len(C) \in Nat
  BY <1>1, LineTypes
<1>5. CASE id \in t.config[f].done
  <2>1. PICK B \in Contents[f] : id \in IdsOf(B) /\ Ran(fin, f, B, id)
    BY <1>5 DEF DoneOk
  <2>2. ScriptsOf(C, id) = ScriptsOf(B, id)
    BY <2>1 DEF Stable
  <2>3. QED
    BY <2>1, <2>2 DEF Ran
<1>6. CASE id \notin t.config[f].done /\ <<f, id>> \notin tro
  <2>1. ASSUME NEW s \in ScriptsOf(C, id)
        PROVE  <<f, id, s>> \in fin
    <3>1. PICK j \in ScriptLines(C), k \in IdLines(C) :
            /\ s = C[j].script /\ C[k].id = id /\ k < j
            /\ \A i \in IdLines(C) : ~(k < i /\ i < j)
      BY <2>1 DEF ScriptsOf, ScriptLines, IdLines
    <3>2. LastId(C, k, j) /\ j <= n
      BY <1>3, <1>4, <3>1 DEF LastId
    <3>3. QED
      BY <1>2, <1>6, <3>1, <3>2 DEF Handled, WasRun
  <2>2. QED
    BY <2>1 DEF Ran
<1>7. QED
  BY <1>5, <1>6

\* What kconf_updaterc has of the times stays, and so does what is done.
LEMMA NoneForgotten ==
    ASSUME NothingForgotten, UNCHANGED <<installed, overtaken>>,
           finished \subseteq finished', troubled \subseteq troubled',
           \A f \in Names : updaterc'[f].mtime = updaterc[f].mtime
    PROVE  NothingForgotten'
BY DEF NothingForgotten, AllFinished

LEMMA SyncDoneTimes ==
    ASSUME UpdateInv, NEW t, SyncDone(t)
    PROVE  \A f \in Names : updaterc'[f].mtime = updaterc[f].mtime
BY DEF UpdateInv, TypeOK, Done, SyncDone

LEMMA RecordFileForgetsNone ==
    ASSUME Stable, UpdateInv, NothingForgotten, NEW p \in Procs, RecordFile(p)
    PROVE  NothingForgotten'
<1> DEFINE t == tool[p]
           f == t.m_currentFilename
<1>1. /\ Running(p) /\ Reading(t) /\ t.lines = <<>>
      /\ updaterc' = IF t.mode # "test" THEN [updaterc EXCEPT ![f].mtime = installed[f].mtime]
                     ELSE updaterc
      /\ UNCHANGED <<installed, installs, kills, finished, troubled>>
  BY DEF RecordFile, AtEnd
<1>2. /\ t \in KonfUpdate /\ ProcessOk(t, finished, troubled, installed, installs)
      /\ f \in Names
  BY <1>1, AtLineFacts, ReadingFile
<1>3. /\ t.mode = "test" => overtaken' = overtaken
      /\ t.mode # "test" /\ installed[f].mtime = t.opened => overtaken' = overtaken \ {f}
      /\ t.mode # "test" /\ installed[f].mtime # t.opened => overtaken' = overtaken \cup {f}
  BY DEF RecordFile
<1>4. CASE t.mode = "test"
  BY <1>1, <1>3, <1>4, NoneForgotten
<1>5. CASE t.mode # "test"
  <2>1. \A g \in Names \ {f} : updaterc'[g] = updaterc[g] /\ (g \in overtaken => g \in overtaken')
    BY <1>1, <1>2, <1>3, <1>5 DEF UpdateInv, TypeOK, Done
  <2>2. ASSUME f \notin overtaken', NEW id \in IdsOf(installed[f].lines)
        PROVE  AllFinished(f, installed[f].lines, id) \/ <<f, id>> \in troubled
    <3>1. installed[f].mtime = t.opened
      BY <1>3, <1>5, <2>2
    <3>2. PICK C \in Contents[f] : installed[f].lines = C /\ Reads(t, C, finished, troubled)
      BY <1>1, <1>2, <3>1 DEF ProcessOk
    <3>3. DoneOk(finished, f, t.config[f].done)
      BY <1>2 DEF ProcessOk
    <3>4. Ran(finished, f, C, id) \/ <<f, id>> \in troubled
      BY <1>1, <1>2, <2>2, <3>2, <3>3, ReadAll
    <3>5. QED
      BY <3>2, <3>4 DEF Ran, AllFinished
  <2>3. QED
    BY <1>1, <1>2, <2>1, <2>2 DEF NothingForgotten, AllFinished
<1>6. QED
  BY <1>4, <1>5

LEMMA InstallForgetsNone ==
    ASSUME UpdateInv, NothingForgotten, NEW f \in Names, NEW content \in Contents[f],
           Install(f, content)
    PROVE  NothingForgotten'
<1>1. /\ installed' = [installed EXCEPT ![f] = [lines |-> content, mtime |-> installs + 1]]
      /\ overtaken' = overtaken \ {f} /\ UNCHANGED <<updaterc, finished, troubled>>
  BY DEF Install
<1>2. \A g \in Names : updaterc[g].mtime \in Nat /\ updaterc[g].mtime <= installs
  BY DEF UpdateInv, TypeOK, FilesOk, Done
<1>3. \A g \in Names : installed'[g] = IF g = f THEN [lines |-> content, mtime |-> installs + 1]
                                      ELSE installed[g]
  BY <1>1 DEF UpdateInv, TypeOK
<1>4. updaterc'[f].mtime # installed'[f].mtime
  BY <1>1, <1>2, <1>3 DEF UpdateInv, TypeOK
<1>5. QED
  BY <1>1, <1>3, <1>4 DEF NothingForgotten, AllFinished

LEMMA StepForgetsNone ==
    ASSUME Stable, UpdateInv, NothingForgotten, [UpdateNext]_updateVars
    PROVE  NothingForgotten'
<1>1. ASSUME NEW p \in Procs, NEW mode, NEW todo, Start(p, mode, todo)
      PROVE  NothingForgotten'
  BY <1>1, NoneForgotten DEF Start, history
<1>2. ASSUME NEW p \in Procs, OpenFile(p) \/ ReadVersion(p) \/ SkipScript(p)
      PROVE  NothingForgotten'
  BY <1>2, NoneForgotten DEF OpenFile, ReadVersion, SkipScript, history
<1>3. ASSUME NEW p \in Procs, ReadId(p) \/ Flush(p)
      PROVE  NothingForgotten'
  <2>1. UNCHANGED <<installed, history>> /\ (SyncDone(tool[p]) \/ UNCHANGED updaterc)
    BY <1>3 DEF ReadId, Flush
  <2>2. QED
    BY <2>1, SyncDoneTimes, NoneForgotten DEF history
<1>4. ASSUME NEW p \in Procs, NEW outcome \in Outcomes, RunScript(p, outcome)
      PROVE  NothingForgotten'
  <2>1. /\ UNCHANGED <<installed, updaterc, overtaken>>
        /\ finished \subseteq finished' /\ troubled \subseteq troubled'
    BY <1>4 DEF RunScript
  <2>2. QED
    BY <2>1, NoneForgotten
<1>5. ASSUME NEW p \in Procs, Kill(p)
      PROVE  NothingForgotten'
  BY <1>5, NoneForgotten DEF Kill
<1>6. CASE UNCHANGED updateVars
  BY <1>6, NoneForgotten DEF updateVars, history
<1>7. ASSUME NEW p \in Procs, Step(p)
      PROVE  NothingForgotten'
  BY <1>2, <1>3, <1>4, <1>7, RecordFileForgetsNone DEF Step
<1>8. ASSUME NEW p \in Procs, Login(p) \/ CommandLine(p)
      PROVE  NothingForgotten'
  BY <1>1, <1>8 DEF Login, CommandLine
<1>9. QED
  BY <1>5, <1>6, <1>7, <1>8, InstallForgetsNone DEF UpdateNext, Procs

\* A file that the next login leaves alone has nothing left to do, but for what had trouble and
\* what came while the file was gone through.
THEOREM NothingEverForgotten ==
    OwnIds /\ OnceEach /\ Stable => (UpdateSpec => []NothingForgotten)
<1>1. ASSUME OwnIds, OnceEach, Stable
      PROVE  UpdateSpec => []NothingForgotten
  <2>1. UpdateInit => UpdateInv /\ NothingForgotten
    BY UpdateInvInit DEF UpdateInit, NothingForgotten
  <2>2. UpdateInv /\ NothingForgotten /\ [UpdateNext]_updateVars => UpdateInv' /\ NothingForgotten'
    BY <1>1, UpdateInvNext, StepForgetsNone
  <2>3. QED
    BY <2>1, <2>2, PTL DEF UpdateSpec
<1>2. QED
  BY <1>1
=============================================================================
