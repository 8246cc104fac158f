------------------------ MODULE KSharedConfigProofs ------------------------
(***************************************************************************)
(* Proofs about the objects and watchers of a program: about               *)
(* KSharedConfig, for any number of threads, objects and watchers, and     *)
(* about KWatcher, for any number of programs, shortcuts and saves and     *)
(* whatever fails.                                                         *)
(*                                                                         *)
(* In KSharedConfig an object in the list of the thread that opened it     *)
(* leaves it when it is freed there.  So what is in a list is the thread's *)
(* own, or another thread has freed it (Listed), and what is not in it is  *)
(* from before the test mode (Modes).                                      *)
(* In KWatcher a shortcut that is read is as fresh as the entry it is read *)
(* from.  So the invariant says of the entries of each program what        *)
(* StaleIsTold says of its table (EntriesTold).                            *)
(***************************************************************************)
EXTENDS KSharedConfig, KWatcher, TLAPS

-----------------------------------------------------------------------------
(* KSharedConfig: types *)

TypeOK ==
    /\ setup \in Setups
    /\ dangling \in SUBSET (Threads \X Objects) /\ broken \in BOOLEAN
    /\ opened \in [Objects -> Config \cup {None}]
    /\ held \in [Threads -> SUBSET Objects]
    /\ configList \in [Threads -> SUBSET Objects]
    /\ mainConfig \in [Threads -> Objects \cup {None}]
    /\ wasTestModeEnabled \in [Threads -> BOOLEAN]
    /\ isTestModeEnabled \in BOOLEAN
    /\ watching \in [Watchers -> Objects \cup {None}]
    /\ user \in [Watchers -> Threads \cup {None}]
    /\ watcherList \in [Threads -> [Objects -> Watchers \cup {None, "dead"}]]
    /\ queue \in Seq(Objects)

\* A thread that stops using a watcher, or an object, leaves lists of objects behind.
LEMMA ForgetType ==
    ASSUME TypeOK, NEW t \in Threads, NEW refs, Forget(t, refs)
    PROVE  /\ opened' \in [Objects -> Config \cup {None}]
           /\ configList' \in [Threads -> SUBSET Objects]
           /\ dangling' \in SUBSET (Threads \X Objects)
<1>1. opened' \in [Objects -> Config \cup {None}] /\ configList' \in [Threads -> SUBSET Objects]
  BY DEF TypeOK, Forget
<1>2. dangling' \in SUBSET (Threads \X Objects)
  BY DEF Forget, LeftBehind
<1>3. QED
  BY <1>1, <1>2

\* Opening a file keeps the types.
LEMMA OpenConfigType ==
    ASSUME TypeOK, NEW t \in Threads, NEW fileName \in FileNames, NEW flags \in Flags,
           OpenConfig(t, fileName, flags), UNCHANGED setup
    PROVE  TypeOK'
<1> DEFINE config == [name |-> FileName(fileName, flags), flags |-> flags,
                      test |-> isTestModeEnabled, thread |-> t]
           list == IF SeesTestMode(t) THEN {} ELSE configList[t]
           former == IF SeesTestMode(t) THEN None ELSE mainConfig[t]
           kept == Referenced(held, [mainConfig EXCEPT ![t] = former], watching)
<1>1. config \in Config /\ list \in SUBSET Objects /\ former \in Objects \cup {None}
  BY DEF TypeOK, FileName, FileNames, Config
<1>2. /\ wasTestModeEnabled' \in [Threads -> BOOLEAN]
      /\ UNCHANGED <<isTestModeEnabled, watchers>>
  BY Zenon DEF TypeOK, OpenConfig
<1>3. setup.objects \subseteq Objects
  BY SharedAssumption DEF TypeOK, Setup
<1>4. \/ FollowsDangling(list)
      \/ \E o \in Objects : Found(t, o)
      \/ \E o \in Objects, main \in Objects \cup {None} :
            NewConfig(t, o, config, kept, list, main)
  BY <1>1, <1>3 DEF OpenConfig, Matches
<1> HIDE DEF config, list, former, kept
<1>5. CASE FollowsDangling(list)
  BY <1>2, <1>5 DEF TypeOK, FollowsDangling, watchers
<1>6. CASE \E o \in Objects : Found(t, o)
  BY <1>2, <1>6 DEF TypeOK, Found, watchers, undefined
<1>7. CASE \E o \in Objects, main \in Objects \cup {None} :
              NewConfig(t, o, config, kept, list, main)
  <2>1. PICK o \in Objects, main \in Objects \cup {None} :
            NewConfig(t, o, config, kept, list, main)
    BY <1>7
  <2>2. dangling' \in SUBSET (Threads \X Objects) /\ broken' \in BOOLEAN
    BY <2>1, Zenon DEF NewConfig, LeftBehind, TypeOK
  <2>3. QED
    BY <1>1, <1>2, <2>1, <2>2 DEF TypeOK, NewConfig, watchers
<1>8. QED
  BY <1>4, <1>5, <1>6, <1>7

\* A watcher is of use to somebody as long as it has an object.
UserWatches == \A w \in Watchers : watching[w] = None <=> user[w] = None

\* A list of watchers stays one when a watcher, or none, is put into it.
LEMMA ListType ==
    ASSUME NEW list \in [Threads -> [Objects -> Watchers \cup {None, "dead"}]],
           NEW t \in Threads, NEW o \in Objects, NEW v \in Watchers \cup {None, "dead"}
    PROVE  [list EXCEPT ![t][o] = v] \in [Threads -> [Objects -> Watchers \cup {None, "dead"}]]
OBVIOUS

\* So do the calls about watchers.
LEMMA WatcherType ==
    ASSUME TypeOK, UserWatches, NEW t \in Threads,
           \/ \E o \in Objects : CreateWatcher(t, o)
           \/ \E w \in Watchers : DropWatcher(t, w),
           UNCHANGED setup
    PROVE  TypeOK'
<1>1. ASSUME NEW o \in Objects, CreateWatcher(t, o) PROVE TypeOK'
  <2>1. CASE watcherList[t][o] = None
    <3>1. PICK w \in Watchers :
              /\ watching' = [watching EXCEPT ![w] = o]
              /\ user' = [user EXCEPT ![w] = t]
              /\ watcherList' = [watcherList EXCEPT ![t][o] = w]
      BY <1>1, <2>1 DEF CreateWatcher
    <3>2. watcherList' \in [Threads -> [Objects -> Watchers \cup {None, "dead"}]]
      BY <3>1, ListType DEF TypeOK
    <3>3. QED
      BY <1>1, <3>1, <3>2 DEF TypeOK, CreateWatcher, threadGlobals, undefined
  <2>2. CASE watcherList[t][o] # None
    BY <1>1, <2>2 DEF TypeOK, CreateWatcher, threadGlobals, undefined
  <2>3. QED
    BY <2>1, <2>2
<1>2. ASSUME NEW w \in Watchers, DropWatcher(t, w) PROVE TypeOK'
  <2>1. /\ user' \in [Watchers -> Threads \cup {None}]
        /\ watching' \in [Watchers -> Objects \cup {None}]
        /\ UNCHANGED <<held, mainConfig, wasTestModeEnabled, isTestModeEnabled, broken>>
    BY <1>2 DEF TypeOK, DropWatcher
  <2>2. /\ opened' \in [Objects -> Config \cup {None}]
        /\ configList' \in [Threads -> SUBSET Objects]
        /\ dangling' \in SUBSET (Threads \X Objects)
    BY <1>2, ForgetType DEF DropWatcher, TypeOK
  <2>3. Dead(watcherList, w) \in [Threads -> [Objects -> Watchers \cup {None, "dead"}]]
    BY DEF TypeOK, Dead
  <2>4. watching[w] \in Objects
    BY <1>2, SharedAssumption DEF DropWatcher, TypeOK, UserWatches
  <2>5. /\ watcherList' \in [Threads -> [Objects -> Watchers \cup {None, "dead"}]]
        /\ queue' \in Seq(Objects)
    <3>1. Destroyed(t, w)
      BY <1>2 DEF DropWatcher
    <3>2. CASE t = MainThread
      <4>1. /\ watcherList' = [Dead(watcherList, w) EXCEPT ![t][watching[w]] = None]
            /\ queue' = queue
        BY <3>1, <3>2 DEF Destroyed
      <4>2. QED
        BY <2>3, <2>4, <4>1, ListType DEF TypeOK
    <3>3. CASE t # MainThread
      <4>1. watcherList' = Dead(watcherList, w) /\ queue' = Append(queue, watching[w])
        BY <3>1, <3>3 DEF Destroyed
      <4>2. QED
        BY <2>3, <2>4, <4>1 DEF TypeOK
    <3>4. QED
      BY <3>2, <3>3
  <2>6. QED
    BY <2>1, <2>2, <2>5 DEF TypeOK
<1>3. QED
  BY <1>1, <1>2

LEMMA WatcherUsers ==
    ASSUME TypeOK, UserWatches, [Next]_vars
    PROVE  UserWatches'
<1>1. ASSUME NEW t \in Threads, NEW o \in Objects, CreateWatcher(t, o) PROVE UserWatches'
  <2>1. o # None /\ t # None
    BY SharedAssumption
  <2>2. QED
    BY <1>1, <2>1 DEF TypeOK, CreateWatcher, UserWatches
<1>2. ASSUME NEW t \in Threads, NEW w \in Watchers, DropWatcher(t, w) PROVE UserWatches'
  BY <1>2 DEF TypeOK, DropWatcher, UserWatches
<1>3. CASE UNCHANGED <<watching, user>>
  BY <1>3 DEF UserWatches
<1>4. QED
  BY <1>1, <1>2, <1>3
     DEF Next, Calls, vars, watchers, OpenConfig, Release, Hand, ThreadExit, RemoveQueued,
         SetTestModeEnabled

\* The state keeps its type, and the watchers their users.
LEMMA TypeCorrect == Spec => [](TypeOK /\ UserWatches)
<1>1. Init => TypeOK /\ UserWatches
  <2>1. Init => wasTestModeEnabled \in [Threads -> BOOLEAN]
    BY Zenon DEF Init
  <2>2. Init => queue = <<>> /\ isTestModeEnabled = FALSE /\ dangling = {} /\ broken = FALSE
    BY Zenon DEF Init
  <2>3. Init => /\ setup \in Setups
                /\ opened \in [Objects -> Config \cup {None}]
                /\ mainConfig \in [Threads -> Objects \cup {None}]
                /\ watcherList \in [Threads -> [Objects -> Watchers \cup {None, "dead"}]]
                /\ held \in [Threads -> SUBSET Objects]
                /\ configList \in [Threads -> SUBSET Objects]
    BY DEF Init
  <2>4. Init => /\ watching \in [Watchers -> Objects \cup {None}]
                /\ user \in [Watchers -> Threads \cup {None}]
                /\ UserWatches
    BY DEF Init, UserWatches
  <2>5. <<>> \in Seq(Objects) /\ FALSE \in BOOLEAN
    OBVIOUS
  <2>6. QED
    BY <2>1, <2>2, <2>3, <2>4, <2>5, Zenon DEF TypeOK
<1>2. ASSUME TypeOK, UserWatches, [Next]_vars PROVE TypeOK'
  <2> setup' \in Setups
    BY <1>2 DEF Next, vars, TypeOK
  <2>1. ASSUME NEW t \in Threads, NEW o \in Objects, Release(t, o) PROVE TypeOK'
    <3>1. /\ opened' \in [Objects -> Config \cup {None}]
          /\ configList' \in [Threads -> SUBSET Objects]
          /\ dangling' \in SUBSET (Threads \X Objects)
      BY <1>2, <2>1, ForgetType DEF Release
    <3>2. QED
      BY <1>2, <2>1, <3>1 DEF Release, TypeOK, watchers
  <2>2. ASSUME NEW t \in Threads, ThreadExit(t) PROVE TypeOK'
    <3>1. /\ opened' \in [Objects -> Config \cup {None}]
          /\ configList' \in [Threads -> SUBSET Objects]
      <4>1. \A o \in Objects : Orphaned(t, o) \in Config \cup {None}
        <5> SUFFICES ASSUME NEW o \in Objects, opened[o] # None
                     PROVE  [opened[o] EXCEPT !.thread = None] \in Config
          BY <1>2 DEF Orphaned, TypeOK
        <5>1. opened[o] \in Config
          BY <1>2 DEF TypeOK
        <5>2. QED
          BY <5>1 DEF Config
      <4>2. QED
        BY <1>2, <2>2, <4>1 DEF ThreadExit, TypeOK
    <3>2. dangling' \in SUBSET (Threads \X Objects)
      BY <2>2 DEF ThreadExit, LeftBehind
    <3>3. QED
      BY <1>2, <2>2, <3>1, <3>2 DEF ThreadExit, TypeOK
  <2>3. ASSUME RemoveQueued PROVE TypeOK'
    BY <1>2, <2>3, SharedAssumption DEF RemoveQueued, TypeOK, threadGlobals, undefined
  <2>4. CASE SetTestModeEnabled
    BY <1>2, <2>4 DEF SetTestModeEnabled, TypeOK, threadGlobals, watchers, undefined
  <2>5. CASE UNCHANGED vars
    BY <1>2, <2>5 DEF vars, TypeOK, threadGlobals, watchers, undefined
  <2>6. ASSUME NEW t \in Threads, NEW u \in Threads, NEW o \in Objects, Hand(t, u, o)
        PROVE  TypeOK'
    BY <1>2, <2>6 DEF Hand, TypeOK, threadGlobals, watchers, undefined
  <2>7. UNCHANGED setup
    BY <1>2 DEF Next, vars
  <2>8. QED
    BY <1>2, <2>1, <2>2, <2>3, <2>4, <2>5, <2>6, <2>7, OpenConfigType, WatcherType
       DEF Next, Calls
<1>3. QED
  BY <1>1, <1>2, WatcherUsers, PTL DEF Spec

-----------------------------------------------------------------------------
(* The list of a thread *)

\* What is referred to is there, and nothing else is.
ReferencesLive == Referenced(held, mainConfig, watching) \ {None} = Live

\* The main config can be found in the list.
MainListed(t) ==
    mainConfig[t] # None =>
        /\ mainConfig[t] \in configList[t] \cap OwnOf(t)
        /\ opened[mainConfig[t]].name = MainName /\ opened[mainConfig[t]].flags = "FullConfig"

\* What the thread has opened is in its list when it was opened in the mode the thread knows of.
\* Else it was opened before the thread saw the test mode.
Modes(t) ==
    /\ wasTestModeEnabled[t] => isTestModeEnabled
    /\ \A o \in OwnOf(t) :
          IF o \in configList[t] THEN opened[o].test = wasTestModeEnabled[t]
                                 ELSE wasTestModeEnabled[t] /\ ~opened[o].test

\* What is in the list is there and the thread's own, or another thread has freed it.
Listed(t) == \A o \in configList[t] : o \in OwnOf(t) \/ <<t, o>> \in dangling

Unique(t) == \A o, p \in OwnOf(t) : opened[o] = opened[p] => o = p

ThreadInv(t) == MainListed(t) /\ Modes(t) /\ Listed(t) /\ Unique(t)

ListInv == ReferencesLive /\ (broken => dangling # {}) /\ \A t \in Threads : ThreadInv(t)

LEMMA InReferences ==
    ASSUME NEW h, NEW m, NEW w, NEW o
    PROVE  o \in Referenced(h, m, w) <=>
               \/ \E t \in Threads : o \in h[t]
               \/ \E t \in Threads : o = m[t]
               \/ \E v \in Watchers : o = w[v]
<1> DEFINE H == UNION {h[t] : t \in Threads}
           M == {m[t] : t \in Threads}
           W == {w[v] : v \in Watchers}
<1>1. o \in H <=> \E t \in Threads : o \in h[t]
  OBVIOUS
<1>2. o \in M <=> \E t \in Threads : o = m[t]
  OBVIOUS
<1>3. o \in W <=> \E v \in Watchers : o = w[v]
  OBVIOUS
<1>4. Referenced(h, m, w) = H \cup M \cup W
  BY Zenon DEF Referenced
<1> HIDE DEF H, M, W
<1>5. QED
  BY <1>1, <1>2, <1>3, <1>4

\* What the same threads and watchers refer to in other maps is referred to in those.
LEMMA StaysReferenced ==
    ASSUME NEW h, NEW m, NEW w, NEW h2, NEW m2, NEW w2, NEW p \in Referenced(h2, m2, w2),
           \A t \in Threads : p \in h2[t] => p \in h[t],
           \A t \in Threads : p = m2[t] => p = m[t],
           \A v \in Watchers : p = w2[v] => p = w[v]
    PROVE  p \in Referenced(h, m, w)
<1>1. \/ \E t \in Threads : p \in h2[t]
      \/ \E t \in Threads : p = m2[t]
      \/ \E v \in Watchers : p = w2[v]
  BY InReferences
<1>2. \/ \E t \in Threads : p \in h[t]
      \/ \E t \in Threads : p = m[t]
      \/ \E v \in Watchers : p = w[v]
  BY <1>1
<1>3. QED
  BY <1>2, InReferences

\* Entries of lists are left behind by those that free objects of another thread.
LEMMA InLeftBehind ==
    ASSUME NEW t, NEW lists \in [Threads -> SUBSET Objects], NEW refs, NEW u \in Threads,
           NEW o \in lists[u], (u # t /\ o \in OwnOf(u) \ refs) \/ <<u, o>> \in dangling
    PROVE  <<u, o>> \in LeftBehind(t, lists, refs)
BY DEF LeftBehind, OwnOf, Live, Freed

\* A step that leaves a thread what it has opened, or frees some of it, keeps its part of the
\* invariant when its list shrinks with that or another thread has freed it.
LEMMA ShrinkKeeps ==
    ASSUME NEW t \in Threads, ThreadInv(t), UNCHANGED isTestModeEnabled,
           wasTestModeEnabled'[t] = wasTestModeEnabled[t],
           mainConfig'[t] = mainConfig[t],
           mainConfig[t] # None => mainConfig[t] \in OwnOf(t)',
           OwnOf(t)' \subseteq OwnOf(t),
           \A o \in OwnOf(t)' : /\ opened'[o] = opened[o]
                                /\ o \in configList'[t] <=> o \in configList[t],
           \A o \in configList'[t] : o \in OwnOf(t)' \/ <<t, o>> \in dangling'
    PROVE  ThreadInv(t)'
<1> HIDE DEF OwnOf
<1>1. MainListed(t)'
  BY DEF ThreadInv, MainListed
<1>2. Modes(t)'
  BY DEF ThreadInv, Modes
<1>3. Listed(t)'
  BY DEF Listed
<1>4. Unique(t)'
  BY DEF ThreadInv, Unique
<1>5. QED
  BY <1>1, <1>2, <1>3, <1>4 DEF ThreadInv

\* The main config is a reference.
LEMMA MainReferenced ==
    ASSUME TypeOK, ListInv, NEW t \in Threads, mainConfig[t] # None
    PROVE  /\ mainConfig[t] \in OwnOf(t)
           /\ \A h, w : mainConfig[t] \in Referenced(h, mainConfig, w)
<1>1. mainConfig[t] \in OwnOf(t)
  BY DEF ListInv, ThreadInv, MainListed
<1>2. \A h, w : mainConfig[t] \in Referenced(h, mainConfig, w)
  BY InReferences
<1>3. QED
  BY <1>1, <1>2

\* When a thread gives up references, what leaves its list is what it frees.
LEMMA ForgetKeeps ==
    ASSUME TypeOK, TypeOK', ListInv, ~broken, NEW t \in Threads,
           Referenced(held', mainConfig', watching') \ {None}
               \subseteq Referenced(held, mainConfig, watching),
           Forget(t, Referenced(held', mainConfig', watching')),
           UNCHANGED <<mainConfig, wasTestModeEnabled, isTestModeEnabled, broken>>
    PROVE  ListInv'
<1> DEFINE refs == Referenced(held', mainConfig', watching')
<1>1. /\ opened' = [o \in Objects |-> IF o \in refs THEN opened[o] ELSE None]
      /\ configList' = [configList EXCEPT ![t] = @ \ Freed(refs)]
      /\ dangling' = LeftBehind(t, configList', refs)
  BY DEF Forget
<1>2. ASSUME NEW u \in Threads, mainConfig[u] # None
      PROVE  mainConfig[u] \in OwnOf(u) /\ mainConfig[u] \in refs
  <2>1. mainConfig[u] \in Referenced(held', mainConfig, watching')
    BY <1>2, MainReferenced
  <2>2. QED
    BY <1>2, <2>1, MainReferenced
<1>3. refs \ {None} \subseteq Live
  BY DEF ListInv, ReferencesLive
<1> HIDE DEF refs
<1>4. ReferencesLive'
  <2>1. \A o \in refs \ {None} : o \in Live'
    BY <1>1, <1>3 DEF Live
  <2>2. \A o \in Live' : o \in refs \ {None}
    BY <1>1, SharedAssumption DEF Live
  <2>3. QED
    BY <2>1, <2>2 DEF ReferencesLive, refs
<1>5. \A u \in Threads : ThreadInv(u)'
  <2> SUFFICES ASSUME NEW u \in Threads PROVE ThreadInv(u)'
    OBVIOUS
  <2>1. /\ OwnOf(u)' = OwnOf(u) \cap refs
        /\ \A o \in OwnOf(u)' : opened'[o] = opened[o]
    BY <1>1 DEF OwnOf, Live
  <2>2. configList'[u] = IF u = t THEN configList[u] \ Freed(refs) ELSE configList[u]
    BY <1>1 DEF TypeOK
  <2>3. \A o \in OwnOf(u)' : o \in configList'[u] <=> o \in configList[u]
    BY <2>1, <2>2 DEF Freed
  <2>4. ASSUME NEW o \in configList'[u], o \notin OwnOf(u)'
        PROVE  <<u, o>> \in dangling'
    <3>1. o \in OwnOf(u) \/ <<u, o>> \in dangling
      BY <2>2, <2>4 DEF ListInv, ThreadInv, Listed
    <3>2. configList' \in [Threads -> SUBSET Objects]
      BY DEF TypeOK
    <3>3. u = t => o \notin OwnOf(u)
      BY <2>1, <2>2, <2>4 DEF Freed, OwnOf, Live
    <3>4. QED
      BY <1>1, <2>1, <2>4, <3>1, <3>2, <3>3, InLeftBehind
  <2>5. QED
    BY <1>2, <2>1, <2>3, <2>4, ShrinkKeeps DEF ListInv
<1>6. QED
  BY <1>4, <1>5 DEF ListInv

\* What openConfig() finds is there, and what it makes is not in the list yet.
LEMMA OpenConfigKeeps ==
    ASSUME TypeOK, TypeOK', ListInv, ~broken,
           NEW t \in Threads, NEW fileName \in FileNames, NEW flags \in Flags,
           OpenConfig(t, fileName, flags)
    PROVE  ListInv'
<1> DEFINE config == [name |-> FileName(fileName, flags), flags |-> flags,
                      test |-> isTestModeEnabled, thread |-> t]
           list == IF SeesTestMode(t) THEN {} ELSE configList[t]
           former == IF SeesTestMode(t) THEN None ELSE mainConfig[t]
           found == Matches(list, config.name, flags)
           kept == Referenced(held, [mainConfig EXCEPT ![t] = former], watching)
<1>1. /\ wasTestModeEnabled' = [wasTestModeEnabled EXCEPT ![t] = @ \/ isTestModeEnabled]
      /\ UNCHANGED <<isTestModeEnabled, watching>>
  BY DEF OpenConfig, watchers
<1>2. ThreadInv(t)
  BY DEF ListInv
<1>3. ~SeesTestMode(t) => wasTestModeEnabled'[t] = wasTestModeEnabled[t]
                          /\ wasTestModeEnabled[t] = isTestModeEnabled
  BY <1>1, <1>2 DEF SeesTestMode, TypeOK, ThreadInv, Modes
<1>4. ASSUME list # {}, UNCHANGED <<opened, configList, mainConfig, dangling>>
      PROVE  \A u \in Threads : ThreadInv(u)'
  <2>1. ~SeesTestMode(t)
    BY <1>4
  <2>2. \A u \in Threads : wasTestModeEnabled'[u] = wasTestModeEnabled[u]
    BY <1>1, <1>3, <2>1 DEF TypeOK
  <2>3. \A u \in Threads : OwnOf(u)' = OwnOf(u)
    BY <1>4 DEF OwnOf, Live
  <2> HIDE DEF OwnOf
  <2>4. QED
    BY <1>1, <1>4, <2>2, <2>3 DEF ListInv, ThreadInv, MainListed, Modes, Listed, Unique
<1>5. CASE FollowsDangling(list)
  <2>1. PICK o \in list : opened[o] = None
    BY <1>5 DEF FollowsDangling
  <2>2. UNCHANGED <<opened, held, configList, mainConfig, dangling>>
    BY <1>5 DEF FollowsDangling
  <2>3. o \in configList[t] /\ o \notin OwnOf(t)
    BY <2>1 DEF OwnOf, Live
  <2>4. dangling # {}
    BY <1>2, <2>3 DEF ThreadInv, Listed
  <2>5. ReferencesLive'
    BY <1>1, <2>2 DEF ListInv, ReferencesLive, Live
  <2>6. QED
    BY <1>4, <2>1, <2>2, <2>4, <2>5 DEF ListInv
<1>6. CASE \E o \in found : Found(t, o)
  <2>1. PICK o \in found : Found(t, o)
    BY <1>6
  <2>2. o \in list /\ o \in Live
    BY DEF Matches, Live, TypeOK
  <2>3. /\ held' = [held EXCEPT ![t] = @ \cup {o}]
        /\ UNCHANGED <<opened, configList, mainConfig, dangling, broken>>
    BY <2>1 DEF Found, undefined
  <2>4. ReferencesLive'
    <3>1. ASSUME NEW p \in Referenced(held', mainConfig, watching), p # None PROVE p \in Live
      <4>1. \A u \in Threads : p \in held'[u] => p = o \/ p \in held[u]
        BY <2>3 DEF TypeOK
      <4>2. p = o \/ p \in Referenced(held, mainConfig, watching)
        BY <4>1, StaysReferenced
      <4>3. QED
        BY <2>2, <3>1, <4>2 DEF ListInv, ReferencesLive
    <3>2. ASSUME NEW p \in Live PROVE p \in Referenced(held', mainConfig, watching) \ {None}
      <4>1. p \in Referenced(held, mainConfig, watching) /\ p # None
        BY DEF ListInv, ReferencesLive
      <4>2. \A u \in Threads : p \in held[u] => p \in held'[u]
        BY <2>3 DEF TypeOK
      <4>3. QED
        BY <4>1, <4>2, StaysReferenced
    <3>3. QED
      BY <1>1, <2>3, <3>1, <3>2 DEF ReferencesLive, Live
  <2>5. QED
    BY <1>4, <2>2, <2>3, <2>4 DEF ListInv
<1>7. CASE /\ found = {}
           /\ \E o \in {o \in setup.objects : opened[o] = None \/ o \notin kept} :
                 NewConfig(t, o, config, kept, list,
                           IF IsMain(fileName, flags) THEN o ELSE former)
  <2> DEFINE main(o) == IF IsMain(fileName, flags) THEN o ELSE former
  <2>1. PICK o \in Objects :
            /\ opened[o] = None \/ o \notin kept
            /\ NewConfig(t, o, config, kept, list, main(o))
    BY <1>7, SharedAssumption DEF TypeOK, Setup
  <2>2. /\ opened' = [p \in Objects |-> IF p = o THEN config
                                         ELSE IF p \in kept THEN opened[p] ELSE None]
        /\ configList'[t] = list \cup {o}
        /\ held' = [held EXCEPT ![t] = @ \cup {o}]
        /\ mainConfig' = [mainConfig EXCEPT ![t] = main(o)]
        /\ dangling' = LeftBehind(t, configList', kept) \ {<<t, o>>}
        /\ broken' = broken
        /\ \A u \in Threads \ {t} : configList'[u] = configList[u]
    BY <2>1 DEF NewConfig, TypeOK
  <2>3. /\ config \in Config /\ config # None /\ None \notin Objects
        /\ config.name = FileName(fileName, flags) /\ config.flags = flags
        /\ config.test = isTestModeEnabled /\ config.thread = t
    BY SharedAssumption DEF TypeOK, FileName, FileNames, Config
  <2>4. ASSUME NEW p \in kept, p # None PROVE p \in Live
    <3>1. \A u \in Threads : p = [mainConfig EXCEPT ![t] = former][u] => p = mainConfig[u]
      BY <2>4 DEF TypeOK
    <3> HIDE DEF former
    <3>2. p \in Referenced(held, mainConfig, watching)
      BY <2>4, <3>1, StaysReferenced
    <3>3. QED
      BY <2>4, <3>2 DEF ListInv, ReferencesLive
  <2>5. o \notin kept
    BY <2>1, <2>3, <2>4 DEF Live
  <2>6. configList' \in [Threads -> SUBSET Objects]
    BY DEF TypeOK
  <2>23. former = None \/ ~IsMain(fileName, flags)
    <3> SUFFICES ASSUME former # None, IsMain(fileName, flags) PROVE FALSE
      OBVIOUS
    <3>1. /\ former = mainConfig[t] /\ list = configList[t]
          /\ config.name = MainName /\ flags = "FullConfig"
      BY DEF IsMain, FileName
    <3>2. /\ former \in list /\ former \in Live
          /\ opened[former].name = MainName /\ opened[former].flags = "FullConfig"
      BY <1>2, <3>1 DEF ThreadInv, MainListed, OwnOf
    <3>3. former \in found
      BY <3>1, <3>2 DEF Matches, Live
    <3>4. QED
      BY <1>7, <3>3
  <2>7. ReferencesLive'
    <3>0. ASSUME NEW p \in Live' PROVE p \in Referenced(held', mainConfig', watching) \ {None}
      <4> DEFINE m == [mainConfig EXCEPT ![t] = former]
      <4>1. p # None /\ (p = o \/ p \in kept)
        BY <2>2, <2>3 DEF Live
      <4>2. CASE p = o
        <5>1. p \in held'[t]
          BY <2>2, <4>2 DEF TypeOK
        <5>2. QED
          BY <4>1, <5>1, InReferences
      <4>3. CASE p \in kept
        <5>1. \A u \in Threads : p \in held[u] => p \in held'[u]
          BY <2>2 DEF TypeOK
        <5>2. \A u \in Threads : p = m[u] => p = mainConfig'[u]
          BY <2>2, <2>23, <4>1 DEF TypeOK
        <5>3. p \in Referenced(held, m, watching)
          BY <4>3
        <5> HIDE DEF m
        <5>4. QED
          BY <4>1, <5>1, <5>2, <5>3, StaysReferenced
      <4>4. QED
        BY <4>1, <4>2, <4>3
    <3> SUFFICES ASSUME NEW p \in Referenced(held', mainConfig', watching), p # None
                 PROVE  p \in Live'
      BY <1>1, <3>0 DEF ReferencesLive
    <3>1. p = o \/ p \in kept
      <4> DEFINE m == [mainConfig EXCEPT ![t] = former]
      <4> SUFFICES ASSUME p # o PROVE p \in Referenced(held, m, watching)
        OBVIOUS
      <4>1. \A u \in Threads : p = mainConfig'[u] => p = m[u]
        BY <2>2 DEF TypeOK
      <4>2. \A u \in Threads : p \in held'[u] => p \in held[u]
        BY <2>2 DEF TypeOK
      <4> HIDE DEF m
      <4>3. QED
        BY <4>1, <4>2, StaysReferenced
    <3> HIDE DEF kept, config
    <3>2. QED
      BY <2>2, <2>3, <2>4, <3>1 DEF Live
  <2>8. ASSUME NEW u \in Threads \ {t} PROVE ThreadInv(u)'
    <3>1. ThreadInv(u)
      BY DEF ListInv
    <3>2. /\ mainConfig'[u] = mainConfig[u] /\ wasTestModeEnabled'[u] = wasTestModeEnabled[u]
          /\ configList'[u] = configList[u]
      BY <1>1, <2>2 DEF TypeOK
    <3>3. mainConfig[u] # None => mainConfig[u] \in kept /\ mainConfig[u] \in OwnOf(u)
      <4>1. [mainConfig EXCEPT ![t] = former][u] = mainConfig[u]
        BY DEF TypeOK
      <4>2. mainConfig[u] \in kept
        BY <4>1, InReferences
      <4>3. QED
        BY <4>2, MainReferenced
    <3> HIDE DEF kept, config, list, main
    <3>4. /\ OwnOf(u)' = OwnOf(u) \cap kept
          /\ \A p \in OwnOf(u)' : opened'[p] = opened[p]
      BY <2>2, <2>3, <2>5 DEF OwnOf, Live
    <3>5. ASSUME NEW p \in configList'[u], p \notin OwnOf(u)'
          PROVE  <<u, p>> \in dangling'
      <4>1. p \in OwnOf(u) \/ <<u, p>> \in dangling
        BY <3>1, <3>2, <3>5 DEF ThreadInv, Listed
      <4>2. <<u, p>> \in LeftBehind(t, configList', kept)
        BY <2>6, <3>4, <3>5, <4>1, InLeftBehind
      <4>3. QED
        BY <2>2, <4>2
    <3>6. QED
      BY <1>1, <3>1, <3>2, <3>3, <3>4, <3>5, ShrinkKeeps
  <2>9. /\ mainConfig'[t] = main(o)
        /\ wasTestModeEnabled'[t] = (wasTestModeEnabled[t] \/ isTestModeEnabled)
    BY <1>1, <2>2 DEF TypeOK
  <2>10. main(o) = former \/ (main(o) = o /\ config.name = MainName /\ config.flags = "FullConfig")
    BY <2>3 DEF IsMain, FileName
  <2>11. former # None => former \in kept /\ former = mainConfig[t] /\ ~SeesTestMode(t)
    <3>1. [mainConfig EXCEPT ![t] = former][t] = former
      BY DEF TypeOK
    <3>2. former \in kept
      BY <3>1, InReferences
    <3>3. QED
      BY <3>2
  <2>12. /\ OwnOf(t)' = (OwnOf(t) \cap kept) \cup {o}
         /\ opened'[o] = config
         /\ \A p \in OwnOf(t)' : p # o => opened'[p] = opened[p] /\ p \in OwnOf(t)
    <3> HIDE DEF kept, config
    <3>1. QED
      BY <2>2, <2>3, <2>5 DEF OwnOf, Live
  <2>13. ~SeesTestMode(t) => list = configList[t]
    OBVIOUS
  <2>14. SeesTestMode(t) => list = {}
    OBVIOUS
  <2>15. ~SeesTestMode(t) => \A p \in OwnOf(t) : opened[p] # config
    <3> SUFFICES ASSUME ~SeesTestMode(t), NEW p \in OwnOf(t), opened[p] = config PROVE FALSE
      OBVIOUS
    <3>1. p \in list
      BY <1>2, <1>3, <2>3, <2>13 DEF ThreadInv, Modes
    <3>2. p \in found
      BY <2>3, <3>1 DEF Matches
    <3>3. QED
      BY <1>7, <3>2
  <2>22. list # {} => OwnOf(t) \subseteq kept
    <3> SUFFICES ASSUME list # {}, NEW p \in OwnOf(t) PROVE p \in kept
      OBVIOUS
    <3>1. [mainConfig EXCEPT ![t] = former] = mainConfig
      BY DEF TypeOK
    <3>2. p \in Referenced(held, mainConfig, watching)
      BY DEF ListInv, ReferencesLive, OwnOf
    <3>3. QED
      BY <3>1, <3>2
  <2> HIDE DEF kept, config, list, former, found, main
  <2>16. Listed(t)'
    <3> SUFFICES ASSUME NEW p \in list, p # o, p \notin OwnOf(t)'
                 PROVE  <<t, p>> \in dangling'
      BY <2>2, <2>12 DEF Listed
    <3>1. p \in configList[t]
      BY <2>13, <2>14
    <3>2. p \in OwnOf(t) \/ <<t, p>> \in dangling
      BY <1>2, <3>1 DEF ThreadInv, Listed
    <3>3. p \notin OwnOf(t)
      BY <2>12, <2>22
    <3>4. <<t, p>> \in LeftBehind(t, configList', kept)
      BY <2>2, <2>6, <3>2, <3>3, InLeftBehind
    <3>5. QED
      BY <2>2, <3>4
  <2>17. MainListed(t)'
    <3>1. CASE main(o) = o
      <4>1. former # o
        BY <2>3, <2>5, <2>11
      <4>2. QED
        BY <2>2, <2>9, <2>10, <2>12, <3>1, <4>1 DEF MainListed
    <3>2. CASE main(o) = former /\ former # None /\ former # o
      <4>1. /\ former \in configList[t] \cap OwnOf(t)
            /\ opened[former].name = MainName /\ opened[former].flags = "FullConfig"
        BY <1>2, <2>11, <3>2 DEF ThreadInv, MainListed
      <4>2. former \in configList'[t] /\ former \in OwnOf(t)' /\ opened'[former] = opened[former]
        BY <2>2, <2>11, <2>12, <2>13, <3>2, <4>1
      <4>3. QED
        BY <2>9, <3>2, <4>1, <4>2 DEF MainListed
    <3>3. CASE main(o) = None
      BY <2>9, <3>3 DEF MainListed
    <3>4. QED
      BY <2>10, <3>1, <3>2, <3>3
  <2>18. Modes(t)'
    <3>1. wasTestModeEnabled'[t] => isTestModeEnabled'
      BY <1>1, <1>2, <2>9 DEF ThreadInv, Modes
    <3>2. ASSUME NEW p \in OwnOf(t)'
          PROVE  IF p \in configList'[t] THEN opened'[p].test = wasTestModeEnabled'[t]
                                         ELSE wasTestModeEnabled'[t] /\ ~opened'[p].test
      <4>1. CASE p = o
        <5>1. wasTestModeEnabled'[t] = isTestModeEnabled
          BY <1>2, <2>9 DEF ThreadInv, Modes, TypeOK
        <5>2. QED
          BY <2>2, <2>3, <2>12, <4>1, <5>1
      <4>2. CASE p # o /\ SeesTestMode(t)
        <5>1. /\ ~wasTestModeEnabled[t] /\ isTestModeEnabled
              /\ wasTestModeEnabled'[t] = TRUE
          BY <2>9, <4>2 DEF SeesTestMode, TypeOK
        <5>2. ~opened[p].test
          BY <1>2, <2>12, <4>2, <5>1 DEF ThreadInv, Modes
        <5>3. p \notin configList'[t] /\ opened'[p] = opened[p]
          BY <2>2, <2>12, <2>14, <4>2
        <5>4. QED
          BY <5>1, <5>2, <5>3
      <4>3. CASE p # o /\ ~SeesTestMode(t)
        <5>1. /\ p \in configList'[t] <=> p \in configList[t]
              /\ opened'[p] = opened[p] /\ p \in OwnOf(t)
          BY <2>2, <2>12, <2>13, <4>3
        <5>2. QED
          BY <1>2, <1>3, <4>3, <5>1 DEF ThreadInv, Modes
      <4>4. QED
        BY <4>1, <4>2, <4>3
    <3>3. QED
      BY <3>1, <3>2 DEF Modes
  <2>19. Unique(t)'
    <3> SUFFICES ASSUME NEW p \in OwnOf(t)', NEW q \in OwnOf(t)', opened'[p] = opened'[q], p # q
                 PROVE  FALSE
      BY DEF Unique
    <3>1. CASE p # o /\ q # o
      BY <1>2, <2>12, <3>1 DEF ThreadInv, Unique
    <3>2. ASSUME NEW r \in OwnOf(t), opened[r] = config PROVE FALSE
      <4>1. SeesTestMode(t)
        BY <2>15, <3>2
      <4>2. ~wasTestModeEnabled[t] /\ isTestModeEnabled
        BY <4>1 DEF SeesTestMode
      <4>3. ~opened[r].test
        BY <1>2, <4>2 DEF ThreadInv, Modes
      <4>4. QED
        BY <2>3, <3>2, <4>2, <4>3
    <3>3. QED
      BY <2>12, <3>1, <3>2
  <2>20. ThreadInv(t)'
    BY <2>16, <2>17, <2>18, <2>19 DEF ThreadInv
  <2>21. QED
    BY <2>2, <2>7, <2>8, <2>20 DEF ListInv
<1>8. QED
  BY <1>5, <1>6, <1>7 DEF OpenConfig

\* A thread that ends leaves nothing of its own.
LEMMA ThreadExitKeeps ==
    ASSUME TypeOK, TypeOK', ListInv, ~broken, NEW t \in Threads, ThreadExit(t)
    PROVE  ListInv'
<1> DEFINE main == [mainConfig EXCEPT ![t] = None]
           refs == Referenced(held, main, watching)
<1>1. /\ mainConfig' = main
      /\ opened' = [o \in Objects |-> IF o \in refs THEN Orphaned(t, o) ELSE None]
      /\ configList' = [configList EXCEPT ![t] = {}]
      /\ dangling' = LeftBehind(t, configList', refs)
      /\ wasTestModeEnabled' = [wasTestModeEnabled EXCEPT ![t] = FALSE]
      /\ UNCHANGED <<held, isTestModeEnabled, broken, watching>>
  BY DEF ThreadExit
<1>2. None \notin Threads /\ None \notin Objects /\ None \notin Config
  BY SharedAssumption
<1>3. ASSUME NEW o \in refs, o # None PROVE o \in Live
  <2>1. \A u \in Threads : o = main[u] => o = mainConfig[u]
    BY <1>3 DEF TypeOK
  <2> HIDE DEF main
  <2>2. o \in Referenced(held, mainConfig, watching)
    BY <1>3, <2>1, StaysReferenced
  <2>3. QED
    BY <1>3, <2>2 DEF ListInv, ReferencesLive
<1>4. ASSUME NEW u \in Threads, u # t, mainConfig[u] # None
      PROVE  mainConfig[u] \in refs /\ mainConfig[u] \in OwnOf(u)
  <2>1. main[u] = mainConfig[u]
    BY <1>4 DEF TypeOK
  <2>2. mainConfig[u] \in refs
    BY <2>1, InReferences
  <2>3. QED
    BY <1>4, <2>2, MainReferenced
<1>5. \A o \in Objects : Orphaned(t, o) = None <=> opened[o] = None
  BY <1>2 DEF Orphaned, TypeOK, Config
<1> HIDE DEF refs
<1>6. ReferencesLive'
  <2>1. ASSUME NEW o \in refs, o # None PROVE o \in Live'
    <3>1. o \in Live
      BY <1>3, <2>1
    <3>2. QED
      BY <1>1, <1>5, <3>1 DEF Live
  <2>2. \A o \in Live' : o \in refs /\ o # None
    BY <1>1, <1>2 DEF Live
  <2>3. QED
    BY <1>1, <2>1, <2>2 DEF ReferencesLive, refs
<1>7. OwnOf(t)' = {}
  <2> SUFFICES ASSUME NEW o \in Objects, opened'[o] # None, opened'[o].thread = t PROVE FALSE
    BY DEF OwnOf, Live
  <2>1. opened'[o] = Orphaned(t, o) /\ opened[o] \in Config
    BY <1>1, <1>5 DEF TypeOK
  <2>2. QED
    BY <1>2, <2>1 DEF Orphaned, Config
<1>8. ThreadInv(t)'
  <2>1. configList'[t] = {} /\ mainConfig'[t] = None /\ wasTestModeEnabled'[t] = FALSE
    BY <1>1 DEF TypeOK
  <2> HIDE DEF OwnOf
  <2>2. QED
    BY <1>7, <2>1 DEF ThreadInv, MainListed, Modes, Listed, Unique
<1>9. ASSUME NEW u \in Threads, u # t PROVE ThreadInv(u)'
  <2>1. /\ configList'[u] = configList[u] /\ mainConfig'[u] = mainConfig[u]
        /\ wasTestModeEnabled'[u] = wasTestModeEnabled[u]
    BY <1>1, <1>9 DEF TypeOK
  <2>2. \A o \in Objects : opened[o] # None /\ opened[o].thread = u => Orphaned(t, o) = opened[o]
    BY <1>9 DEF Orphaned
  <2>3. \A o \in Objects : Orphaned(t, o) # None /\ Orphaned(t, o).thread = u
                               => Orphaned(t, o) = opened[o]
    BY <1>2 DEF Orphaned, TypeOK, Config
  <2>4. /\ OwnOf(u)' = OwnOf(u) \cap refs
        /\ \A o \in OwnOf(u)' : opened'[o] = opened[o]
    BY <1>1, <2>2, <2>3 DEF OwnOf, Live
  <2>5. ASSUME NEW o \in configList'[u], o \notin OwnOf(u)'
        PROVE  <<u, o>> \in dangling'
    <3>1. o \in OwnOf(u) \/ <<u, o>> \in dangling
      BY <2>1, <2>5 DEF ListInv, ThreadInv, Listed
    <3>2. configList' \in [Threads -> SUBSET Objects]
      BY DEF TypeOK
    <3>3. QED
      BY <1>1, <1>9, <2>4, <2>5, <3>1, <3>2, InLeftBehind
  <2>6. mainConfig[u] # None => mainConfig[u] \in OwnOf(u)'
    BY <1>4, <1>9, <2>4
  <2>7. ThreadInv(u)
    BY DEF ListInv
  <2>8. QED
    BY <1>1, <2>1, <2>4, <2>5, <2>6, <2>7, ShrinkKeeps
<1>10. QED
  BY <1>1, <1>6, <1>8, <1>9 DEF ListInv

\* What leaves the lists and the objects alone keeps the invariant when it makes references to
\* objects that are there and gives none up.
LEMMA ReferencesKeep ==
    ASSUME ListInv, UNCHANGED <<opened, threadGlobals, undefined>>,
           isTestModeEnabled => isTestModeEnabled',
           Referenced(held', mainConfig', watching') \ {None} = Live
    PROVE  ListInv'
<1>1. /\ Live' = Live /\ \A t \in Threads : OwnOf(t)' = OwnOf(t)
      /\ UNCHANGED <<configList, mainConfig, wasTestModeEnabled, dangling, broken>>
  BY DEF Live, OwnOf, threadGlobals, undefined
<1>2. ReferencesLive'
  BY <1>1 DEF ReferencesLive
<1> HIDE DEF OwnOf, Live
<1>3. \A t \in Threads : ThreadInv(t)'
  BY <1>1 DEF ListInv, ThreadInv, MainListed, Modes, Listed, Unique
<1>4. QED
  BY <1>1, <1>2, <1>3 DEF ListInv

\* Whatever threads open, pass to each other and give up, it stays so.
LEMMA ListInvariant == Spec => [](TypeOK /\ UserWatches /\ ListInv)
<1>1. Init => ListInv
  <2> SUFFICES ASSUME Init PROVE ListInv
    OBVIOUS
  <2>1. /\ Live = {} /\ \A t \in Threads : OwnOf(t) = {}
        /\ \A t \in Threads : configList[t] = {} /\ mainConfig[t] = None /\ held[t] = {}
        /\ \A t \in Threads : ~wasTestModeEnabled[t]
        /\ \A w \in Watchers : watching[w] = None
        /\ ~broken
    BY DEF Init, Live, OwnOf
  <2>2. \A o : o \in Referenced(held, mainConfig, watching) => o = None
    BY <2>1, InReferences
  <2> HIDE DEF OwnOf
  <2>3. \A t \in Threads : ThreadInv(t)
    BY <2>1 DEF ThreadInv, MainListed, Modes, Listed, Unique
  <2>4. QED
    BY <2>1, <2>2, <2>3 DEF ListInv, ReferencesLive
<1>2. ASSUME TypeOK, UserWatches, TypeOK', ListInv, [Next]_vars PROVE ListInv'
  <2>1. ASSUME ~broken, NEW t \in Threads, NEW o \in Objects, Release(t, o) PROVE ListInv'
    <3>1. /\ held' = [held EXCEPT ![t] = @ \ {o}]
          /\ UNCHANGED <<mainConfig, wasTestModeEnabled, isTestModeEnabled, broken, watching>>
      BY <2>1 DEF Release, watchers
    <3>2. \A u \in Threads : held'[u] \subseteq held[u]
      BY <1>2, <3>1 DEF TypeOK
    <3>3. Referenced(held', mainConfig', watching') \ {None}
              \subseteq Referenced(held, mainConfig, watching)
      <4> SUFFICES ASSUME NEW p \in Referenced(held', mainConfig', watching'), p # None
                   PROVE  p \in Referenced(held, mainConfig, watching)
        OBVIOUS
      <4>1. /\ \A u \in Threads : p \in held'[u] => p \in held[u]
            /\ \A u \in Threads : p = mainConfig'[u] => p = mainConfig[u]
            /\ \A v \in Watchers : p = watching'[v] => p = watching[v]
        BY <3>1, <3>2
      <4>2. QED
        BY <4>1, StaysReferenced
    <3>4. Forget(t, Referenced(held', mainConfig', watching'))
      BY <2>1, <3>1 DEF Release
    <3>5. QED
      BY <1>2, <2>1, <3>1, <3>3, <3>4, ForgetKeeps
  <2>2. ASSUME ~broken, NEW t \in Threads, NEW w \in Watchers, DropWatcher(t, w) PROVE ListInv'
    <3>1. /\ watching' = [watching EXCEPT ![w] = None]
          /\ UNCHANGED <<held, mainConfig, wasTestModeEnabled, isTestModeEnabled, broken>>
      BY <2>2 DEF DropWatcher
    <3>2. \A v \in Watchers : watching'[v] = None \/ watching'[v] = watching[v]
      BY <1>2, <3>1 DEF TypeOK
    <3>3. Referenced(held', mainConfig', watching') \ {None}
              \subseteq Referenced(held, mainConfig, watching)
      <4> SUFFICES ASSUME NEW p \in Referenced(held', mainConfig', watching'), p # None
                   PROVE  p \in Referenced(held, mainConfig, watching)
        OBVIOUS
      <4>1. /\ \A u \in Threads : p \in held'[u] => p \in held[u]
            /\ \A u \in Threads : p = mainConfig'[u] => p = mainConfig[u]
            /\ \A v \in Watchers : p = watching'[v] => p = watching[v]
        BY <3>1, <3>2
      <4>2. QED
        BY <4>1, StaysReferenced
    <3>4. Forget(t, Referenced(held', mainConfig', watching'))
      BY <2>2, <3>1 DEF DropWatcher
    <3>5. QED
      BY <1>2, <2>2, <3>1, <3>3, <3>4, ForgetKeeps
  <2>3. ASSUME NEW t \in Threads, NEW o \in Objects, CreateWatcher(t, o) PROVE ListInv'
    <3>1. o \in held[t] /\ UNCHANGED <<opened, held, threadGlobals, isTestModeEnabled, undefined>>
      BY <2>3 DEF CreateWatcher
    <3>2. \A v \in Watchers : watching'[v] = watching[v] \/ watching'[v] = o
      BY <1>2, <2>3 DEF CreateWatcher, TypeOK
    <3>3. o \in Referenced(held, mainConfig, watching)
      BY <3>1, InReferences
    <3>4. Referenced(held', mainConfig', watching') \ {None}
              \subseteq Referenced(held, mainConfig, watching)
      <4> SUFFICES ASSUME NEW p \in Referenced(held', mainConfig', watching'), p # o
                   PROVE  p \in Referenced(held, mainConfig, watching)
        BY <3>3
      <4>1. /\ \A x \in Threads : p \in held'[x] => p \in held[x]
            /\ \A x \in Threads : p = mainConfig'[x] => p = mainConfig[x]
            /\ \A v \in Watchers : p = watching'[v] => p = watching[v]
        BY <3>1, <3>2 DEF threadGlobals
      <4>2. QED
        BY <4>1, StaysReferenced
    <3>5. Live \subseteq Referenced(held', mainConfig', watching') \ {None}
      <4> SUFFICES ASSUME NEW p \in Live PROVE p \in Referenced(held', mainConfig', watching')
        BY SharedAssumption DEF Live
      <4>1. p \in Referenced(held, mainConfig, watching) /\ p # None
        BY <1>2 DEF ListInv, ReferencesLive
      <4>2. /\ \A x \in Threads : p \in held[x] => p \in held'[x]
            /\ \A x \in Threads : p = mainConfig[x] => p = mainConfig'[x]
            /\ \A v \in Watchers : p = watching[v] => p = watching'[v]
        BY <1>2, <2>3, <3>1, <4>1 DEF CreateWatcher, TypeOK, threadGlobals
      <4>3. QED
        BY <4>1, <4>2, StaysReferenced
    <3>6. QED
      BY <1>2, <3>1, <3>4, <3>5, ReferencesKeep DEF ListInv, ReferencesLive
  <2>4. ASSUME NEW t \in Threads, NEW u \in Threads, NEW o \in Objects, Hand(t, u, o)
        PROVE  ListInv'
    <3>1. /\ o \in held[t] /\ held' = [held EXCEPT ![u] = @ \cup {o}]
          /\ UNCHANGED <<opened, threadGlobals, isTestModeEnabled, undefined, watching>>
      BY <2>4 DEF Hand, watchers
    <3>2. \A x \in Threads : held'[x] \subseteq held[x] \cup {o}
      BY <1>2, <3>1 DEF TypeOK
    <3>3. o \in Referenced(held, mainConfig, watching)
      BY <3>1, InReferences
    <3>4. Referenced(held', mainConfig', watching') \ {None}
              \subseteq Referenced(held, mainConfig, watching)
      <4> SUFFICES ASSUME NEW p \in Referenced(held', mainConfig', watching'), p # o
                   PROVE  p \in Referenced(held, mainConfig, watching)
        BY <3>3
      <4>1. /\ \A x \in Threads : p \in held'[x] => p \in held[x]
            /\ \A x \in Threads : p = mainConfig'[x] => p = mainConfig[x]
            /\ \A v \in Watchers : p = watching'[v] => p = watching[v]
        BY <3>1, <3>2 DEF threadGlobals
      <4>2. QED
        BY <4>1, StaysReferenced
    <3>5. Live \subseteq Referenced(held', mainConfig', watching') \ {None}
      <4> SUFFICES ASSUME NEW p \in Live PROVE p \in Referenced(held', mainConfig', watching')
        BY SharedAssumption DEF Live
      <4>1. p \in Referenced(held, mainConfig, watching) /\ p # None
        BY <1>2 DEF ListInv, ReferencesLive
      <4>2. /\ \A x \in Threads : p \in held[x] => p \in held'[x]
            /\ \A x \in Threads : p = mainConfig[x] => p = mainConfig'[x]
            /\ \A v \in Watchers : p = watching[v] => p = watching'[v]
        BY <1>2, <3>1 DEF TypeOK, threadGlobals
      <4>3. QED
        BY <4>1, <4>2, StaysReferenced
    <3>6. QED
      BY <1>2, <3>1, <3>4, <3>5, ReferencesKeep DEF ListInv, ReferencesLive
  <2>5. CASE SetTestModeEnabled
    <3>1. /\ isTestModeEnabled' = TRUE
          /\ UNCHANGED <<opened, held, threadGlobals, undefined, watching>>
      BY <2>5 DEF SetTestModeEnabled, watchers
    <3>2. QED
      BY <1>2, <3>1, ReferencesKeep DEF ListInv, ReferencesLive, threadGlobals
  <2>6. CASE RemoveQueued \/ UNCHANGED vars
    <3>1. UNCHANGED <<opened, held, threadGlobals, isTestModeEnabled, undefined, watching>>
      BY <2>6 DEF RemoveQueued, vars, watchers
    <3>2. QED
      BY <1>2, <3>1, ReferencesKeep DEF ListInv, ReferencesLive, threadGlobals
  <2>7. QED
    BY <1>2, <2>1, <2>2, <2>3, <2>4, <2>5, <2>6, OpenConfigKeeps, ThreadExitKeeps DEF Next, Calls
<1>3. QED
  BY <1>1, <1>2, TypeCorrect, PTL DEF Spec

\* The references of a thread are to objects that are there, and the loop of openConfig() over its
\* list comes by nothing that is not, unless another thread gave up the last reference: whatever
\* threads open, pass to each other and give up, and however the allocator uses addresses again.
THEOREM ListAlwaysLive == Spec => []ListIsLive
<1>1. TypeOK /\ ListInv => ListIsLive
  <2> SUFFICES ASSUME TypeOK, ListInv PROVE ListIsLive
    OBVIOUS
  <2>1. ASSUME NEW t \in Threads, NEW o \in held[t] \cup ({mainConfig[t]} \ {None})
        PROVE  o \in Live
    <3>1. o \in Referenced(held, mainConfig, watching) /\ o # None
      BY <2>1, InReferences, SharedAssumption DEF TypeOK
    <3>2. QED
      BY <3>1 DEF ListInv, ReferencesLive
  <2>2. QED
    BY <2>1 DEF ListIsLive, ListInv, ThreadInv, Listed
<1>2. QED
  BY <1>1, ListInvariant, PTL

\* openConfig() gives code of a thread one object of its own for a file and flags, however the file
\* is named and whatever was opened, passed, released or watched before.
THEOREM AlwaysOneConfig == Spec => []OneConfig
<1>1. ListInv => OneConfig
  BY DEF ListInv, ThreadInv, Unique, OneConfig
<1>2. QED
  BY <1>1, ListInvariant, PTL

-----------------------------------------------------------------------------
(* The list of watchers *)

\* A thread's list has a watcher where that watches, in that thread.
InList ==
    \A t \in Threads, o \in Objects :
        watcherList[t][o] \in Watchers =>
            user[watcherList[t][o]] = t /\ watching[watcherList[t][o]] = o

\* A watcher in use is in its thread's list, or a late removal took it out of the main thread's.
Findable ==
    \A w \in Watchers :
        watching[w] # None =>
            \/ watcherList[user[w]][watching[w]] = w
            \/ user[w] = MainThread /\ watching[w] \in strayed

\* The main thread's list has no watcher that died.
MainAlive == MainThread \notin refused /\ \A o \in Objects : watcherList[MainThread][o] # "dead"

WatcherInv == InList /\ Findable /\ MainAlive

\* No call, removal or end of a thread breaks that.
LEMMA WatcherInvariant == Spec => []WatcherInv
<1>1. Init => WatcherInv
  <2>1. Init => \A t \in Threads, o \in Objects : watcherList[t][o] = None
    BY DEF Init
  <2>2. Init => refused = {} /\ \A w \in Watchers : watching[w] = None
    BY DEF Init
  <2>3. QED
    BY <2>1, <2>2, SharedAssumption DEF WatcherInv, InList, Findable, MainAlive
<1>2. ASSUME TypeOK, UserWatches, WatcherInv, [Next]_vars PROVE WatcherInv'
  <2>1. ASSUME NEW t \in Threads, NEW o \in Objects, CreateWatcher(t, o) PROVE WatcherInv'
    <3>1. CASE watcherList[t][o] = None
      <4>1. PICK w \in Watchers :
                /\ watching[w] = None
                /\ watching' = [watching EXCEPT ![w] = o]
                /\ user' = [user EXCEPT ![w] = t]
                /\ watcherList' = [watcherList EXCEPT ![t][o] = w]
                /\ UNCHANGED <<refused, strayed>>
        BY <2>1, <3>1 DEF CreateWatcher
      <4>2. user[w] = None
        BY <1>2, <4>1 DEF UserWatches
      <4>3. \A u \in Threads, p \in Objects :
                watcherList'[u][p] = IF u = t /\ p = o THEN w ELSE watcherList[u][p]
        BY <1>2, <4>1 DEF TypeOK
      <4>4. \A v \in Watchers : /\ watching'[v] = IF v = w THEN o ELSE watching[v]
                                /\ user'[v] = IF v = w THEN t ELSE user[v]
        BY <1>2, <4>1 DEF TypeOK
      <4>5. \A u \in Threads, p \in Objects : watcherList[u][p] # w
        BY <1>2, <4>2, SharedAssumption DEF WatcherInv, InList
      <4>6. InList'
        BY <1>2, <4>3, <4>4, <4>5 DEF WatcherInv, InList
      <4>7. Findable'
        <5> SUFFICES ASSUME NEW v \in Watchers, watching'[v] # None
                     PROVE  \/ watcherList'[user'[v]][watching'[v]] = v
                            \/ user'[v] = MainThread /\ watching'[v] \in strayed'
          BY DEF Findable
        <5>1. CASE v = w
          BY <4>3, <4>4, <5>1
        <5>2. CASE v # w
          <6>1. user[v] \in Threads /\ watching[v] \in Objects
            BY <1>2, <4>4, <5>2 DEF TypeOK, UserWatches
          <6>2. \/ watcherList[user[v]][watching[v]] = v
                \/ user[v] = MainThread /\ watching[v] \in strayed
            BY <1>2, <4>4, <5>2 DEF WatcherInv, Findable
          <6>3. None \notin Watchers
            BY SharedAssumption
          <6>4. QED
            BY <3>1, <4>1, <4>3, <4>4, <5>2, <6>1, <6>2, <6>3
        <5>3. QED
          BY <5>1, <5>2
      <4>8. MainAlive'
        BY <1>2, <4>1, <4>3, SharedAssumption DEF WatcherInv, MainAlive
      <4>9. QED
        BY <4>6, <4>7, <4>8 DEF WatcherInv
    <3>2. CASE watcherList[t][o] # None
      <4>1. /\ refused' = IF watcherList[t][o] = "dead" THEN refused \cup {t} ELSE refused
            /\ UNCHANGED <<watching, user, watcherList, strayed>>
        BY <2>1, <3>2 DEF CreateWatcher
      <4>2. MainThread \notin refused'
        BY <1>2, <4>1 DEF WatcherInv, MainAlive
      <4>3. QED
        BY <1>2, <4>1, <4>2 DEF WatcherInv, InList, Findable, MainAlive
    <3>3. QED
      BY <3>1, <3>2
  <2>2. ASSUME NEW t \in Threads, NEW w \in Watchers, DropWatcher(t, w) PROVE WatcherInv'
    <3>1. /\ user[w] = t /\ Destroyed(t, w)
          /\ user' = [user EXCEPT ![w] = None] /\ watching' = [watching EXCEPT ![w] = None]
          /\ strayed' = strayed \cap {watching'[v] : v \in Watchers} /\ UNCHANGED refused
      BY <2>2 DEF DropWatcher
    <3>2. watching[w] \in Objects /\ MainThread \in Threads /\ None \notin Watchers
      BY <1>2, <3>1, SharedAssumption DEF TypeOK, UserWatches
    <3>3. \A v \in Watchers : /\ watching'[v] = IF v = w THEN None ELSE watching[v]
                              /\ user'[v] = IF v = w THEN None ELSE user[v]
      BY <1>2, <3>1 DEF TypeOK
    <3>4. \A u \in Threads, p \in Objects :
              watcherList'[u][p] = IF t = MainThread /\ u = t /\ p = watching[w] THEN None
                                   ELSE IF watcherList[u][p] = w THEN "dead" ELSE watcherList[u][p]
      <4>1. \A u \in Threads, p \in Objects : Dead(watcherList, w)[u][p] =
                IF watcherList[u][p] = w THEN "dead" ELSE watcherList[u][p]
        BY DEF Dead
      <4>2. CASE t = MainThread
        <5>1. watcherList' = [Dead(watcherList, w) EXCEPT ![t][watching[w]] = None]
          BY <3>1, <4>2 DEF Destroyed
        <5>2. \A u \in Threads, p \in Objects : watcherList'[u][p] =
                  IF u = t /\ p = watching[w] THEN None ELSE Dead(watcherList, w)[u][p]
          BY <3>2, <5>1 DEF Dead
        <5>3. QED
          BY <4>1, <4>2, <5>2
      <4>3. CASE t # MainThread
        BY <3>1, <4>1, <4>3 DEF Destroyed
      <4>4. QED
        BY <4>2, <4>3
    <3>5. "dead" \notin Watchers /\ "dead" # None
      BY SharedAssumption
    <3>6. InList'
      BY <1>2, <3>2, <3>3, <3>4, <3>5 DEF WatcherInv, InList
    <3>7. Findable'
      <4> SUFFICES ASSUME NEW v \in Watchers, v # w, watching[v] # None
                   PROVE  \/ watcherList'[user[v]][watching[v]] = v
                          \/ user[v] = MainThread /\ watching[v] \in strayed'
        BY <3>3 DEF Findable
      <4>1. /\ watching[v] \in {watching'[x] : x \in Watchers}
            /\ user[v] \in Threads /\ watching[v] \in Objects
        BY <1>2, <3>3 DEF TypeOK, UserWatches
      <4>2. CASE user[v] = MainThread /\ watching[v] \in strayed
        BY <3>1, <4>1, <4>2
      <4>3. CASE watcherList[user[v]][watching[v]] = v
        <5>1. CASE t = MainThread /\ user[v] = t /\ watching[v] = watching[w]
          <6>1. watching[w] \in strayed
            BY <1>2, <3>1, <3>2, <4>3, <5>1 DEF WatcherInv, Findable
          <6>2. QED
            BY <3>1, <4>1, <5>1, <6>1
        <5>2. CASE ~(t = MainThread /\ user[v] = t /\ watching[v] = watching[w])
          BY <3>4, <4>1, <4>3, <5>2
        <5>3. QED
          BY <5>1, <5>2
      <4>4. QED
        BY <1>2, <4>2, <4>3 DEF WatcherInv, Findable
    <3>8. MainAlive'
      <4>1. \A p \in Objects :
                watcherList[MainThread][p] = w => t = MainThread /\ p = watching[w]
        BY <1>2, <3>1, <3>2 DEF WatcherInv, InList
      <4>2. QED
        BY <1>2, <3>1, <3>2, <3>4, <3>5, <4>1 DEF WatcherInv, MainAlive
    <3>9. QED
      BY <3>6, <3>7, <3>8 DEF WatcherInv
  <2>3. CASE RemoveQueued
    <3> DEFINE o == Head(queue)
    <3>1. /\ o \in Objects /\ MainThread \in Threads
          /\ watcherList' = [watcherList EXCEPT ![MainThread][o] = None]
          /\ strayed' = IF watcherList[MainThread][o] \in Watchers THEN strayed \cup {o}
                                                                   ELSE strayed
          /\ UNCHANGED <<watching, user, refused>>
      BY <1>2, <2>3, SharedAssumption DEF RemoveQueued, TypeOK
    <3> HIDE DEF o
    <3>2. \A u \in Threads, p \in Objects :
              watcherList'[u][p] = IF u = MainThread /\ p = o THEN None ELSE watcherList[u][p]
      BY <1>2, <3>1 DEF TypeOK
    <3>3. None \notin Watchers /\ "dead" # None
      BY SharedAssumption
    <3>4. InList'
      BY <1>2, <3>1, <3>2, <3>3 DEF WatcherInv, InList
    <3>5. Findable'
      <4> SUFFICES ASSUME NEW v \in Watchers, watching[v] # None
                   PROVE  \/ watcherList'[user[v]][watching[v]] = v
                          \/ user[v] = MainThread /\ watching[v] \in strayed'
        BY <3>1 DEF Findable
      <4>1. user[v] \in Threads /\ watching[v] \in Objects
        BY <1>2 DEF TypeOK, UserWatches
      <4>2. QED
        BY <1>2, <3>1, <3>2, <4>1 DEF WatcherInv, Findable
    <3>6. MainAlive'
      BY <1>2, <3>1, <3>2, <3>3 DEF WatcherInv, MainAlive
    <3>7. QED
      BY <3>4, <3>5, <3>6 DEF WatcherInv
  <2>4. ASSUME NEW t \in Threads, ThreadExit(t) PROVE WatcherInv'
    <3>1. /\ t # MainThread /\ \A w \in Watchers : user[w] # t
          /\ watcherList' = [watcherList EXCEPT ![t] = [o \in Objects |-> None]]
          /\ UNCHANGED <<watching, user, refused, strayed>>
      BY <2>4 DEF ThreadExit
    <3>2. \A u \in Threads, p \in Objects :
              watcherList'[u][p] = IF u = t THEN None ELSE watcherList[u][p]
      BY <1>2, <3>1 DEF TypeOK
    <3>3. None \notin Watchers /\ MainThread \in Threads
      BY SharedAssumption
    <3>4. InList'
      BY <1>2, <3>1, <3>2, <3>3 DEF WatcherInv, InList
    <3>5. Findable'
      <4> SUFFICES ASSUME NEW v \in Watchers, watching[v] # None
                   PROVE  \/ watcherList'[user[v]][watching[v]] = v
                          \/ user[v] = MainThread /\ watching[v] \in strayed'
        BY <3>1 DEF Findable
      <4>1. user[v] \in Threads /\ watching[v] \in Objects /\ user[v] # t
        BY <1>2, <3>1 DEF TypeOK, UserWatches
      <4>2. QED
        BY <1>2, <3>1, <3>2, <4>1 DEF WatcherInv, Findable
    <3>6. MainAlive'
      BY <1>2, <3>1, <3>2, <3>3 DEF WatcherInv, MainAlive
    <3>7. QED
      BY <3>4, <3>5, <3>6 DEF WatcherInv
  <2>5. CASE UNCHANGED <<watching, user, watcherList, refused, strayed>>
    BY <1>2, <2>5 DEF WatcherInv, InList, Findable, MainAlive
  <2>6. QED
    BY <1>2, <2>1, <2>2, <2>3, <2>4, <2>5
       DEF Next, Calls, vars, watchers, OpenConfig, Release, Hand, SetTestModeEnabled
<1>3. QED
  BY <1>1, <1>2, TypeCorrect, PTL DEF Spec

\* KConfigWatcher::create() shares what the thread's code has for an object, and in the main thread
\* always has one to return: two for an object come from a late removal only.
THEOREM AlwaysOneWatcher == Spec => []OneWatcher
<1>1. TypeOK /\ UserWatches /\ WatcherInv => OneWatcher
  <2> SUFFICES ASSUME TypeOK, UserWatches, WatcherInv
               PROVE  OneWatcher
    OBVIOUS
  <2>1. ASSUME NEW v \in Watchers, NEW w \in Watchers, watching[v] # None,
               watching[v] = watching[w], user[v] = user[w]
        PROVE  v = w \/ watching[v] \in strayed
    BY <2>1 DEF WatcherInv, Findable
  <2>2. QED
    BY <2>1 DEF OneWatcher, WatcherInv, MainAlive
<1>2. QED
  BY <1>1, TypeCorrect, WatcherInvariant, PTL

-----------------------------------------------------------------------------
(* KWatcher: types *)

Entries == [Keys -> Shortcuts \cup {Absent}]

WatcherTypeOK ==
    /\ globals \in Entries
    /\ entries \in [Procs -> Entries]
    /\ unsaved \in [Procs -> SUBSET Keys] /\ bDirty \in [Procs -> BOOLEAN]
    /\ cut \in [Procs -> [Keys -> Shortcuts]] /\ isInitialized \in [Procs -> SUBSET Keys]
    /\ toNotify \in [Procs -> SUBSET Keys]
    /\ inbox \in [Procs -> Seq(SUBSET Keys)]
    /\ handling \in [Procs -> SUBSET Keys]
    /\ saves \in Nat /\ untold \in SUBSET Keys /\ lost \in [Procs -> SUBSET Keys]

\* What a program has of the group, with what is not stored of it.
IsObject(o) == o \in [entries : Entries, unsaved : SUBSET Keys, bDirty : BOOLEAN]

\* What is read from an entry is a shortcut.
LEMMA ReadingType ==
    ASSUME NEW c \in Entries, NEW k \in Keys
    PROVE  Reading(c, k) \in Shortcuts
BY WatcherAssumption DEF Reading, Entries

\* A sync of an object keeps the types.
LEMMA SyncType ==
    ASSUME WatcherTypeOK, NEW p \in Procs, NEW o, NEW t \in Troubles, IsObject(o),
           SyncFile(p, o, t), SetObject(p, Synced(o, t))
    PROVE  /\ globals' \in Entries
           /\ entries' \in [Procs -> Entries]
           /\ unsaved' \in [Procs -> SUBSET Keys] /\ bDirty' \in [Procs -> BOOLEAN]
           /\ toNotify' \in [Procs -> SUBSET Keys]
           /\ untold' \in SUBSET Keys
<1>1. /\ Synced(o, t).entries \in Entries /\ Synced(o, t).unsaved \in SUBSET Keys
      /\ Synced(o, t).bDirty \in BOOLEAN
  BY DEF IsObject, Synced, Object
<1>2. /\ globals' \in Entries /\ toNotify' \in [Procs -> SUBSET Keys] /\ untold' \in SUBSET Keys
  BY DEF WatcherTypeOK, IsObject, SyncFile, Entries
<1>3. /\ entries' = [entries EXCEPT ![p] = Synced(o, t).entries]
      /\ unsaved' = [unsaved EXCEPT ![p] = Synced(o, t).unsaved]
      /\ bDirty' = [bDirty EXCEPT ![p] = Synced(o, t).bDirty]
  BY DEF SetObject
<1>4. bDirty' \in [Procs -> BOOLEAN]
  BY <1>1, <1>3, Zenon DEF WatcherTypeOK
<1>5. QED
  BY <1>1, <1>2, <1>3, <1>4 DEF WatcherTypeOK

\* The object of a program is one, also after an entry was written to it.
LEMMA ObjectType ==
    ASSUME WatcherTypeOK, NEW p \in Procs
    PROVE  /\ IsObject(Of(p))
           /\ \A k \in Keys, v \in Shortcuts \cup {Absent} : IsObject(WithEntry(Of(p), k, v))
BY DEF WatcherTypeOK, IsObject, Of, Object, WithEntry, Entries

-----------------------------------------------------------------------------
(* KWatcher: what was changed is told *)

\* The program is going to be told of k, or has still to store it, or its writer died.
Due(p, k) == Coming(p, k) \/ k \in unsaved[p] \cup untold

\* The entries a program has are those of the file, but for those it will hear of.
EntriesTold == \A p \in Procs, k \in Keys : entries[p][k] = globals[k] \/ Due(p, k)

ToldInv == WatcherTypeOK /\ EntriesTold /\ StaleIsTold

\* A sync of an object that is not dirtier than it has to be leaves nothing that is not due.
LEMMA SyncTells ==
    ASSUME WatcherTypeOK, NEW p \in Procs, NEW o, NEW t \in Troubles, IsObject(o), toNotify[p] = {},
           SyncFile(p, o, t), SetObject(p, Synced(o, t))
    PROVE  /\ entries'[p] = o.entries
           /\ \A k \in o.unsaved : k \in toNotify'[p] \cup unsaved'[p] \cup untold'
           /\ \A q \in Procs \ {p} : /\ entries'[q] = entries[q] /\ unsaved'[q] = unsaved[q]
                                     /\ toNotify'[q] = toNotify[q]
           /\ \A k \in Keys : globals'[k] = globals[k] \/ k \in untold'
           /\ untold \subseteq untold'
<1>1. /\ entries' = [entries EXCEPT ![p] = Synced(o, t).entries]
      /\ unsaved' = [unsaved EXCEPT ![p] = Synced(o, t).unsaved]
  BY DEF SetObject
<1>2. /\ Synced(o, t).entries = o.entries
      /\ Synced(o, t).unsaved = IF Collects(o, t) THEN {} ELSE o.unsaved
  BY DEF Synced, Object
<1>3. toNotify' = [toNotify EXCEPT ![p] = IF Collects(o, t) THEN o.unsaved ELSE {}]
  BY DEF SyncFile
<1>4. (\A k \in Keys : globals'[k] = globals[k] \/ k \in untold') /\ untold \subseteq untold'
  BY DEF SyncFile, WatcherTypeOK, Entries
<1>5. QED
  BY <1>1, <1>2, <1>3, <1>4 DEF WatcherTypeOK

\* What was due in a program that a sync, or a message, of another one leaves alone still is.
LEMMA StaysDue ==
    ASSUME NEW q, NEW k, Due(q, k),
           UNCHANGED <<inbox, handling>>, toNotify'[q] = toNotify[q], unsaved'[q] = unsaved[q],
           untold \subseteq untold'
    PROVE  Due(q, k)'
BY DEF Due, Coming

\* saveShortcut(): what it writes is in the table, and the entry is due.
LEMMA SaveTells ==
    ASSUME ToldInv, NEW p \in Procs, NEW k \in Keys, NEW v \in Shortcuts, NEW t \in Troubles,
           SaveShortcut(p, k, v, t)
    PROVE  ToldInv'
<1>1. /\ toNotify[p] = {} /\ handling[p] = NoMessage /\ saves' \in Nat
      /\ cut' = [cut EXCEPT ![p][k] = v] /\ lost' = [lost EXCEPT ![p] = @ \ {k}]
      /\ UNCHANGED <<isInitialized, inbox, handling>>
  BY DEF SaveShortcut, Idle, ToldInv, WatcherTypeOK
<1>2. /\ cut' \in [Procs -> [Keys -> Shortcuts]] /\ lost' \in [Procs -> SUBSET Keys]
      /\ cut'[p][k] = v
      /\ \A q \in Procs, j \in Keys :
            q # p \/ j # k => cut'[q][j] = cut[q][j] /\ (j \in lost[q] => j \in lost'[q])
  BY <1>1 DEF ToldInv, WatcherTypeOK
<1>3. Absent \notin Shortcuts /\ Hardcoded[k] \in Shortcuts
  BY WatcherAssumption
<1>4. CASE v = Hardcoded[k] /\ entries[p][k] = Absent
  <2>1. UNCHANGED <<globals, object, toNotify, untold>>
    BY <1>4 DEF SaveShortcut
  <2>2. WatcherTypeOK'
    BY <1>1, <1>2, <2>1 DEF ToldInv, WatcherTypeOK, object
  <2>3. \A q \in Procs, j \in Keys : Due(q, j) => Due(q, j)'
    BY <1>1, <2>1 DEF Due, Coming, object
  <2>4. EntriesTold'
    BY <2>1, <2>3 DEF ToldInv, EntriesTold, object
  <2>5. cut'[p][k] = Reading(entries[p], k)
    BY <1>2, <1>4 DEF Reading
  <2>6. UpToDate(p, k)' \/ Due(p, k)'
    BY <2>1, <2>3, <2>5 DEF ToldInv, EntriesTold, UpToDate, Reading
  <2>7. StaleIsTold'
    <3> SUFFICES ASSUME NEW q \in Procs, NEW j \in isInitialized[q]
                 PROVE  UpToDate(q, j)' \/ Due(q, j)' \/ j \in lost'[q]
      BY <1>1 DEF StaleIsTold, Due
    <3>1. j \in Keys
      BY DEF ToldInv, WatcherTypeOK
    <3>2. CASE q = p /\ j = k
      BY <2>6, <3>2
    <3>3. CASE ~(q = p /\ j = k)
      BY <1>2, <2>1, <2>3, <3>1, <3>3 DEF ToldInv, StaleIsTold, UpToDate, Reading, Due
    <3>4. QED
      BY <3>2, <3>3
  <2>8. QED
    BY <2>2, <2>4, <2>7 DEF ToldInv
<1>5. CASE ~(v = Hardcoded[k] /\ entries[p][k] = Absent)
  <2> DEFINE e == IF v = Hardcoded[k] THEN Absent ELSE v
             o == WithEntry(Of(p), k, e)
  <2>1. SyncFile(p, o, t) /\ SetObject(p, Synced(o, t))
    BY <1>5 DEF SaveShortcut
  <2>2. IsObject(o)
    BY ObjectType DEF ToldInv
  <2>3. /\ o.entries[k] = e /\ unsaved[p] \subseteq o.unsaved
        /\ \A j \in Keys : o.entries[j] = entries[p][j] \/ j \in o.unsaved
    BY DEF ToldInv, WatcherTypeOK, Entries, WithEntry, Of, Object
  <2>4. Reading(o.entries, k) = v
    BY <1>3, <2>3 DEF Reading
  <2> HIDE DEF o, e
  <2>5. WatcherTypeOK'
    BY <1>1, <1>2, <2>1, <2>2, SyncType DEF ToldInv, WatcherTypeOK
  <2>6. /\ entries'[p] = o.entries
        /\ \A j \in o.unsaved : j \in toNotify'[p] \cup unsaved'[p] \cup untold'
        /\ \A q \in Procs \ {p} : /\ entries'[q] = entries[q] /\ unsaved'[q] = unsaved[q]
                                  /\ toNotify'[q] = toNotify[q]
        /\ \A j \in Keys : globals'[j] = globals[j] \/ j \in untold'
        /\ untold \subseteq untold'
    BY <1>1, <2>1, <2>2, SyncTells DEF ToldInv
  <2>7. \A j \in o.unsaved : Due(p, j)'
    BY <2>6 DEF Due, Coming
  <2>8. \A j \in Keys : globals'[j] = globals[j] \/ \A q \in Procs : Due(q, j)'
    BY <2>6 DEF Due
  <2>9. \A q \in Procs, j \in Keys : Due(q, j) => Due(q, j)'
    <3>1. \A q \in Procs \ {p}, j \in Keys : Due(q, j) => Due(q, j)'
      BY <1>1, <2>6, StaysDue
    <3>2. \A j \in Keys : Due(p, j) => Due(p, j)'
      BY <1>1, <2>3, <2>6, <2>7 DEF Due, Coming
    <3>3. QED
      BY <3>1, <3>2
  <2>10. EntriesTold'
    <3> SUFFICES ASSUME NEW q \in Procs, NEW j \in Keys
                 PROVE  entries'[q][j] = globals'[j] \/ Due(q, j)'
      BY DEF EntriesTold
    <3>1. entries[q][j] = globals[j] \/ Due(q, j)'
      BY <2>9 DEF ToldInv, EntriesTold
    <3>2. entries'[q][j] = entries[q][j] \/ Due(q, j)'
      BY <2>3, <2>6, <2>7
    <3>3. QED
      BY <2>8, <3>1, <3>2
  <2>11. UpToDate(p, k)' \/ Due(p, k)'
    BY <1>2, <2>4, <2>6, <2>10 DEF EntriesTold, UpToDate, Reading
  <2>12. StaleIsTold'
    <3> SUFFICES ASSUME NEW q \in Procs, NEW j \in isInitialized[q]
                 PROVE  UpToDate(q, j)' \/ Due(q, j)' \/ j \in lost'[q]
      BY <1>1 DEF StaleIsTold, Due
    <3>1. j \in Keys
      BY DEF ToldInv, WatcherTypeOK
    <3>2. CASE q = p /\ j = k
      BY <2>11, <3>2
    <3>3. CASE ~(q = p /\ j = k)
      <4>1. UpToDate(q, j) \/ Due(q, j) \/ j \in lost[q]
        BY DEF ToldInv, StaleIsTold, Due
      <4>2. QED
        BY <1>2, <2>8, <2>9, <3>1, <3>3, <4>1 DEF UpToDate, Reading
    <3>4. QED
      BY <3>2, <3>3
  <2>13. QED
    BY <2>5, <2>10, <2>12 DEF ToldInv
<1>6. QED
  BY <1>4, <1>5

\* A program that takes the next message stores what it has not stored.
LEMMA ReceiveTells ==
    ASSUME ToldInv, NEW p \in Procs, NEW t \in Troubles, Receive(p, t)
    PROVE  ToldInv'
<1>1. /\ toNotify[p] = {} /\ handling[p] = NoMessage /\ inbox[p] # <<>>
      /\ handling' = [handling EXCEPT ![p] = Head(inbox[p])]
      /\ inbox' = [inbox EXCEPT ![p] = Tail(@)]
      /\ SyncFile(p, Of(p), t) /\ SetObject(p, Synced(Of(p), t))
      /\ UNCHANGED <<cut, isInitialized, saves, lost>>
  BY DEF Receive, Idle, table
<1>2. IsObject(Of(p)) /\ Of(p).entries = entries[p] /\ Of(p).unsaved = unsaved[p]
  BY ObjectType DEF ToldInv, Of, Object
<1>3. inbox[p] \in Seq(SUBSET Keys) /\ inbox[p] # <<>>
  BY <1>1 DEF ToldInv, WatcherTypeOK
<1>4. WatcherTypeOK'
  <2>1. Head(inbox[p]) \in SUBSET Keys /\ Tail(inbox[p]) \in Seq(SUBSET Keys)
    BY <1>3
  <2>2. /\ handling' \in [Procs -> SUBSET Keys] /\ inbox' \in [Procs -> Seq(SUBSET Keys)]
    BY <1>1, <2>1 DEF ToldInv, WatcherTypeOK
  <2>3. QED
    BY <1>1, <1>2, <2>2, SyncType DEF ToldInv, WatcherTypeOK
<1>5. /\ entries'[p] = entries[p]
      /\ \A j \in unsaved[p] : j \in toNotify'[p] \cup unsaved'[p] \cup untold'
      /\ \A q \in Procs \ {p} : /\ entries'[q] = entries[q] /\ unsaved'[q] = unsaved[q]
                                /\ toNotify'[q] = toNotify[q]
      /\ \A j \in Keys : globals'[j] = globals[j] \/ j \in untold'
      /\ untold \subseteq untold'
  <2>1. WatcherTypeOK
    BY DEF ToldInv
  <2>2. QED
    BY <1>1, <1>2, <2>1, SyncTells
<1>6. \A q \in Procs, j \in Keys : Due(q, j) => Due(q, j)'
  <2>1. \A q \in Procs \ {p} : inbox'[q] = inbox[q] /\ handling'[q] = handling[q]
    BY <1>1
  <2>2. \A q \in Procs \ {p}, j \in Keys : Due(q, j) => Due(q, j)'
    BY <1>5, <2>1 DEF Due, Coming
  <2>3. ASSUME NEW n \in DOMAIN inbox[p]
        PROVE  \/ inbox[p][n] = handling'[p]
               \/ \E m \in DOMAIN inbox'[p] : inbox'[p][m] = inbox[p][n]
    <3>1. inbox'[p] = Tail(inbox[p]) /\ handling'[p] = Head(inbox[p])
      BY <1>1 DEF ToldInv, WatcherTypeOK
    <3>2. CASE n = 1
      BY <1>3, <3>1, <3>2
    <3>3. CASE n # 1
      <4>1. n - 1 \in DOMAIN Tail(inbox[p]) /\ Tail(inbox[p])[n - 1] = inbox[p][n]
        BY <1>3, <3>3
      <4>2. QED
        BY <3>1, <4>1
    <3>4. QED
      BY <3>2, <3>3
  <2>4. \A j \in Keys : Due(p, j) => Due(p, j)'
    BY <1>1, <1>5, <2>3 DEF Due, Coming, NoMessage
  <2>5. QED
    BY <2>2, <2>4
<1>7. \A j \in Keys : globals'[j] = globals[j] \/ \A q \in Procs : Due(q, j)'
  BY <1>5 DEF Due
<1>8. EntriesTold'
  BY <1>5, <1>6, <1>7 DEF ToldInv, EntriesTold
<1>9. StaleIsTold'
  <2> SUFFICES ASSUME NEW q \in Procs, NEW j \in isInitialized[q]
               PROVE  UpToDate(q, j)' \/ Due(q, j)' \/ j \in lost'[q]
    BY <1>1 DEF StaleIsTold, Due
  <2>1. UpToDate(q, j) \/ Due(q, j) \/ j \in lost[q]
    BY DEF ToldInv, StaleIsTold, Due
  <2>2. j \in Keys
    BY DEF ToldInv, WatcherTypeOK
  <2>3. QED
    BY <1>1, <1>6, <1>7, <2>1, <2>2 DEF UpToDate, Reading
<1>10. QED
  BY <1>4, <1>8, <1>9 DEF ToldInv

\* The message of a program goes to all, before its keys are not untold any more.
LEMMA NotifyTells ==
    ASSUME ToldInv, NEW p \in Procs, NotifyClients(p)
    PROVE  ToldInv'
<1>1. /\ inbox' = [q \in Procs |-> Append(inbox[q], toNotify[p])]
      /\ untold' = untold \ toNotify[p]
      /\ toNotify' = [toNotify EXCEPT ![p] = {}]
      /\ UNCHANGED <<globals, object, table, handling, saves, lost>>
  BY DEF NotifyClients
<1>2. WatcherTypeOK'
  BY <1>1 DEF ToldInv, WatcherTypeOK, object, table
<1>3. \A q \in Procs, k \in Keys : Due(q, k) => Due(q, k)'
  <2> SUFFICES ASSUME NEW q \in Procs, NEW k \in Keys, Due(q, k) PROVE Due(q, k)'
    OBVIOUS
  <2>1. inbox[q] \in Seq(SUBSET Keys) /\ toNotify[p] \in SUBSET Keys
    BY DEF ToldInv, WatcherTypeOK
  <2>2. /\ \A n \in DOMAIN inbox[q] : n \in DOMAIN inbox'[q] /\ inbox'[q][n] = inbox[q][n]
        /\ Len(inbox[q]) + 1 \in DOMAIN inbox'[q]
        /\ inbox'[q][Len(inbox[q]) + 1] = toNotify[p]
    BY <1>1, <2>1
  <2>3. k \in toNotify[p] => Coming(q, k)'
    BY <2>2 DEF Coming
  <2>4. Coming(q, k) => Coming(q, k)'
    BY <1>1, <2>2, <2>3 DEF Coming, ToldInv, WatcherTypeOK
  <2>5. QED
    BY <1>1, <2>3, <2>4 DEF Due, object
<1>4. EntriesTold'
  BY <1>1, <1>3 DEF ToldInv, EntriesTold, object
<1>5. StaleIsTold'
  <2> SUFFICES ASSUME NEW q \in Procs, NEW k \in isInitialized[q]
               PROVE  UpToDate(q, k)' \/ Due(q, k)' \/ k \in lost'[q]
    BY <1>1 DEF StaleIsTold, Due, table
  <2>1. UpToDate(q, k) \/ Due(q, k) \/ k \in lost[q]
    BY DEF ToldInv, StaleIsTold, Due
  <2>2. k \in Keys
    BY DEF ToldInv, WatcherTypeOK
  <2>3. QED
    BY <1>1, <1>3, <2>1, <2>2 DEF UpToDate, Reading, table
<1>6. QED
  BY <1>2, <1>4, <1>5 DEF ToldInv

\* A message that was handled has brought what it told of, and what is thrown away is lost.
LEMMA RefreshTells ==
    ASSUME ToldInv, NEW p \in Procs, Refresh(p)
    PROVE  ToldInv'
<1>1. /\ toNotify[p] = {}
      /\ entries' = [entries EXCEPT ![p] = globals]
      /\ unsaved' = [unsaved EXCEPT ![p] = {}]
      /\ cut' = [cut EXCEPT ![p] = [k \in Keys |-> IF k \in handling[p] THEN Reading(globals, k)
                                                   ELSE cut[p][k]]]
      /\ isInitialized' = [isInitialized EXCEPT ![p] = @ \cup handling[p]]
      /\ handling' = [handling EXCEPT ![p] = {}]
      /\ lost' = [lost EXCEPT ![p] = (@ \cup unsaved[p]) \ handling[p]]
      /\ UNCHANGED <<globals, bDirty, toNotify, inbox, saves, untold>>
  BY DEF Refresh, NoMessage
<1>2. WatcherTypeOK'
  <2>1. \A k \in Keys : Reading(globals, k) \in Shortcuts
    BY ReadingType DEF ToldInv, WatcherTypeOK
  <2>2. cut' \in [Procs -> [Keys -> Shortcuts]]
    BY <1>1, <2>1 DEF ToldInv, WatcherTypeOK
  <2>3. QED
    BY <1>1, <2>2 DEF ToldInv, WatcherTypeOK
<1>3. \A q \in Procs \ {p}, k \in Keys : Due(q, k) => Due(q, k)'
  BY <1>1 DEF ToldInv, WatcherTypeOK, Due, Coming
<1>4. \A k \in Keys : Due(p, k) => Due(p, k)' \/ k \in handling[p] \cup unsaved[p]
  BY <1>1 DEF ToldInv, WatcherTypeOK, Due, Coming
<1>5. EntriesTold'
  <2>1. entries'[p] = globals /\ \A q \in Procs \ {p} : entries'[q] = entries[q]
    BY <1>1 DEF ToldInv, WatcherTypeOK
  <2>2. QED
    BY <1>1, <1>3, <2>1 DEF ToldInv, EntriesTold
<1>6. StaleIsTold'
  <2> SUFFICES ASSUME NEW q \in Procs, NEW k \in isInitialized'[q]
               PROVE  UpToDate(q, k)' \/ Due(q, k)' \/ k \in lost'[q]
    BY DEF StaleIsTold, Due
  <2>1. k \in Keys
    BY <1>2 DEF WatcherTypeOK
  <2>2. CASE q # p
    <3>1. /\ k \in isInitialized[q] /\ cut'[q] = cut[q] /\ lost'[q] = lost[q]
      BY <1>1, <2>2 DEF ToldInv, WatcherTypeOK
    <3>2. UpToDate(q, k) \/ Due(q, k) \/ k \in lost[q]
      BY <3>1 DEF ToldInv, StaleIsTold, Due
    <3>3. QED
      BY <1>1, <1>3, <2>1, <2>2, <3>1, <3>2 DEF UpToDate, Reading
  <2>3. CASE q = p /\ k \in handling[p]
    <3>1. cut'[p][k] = Reading(globals, k)
      BY <1>1, <2>1, <2>3 DEF ToldInv, WatcherTypeOK
    <3>2. QED
      BY <1>1, <2>3, <3>1 DEF UpToDate, Reading
  <2>4. CASE q = p /\ k \notin handling[p]
    <3>1. /\ k \in isInitialized[p] /\ cut'[p][k] = cut[p][k]
          /\ lost'[p] = (lost[p] \cup unsaved[p]) \ handling[p]
      BY <1>1, <2>1, <2>4 DEF ToldInv, WatcherTypeOK
    <3>2. UpToDate(p, k) \/ Due(p, k) \/ k \in lost[p]
      BY <3>1 DEF ToldInv, StaleIsTold, Due
    <3>3. QED
      BY <1>1, <1>4, <2>1, <2>4, <3>1, <3>2 DEF UpToDate, Reading
  <2>5. QED
    BY <2>2, <2>3, <2>4
<1>7. QED
  BY <1>2, <1>5, <1>6 DEF ToldInv

\* What is read for the first time is as fresh as the entries.
LEMMA ShortcutTells ==
    ASSUME ToldInv, NEW p \in Procs, NEW ks \in SUBSET Keys, Shortcut(p, ks)
    PROVE  ToldInv'
<1>1. /\ cut' = [cut EXCEPT ![p] = [k \in Keys |-> IF k \in ks \ isInitialized[p]
                                                   THEN Reading(entries[p], k) ELSE cut[p][k]]]
      /\ isInitialized' = [isInitialized EXCEPT ![p] = @ \cup ks]
      /\ UNCHANGED <<globals, object, toNotify, inbox, handling, history>>
  BY DEF Shortcut, Initialize
<1>2. WatcherTypeOK'
  <2>1. \A k \in Keys : Reading(entries[p], k) \in Shortcuts
    BY ReadingType DEF ToldInv, WatcherTypeOK
  <2>2. cut' \in [Procs -> [Keys -> Shortcuts]]
    BY <1>1, <2>1 DEF ToldInv, WatcherTypeOK
  <2>3. QED
    BY <1>1, <2>2 DEF ToldInv, WatcherTypeOK, object, history
<1>3. \A q \in Procs, k \in Keys : Due(q, k)' <=> Due(q, k)
  BY <1>1 DEF Due, Coming, object, history
<1>4. EntriesTold'
  BY <1>1, <1>3 DEF ToldInv, EntriesTold, object
<1>5. StaleIsTold'
  <2> SUFFICES ASSUME NEW q \in Procs, NEW k \in isInitialized'[q]
               PROVE  UpToDate(q, k)' \/ Due(q, k)' \/ k \in lost'[q]
    BY DEF StaleIsTold, Due
  <2>1. k \in Keys
    BY <1>2 DEF WatcherTypeOK
  <2>2. CASE q = p /\ k \in ks \ isInitialized[p]
    <3>1. cut'[p][k] = Reading(entries[p], k)
      BY <1>1, <2>1, <2>2 DEF ToldInv, WatcherTypeOK
    <3>2. entries[p][k] = globals[k] \/ Due(p, k)
      BY <2>1 DEF ToldInv, EntriesTold
    <3>3. QED
      BY <1>1, <1>3, <2>1, <2>2, <3>1, <3>2 DEF UpToDate, Reading
  <2>3. CASE ~(q = p /\ k \in ks \ isInitialized[p])
    <3>1. k \in isInitialized[q] /\ cut'[q][k] = cut[q][k]
      BY <1>1, <2>1, <2>3 DEF ToldInv, WatcherTypeOK
    <3>2. UpToDate(q, k) \/ Due(q, k) \/ k \in lost[q]
      BY <3>1 DEF ToldInv, StaleIsTold, Due
    <3>3. QED
      BY <1>1, <1>3, <2>1, <3>1, <3>2 DEF UpToDate, Reading, history
  <2>4. QED
    BY <2>2, <2>3
<1>6. QED
  BY <1>2, <1>4, <1>5 DEF ToldInv

\* A program that starts has read everything and uses nothing.
LEMMA RestartTells ==
    ASSUME ToldInv, NEW p \in Procs, Restart(p)
    PROVE  ToldInv'
<1>1. /\ entries' = [entries EXCEPT ![p] = globals] /\ unsaved' = [unsaved EXCEPT ![p] = {}]
      /\ bDirty' = [bDirty EXCEPT ![p] = FALSE]
      /\ cut' = [cut EXCEPT ![p] = Hardcoded]
      /\ isInitialized' = [isInitialized EXCEPT ![p] = {}]
      /\ toNotify' = [toNotify EXCEPT ![p] = {}] /\ inbox' = [inbox EXCEPT ![p] = <<>>]
      /\ handling' = [handling EXCEPT ![p] = {}] /\ lost' = [lost EXCEPT ![p] = {}]
      /\ UNCHANGED <<globals, saves, untold>>
  BY DEF Restart, SetObject, Object, NoMessage
<1>2. WatcherTypeOK'
  <2>1. bDirty' \in [Procs -> BOOLEAN]
    BY <1>1, Zenon DEF ToldInv, WatcherTypeOK
  <2>2. <<>> \in Seq(SUBSET Keys)
    OBVIOUS
  <2>3. inbox' \in [Procs -> Seq(SUBSET Keys)]
    BY <1>1, <2>2, Zenon DEF ToldInv, WatcherTypeOK
  <2>4. cut' \in [Procs -> [Keys -> Shortcuts]]
    BY <1>1, WatcherAssumption DEF ToldInv, WatcherTypeOK
  <2>5. QED
    BY <1>1, <2>1, <2>3, <2>4 DEF ToldInv, WatcherTypeOK
<1>3. \A q \in Procs \ {p}, k \in Keys : Due(q, k) => Due(q, k)'
  BY <1>1 DEF ToldInv, WatcherTypeOK, Due, Coming
<1>4. EntriesTold'
  <2>1. entries'[p] = globals /\ \A q \in Procs \ {p} : entries'[q] = entries[q]
    BY <1>1 DEF ToldInv, WatcherTypeOK
  <2>2. QED
    BY <1>1, <1>3, <2>1 DEF ToldInv, EntriesTold
<1>5. StaleIsTold'
  <2> SUFFICES ASSUME NEW q \in Procs, NEW k \in isInitialized'[q]
               PROVE  UpToDate(q, k)' \/ Due(q, k)' \/ k \in lost'[q]
    BY DEF StaleIsTold, Due
  <2>1. /\ q # p /\ k \in isInitialized[q] /\ k \in Keys
        /\ cut'[q] = cut[q] /\ lost'[q] = lost[q]
    BY <1>1 DEF ToldInv, WatcherTypeOK
  <2>2. UpToDate(q, k) \/ Due(q, k) \/ k \in lost[q]
    BY <2>1 DEF ToldInv, StaleIsTold, Due
  <2>3. QED
    BY <1>1, <1>3, <2>1, <2>2 DEF UpToDate, Reading
<1>6. QED
  BY <1>2, <1>4, <1>5 DEF ToldInv

-----------------------------------------------------------------------------

\* In the beginning nobody has anything that is not in the file.
LEMMA InitTells == WatcherInit => ToldInv
<1> SUFFICES ASSUME WatcherInit PROVE ToldInv
  OBVIOUS
<1>1. /\ globals \in Entries /\ entries \in [Procs -> Entries]
      /\ unsaved \in [Procs -> SUBSET Keys]
      /\ cut \in [Procs -> [Keys -> Shortcuts]] /\ isInitialized \in [Procs -> SUBSET Keys]
      /\ toNotify \in [Procs -> SUBSET Keys] /\ handling \in [Procs -> SUBSET Keys]
      /\ saves \in Nat /\ untold \in SUBSET Keys /\ lost \in [Procs -> SUBSET Keys]
  BY WatcherAssumption DEF WatcherInit, Entries, NoMessage
<1>2. bDirty \in [Procs -> BOOLEAN]
  BY Zenon DEF WatcherInit
<1>3. <<>> \in Seq(SUBSET Keys)
  OBVIOUS
<1>4. inbox \in [Procs -> Seq(SUBSET Keys)]
  BY <1>3, Zenon DEF WatcherInit
<1>5. EntriesTold
  BY DEF WatcherInit, EntriesTold
<1>6. StaleIsTold
  BY DEF WatcherInit, StaleIsTold
<1>7. QED
  BY <1>1, <1>2, <1>4, <1>5, <1>6 DEF ToldInv, WatcherTypeOK

\* Whatever the programs do, it stays so.
LEMMA ToldInvariant == WatcherSpec => []ToldInv
<1>1. ASSUME ToldInv, [WatcherNext]_watcherVars PROVE ToldInv'
  <2>1. ASSUME NEW p \in Procs, Step(p) PROVE ToldInv'
    BY <1>1, <2>1, NotifyTells, ReceiveTells, RefreshTells DEF Step
  <2>2. ASSUME NEW p \in Procs, (\E k \in Keys : Shortcut(p, {k})) \/ Shortcut(p, Keys)
        PROVE  ToldInv'
    BY <1>1, <2>2, ShortcutTells
  <2>3. CASE UNCHANGED watcherVars
    BY <1>1, <2>3
    DEF watcherVars, object, table, history, ToldInv, WatcherTypeOK, EntriesTold, StaleIsTold,
        Due, Coming, UpToDate, Reading
  <2>4. QED
    BY <1>1, <2>1, <2>2, <2>3, SaveTells, RestartTells DEF WatcherNext
<1>2. QED
  BY InitTells, <1>1, PTL DEF WatcherSpec

\* A shortcut a program uses is the one in the file, or the program is going to be told, or it is
\* its own that is not stored: for any number of programs that save at the same time, whatever
\* fails, with the messages still in any queue.
THEOREM AlwaysTold == WatcherSpec => []StaleIsTold
<1>1. ToldInv => StaleIsTold
  BY DEF ToldInv
<1>2. QED
  BY <1>1, ToldInvariant, PTL
=============================================================================
