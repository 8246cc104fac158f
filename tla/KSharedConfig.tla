---------------------------- MODULE KSharedConfig ----------------------------
(***************************************************************************)
(* The shared KConfig objects of each thread (src/core/ksharedconfig.cpp)  *)
(* and the watchers made for them (KConfigWatcher::create() in             *)
(* src/core/kconfigwatcher.cpp).                                           *)
(*                                                                         *)
(* Objects are addresses: one that was freed may be allocated again, by    *)
(* any thread.  The program's code may pass a reference to another thread. *)
(* An object is freed with the last reference to it, in the thread that    *)
(* drops that, and leaves the list of that thread only: a pointer to it    *)
(* may stay in the list of the thread that opened it.  Reading that is     *)
(* undefined.  What the objects contain is in KConfig.                     *)
(***************************************************************************)
EXTENDS Naturals, Sequences, FiniteSets

CONSTANTS
    Threads,
    MainThread,    \* the thread of the QCoreApplication
    Setups,        \* what is used of all that: see Setup
    Objects,       \* addresses for KSharedConfig objects
    Watchers,      \* addresses for KConfigWatcher objects
    MainName,      \* KConfig::mainConfigName()
    OtherNames,    \* names of other files
    Empty,         \* the empty file name
    MaxQueue,      \* bound: removals that wait for the main thread
    None           \* a null pointer, or an address that is not in use

FileNames == {Empty, MainName} \cup OtherNames

\* Bounds: the threads that use watchers, those that pass references to others, and the addresses
\* that new objects get.
Setup == [watching : SUBSET Threads, handing : SUBSET Threads, objects : SUBSET Objects]

Flags == {"FullConfig", "SimpleConfig"}

\* What is known of a KSharedConfig, with the test mode and the thread it was opened in (history).
\* The thread is None when that has ended.
Config == [name : FileNames, flags : Flags, test : BOOLEAN, thread : Threads \cup {None}]

ASSUME SharedAssumption ==
    /\ MainThread \in Threads /\ Setups \subseteq Setup
    /\ MaxQueue \in Nat
    /\ None \notin Objects \cup Watchers \cup Threads \cup Config
    /\ "dead" \notin Watchers \cup {None}
    /\ {MainName, Empty} \cap OtherNames = {} /\ MainName # Empty

VARIABLES
    setup,       \* bounds
    opened,      \* what each KSharedConfig is
    held,        \* the objects each thread's code has references to
    configList,  \* GlobalSharedConfig of each thread: pointers, that may dangle
    mainConfig,
    wasTestModeEnabled,
    isTestModeEnabled, \* QStandardPaths
    dangling,    \* entries of lists whose object another thread has freed (history)
    broken,      \* a pointer to nothing was followed, so that the program may do anything
    watching,    \* each watcher's m_config
    user,        \* the thread whose code has the watcher
    watcherList, \* for each thread and object None, a watcher, or "dead"
    queue,       \* removals the main thread's event loop is still to do
    refused,     \* threads that got no watcher from create() (history)
    strayed      \* objects whose watcher was removed for another one's sake (history)

threadGlobals == <<configList, mainConfig, wasTestModeEnabled>>
watchers == <<watching, user, watcherList, queue, refused, strayed>>
undefined == <<dangling, broken>>
vars == <<setup, opened, held, threadGlobals, isTestModeEnabled, undefined, watchers>>

Init ==
    /\ setup \in Setups
    /\ opened = [o \in Objects |-> None]
    /\ held = [t \in Threads |-> {}] /\ configList = [t \in Threads |-> {}]
    /\ mainConfig = [t \in Threads |-> None]
    /\ wasTestModeEnabled = [t \in Threads |-> FALSE] /\ isTestModeEnabled = FALSE
    /\ dangling = {} /\ broken = FALSE
    /\ watching = [w \in Watchers |-> None] /\ user = [w \in Watchers |-> None]
    /\ watcherList = [t \in Threads |-> [o \in Objects |-> None]]
    /\ queue = <<>>
    /\ refused = {}
    /\ strayed = {}

-----------------------------------------------------------------------------
(* References *)

Referenced(h, m, w) ==
    (UNION {h[t] : t \in Threads}) \cup {m[t] : t \in Threads} \cup {w[v] : v \in Watchers}

\* What is freed when only refs are left.
Freed(refs) == {o \in Objects : opened[o] # None /\ o \notin refs}

\* The entries of the lists whose object another thread has freed, when thread t frees those that
\* are not among refs.
LeftBehind(t, lists, refs) ==
    {d \in Threads \X Objects :
        /\ d[2] \in lists[d[1]]
        /\ \/ d \in dangling
           \/ d[1] # t /\ d[2] \in Freed(refs) /\ opened[d[2]].thread = d[1]}

\* Mutant: an object that is gone stays in the list of the thread that has freed it.
ForgetNothing(t, refs) ==
    /\ opened' = [o \in Objects |-> IF o \in refs THEN opened[o] ELSE None]
    /\ UNCHANGED configList
    /\ dangling' = LeftBehind(t, configList, refs)

\* ~KSharedConfig() in thread t, for the objects that are not among the references any more: they
\* leave the list of this thread.
Forget(t, refs) ==
    /\ opened' = [o \in Objects |-> IF o \in refs THEN opened[o] ELSE None]
    /\ configList' = [configList EXCEPT ![t] = @ \ Freed(refs)]
    /\ dangling' = LeftBehind(t, configList', refs)

Release(t, o) ==
    /\ o \in held[t]
    /\ held' = [held EXCEPT ![t] = @ \ {o}]
    /\ Forget(t, Referenced(held', mainConfig, watching))
    /\ UNCHANGED <<mainConfig, wasTestModeEnabled, isTestModeEnabled, broken, watchers>>

\* The program's code passes a KSharedConfig::Ptr to another thread.
Hand(t, u, o) ==
    /\ t \in setup.handing /\ o \in held[t] \ held[u]
    /\ held' = [held EXCEPT ![u] = @ \cup {o}]
    /\ UNCHANGED <<opened, threadGlobals, isTestModeEnabled, undefined, watchers>>

-----------------------------------------------------------------------------
(* openConfig() *)

\* The name KConfig makes up.  An empty one with SimpleConfig is that of an object in memory.
FileName(fileName, flags) ==
    IF fileName = Empty /\ flags # "SimpleConfig" THEN MainName ELSE fileName

IsMain(fileName, flags) == fileName = Empty /\ flags = "FullConfig"

\* The thread sees for the first time that the test mode is on.
SeesTestMode(t) == ~wasTestModeEnabled[t] /\ isTestModeEnabled

\* Mutant: the flags are compared with the usual ones.
MatchesFull(list, name, flags) ==
    {o \in list : opened[o] # None /\ opened[o].name = name /\ opened[o].flags = "FullConfig"}

\* What is in the thread's list for a name and flags.  An address that was used again may be that of
\* another thread's object.
Matches(list, name, flags) ==
    {o \in list : opened[o] # None /\ opened[o].name = name /\ opened[o].flags = flags}

Found(t, o) ==
    /\ held' = [held EXCEPT ![t] = @ \cup {o}]
    /\ UNCHANGED <<opened, configList, mainConfig, undefined>>

\* The loop over the list may come by an entry that dangles.  What it reads there may crash the
\* program or look like the file that is asked for; when it does neither, the loop goes on.
FollowsDangling(list) ==
    /\ \E o \in list : opened[o] = None
    /\ broken' = TRUE
    /\ UNCHANGED <<opened, held, configList, mainConfig, dangling>>

\* A new object at address o for thread t, whose list and main config have become list and main.
\* Of all the others those among kept are left.
NewConfig(t, o, config, kept, list, main) ==
    /\ opened' = [p \in Objects |-> IF p = o THEN config
                                     ELSE IF p \in kept THEN opened[p] ELSE None]
    /\ configList' = [configList EXCEPT ![t] = list \cup {o}]
    /\ dangling' = LeftBehind(t, configList', kept) \ {<<t, o>>}
    /\ held' = [held EXCEPT ![t] = @ \cup {o}]
    /\ mainConfig' = [mainConfig EXCEPT ![t] = main]
    /\ UNCHANGED broken

\* The list is to be searched after the switch to test mode, and the main config it drops may be
\* gone by then.
OpenConfig(t, fileName, flags) ==
    LET config == [name |-> FileName(fileName, flags), flags |-> flags,
                   test |-> isTestModeEnabled, thread |-> t]
        list == IF SeesTestMode(t) THEN {} ELSE configList[t]
        former == IF SeesTestMode(t) THEN None ELSE mainConfig[t]
        found == Matches(list, config.name, flags)
        kept == Referenced(held, [mainConfig EXCEPT ![t] = former], watching)
    IN  /\ wasTestModeEnabled' = [wasTestModeEnabled EXCEPT ![t] = @ \/ isTestModeEnabled]
        /\ \/ FollowsDangling(list)
           \/ \E o \in found : Found(t, o)
           \/ /\ found = {}
              /\ \E o \in {o \in setup.objects : opened[o] = None \/ o \notin kept} :
                    NewConfig(t, o, config, kept, list,
                              IF IsMain(fileName, flags) THEN o ELSE former)
        /\ UNCHANGED <<isTestModeEnabled, watchers>>

SetTestModeEnabled ==
    /\ ~isTestModeEnabled /\ isTestModeEnabled' = TRUE
    /\ UNCHANGED <<opened, held, threadGlobals, undefined, watchers>>

-----------------------------------------------------------------------------
(* KConfigWatcher::create() *)

\* A watcher that is in the list is shared, but what is in the list may have died.
CreateWatcher(t, o) ==
    /\ t \in setup.watching /\ o \in held[t]
    /\ \/ /\ watcherList[t][o] = None
          /\ \E w \in {w \in Watchers : watching[w] = None} :
                /\ watching' = [watching EXCEPT ![w] = o]
                /\ user' = [user EXCEPT ![w] = t]
                /\ watcherList' = [watcherList EXCEPT ![t][o] = w]
          /\ UNCHANGED refused
       \/ /\ watcherList[t][o] # None
          /\ refused' = IF watcherList[t][o] = "dead" THEN refused \cup {t} ELSE refused
          /\ UNCHANGED <<watching, user, watcherList>>
    /\ UNCHANGED <<opened, held, threadGlobals, isTestModeEnabled, undefined, queue, strayed>>

\* The weak pointers to a watcher that is gone.
Dead(list, w) ==
    [t \in Threads |-> [o \in Objects |-> IF list[t][o] = w THEN "dead" ELSE list[t][o]]]

\* Mutant: nobody is told that the watcher is gone.
DestroyedUnseen(t, w) ==
    watcherList' = Dead(watcherList, w) /\ UNCHANGED queue

\* The handler of destroyed(), whose context is the application: in the main thread it is called
\* at once, in another one it is left to the main thread, that has a list of its own.
Destroyed(t, w) ==
    IF t = MainThread
    THEN watcherList' = [Dead(watcherList, w) EXCEPT ![MainThread][watching[w]] = None]
         /\ UNCHANGED queue
    ELSE watcherList' = Dead(watcherList, w) /\ queue' = Append(queue, watching[w])

\* ~KConfigWatcher(): gives up the reference to the config.
DropWatcher(t, w) ==
    /\ user[w] = t /\ (t = MainThread \/ Len(queue) < MaxQueue)
    /\ user' = [user EXCEPT ![w] = None]
    /\ watching' = [watching EXCEPT ![w] = None]
    /\ Destroyed(t, w)
    /\ Forget(t, Referenced(held, mainConfig, watching'))
    /\ strayed' = strayed \cap {watching'[v] : v \in Watchers}
    /\ UNCHANGED <<held, mainConfig, wasTestModeEnabled, isTestModeEnabled, broken, refused>>

RemoveQueued ==
    /\ queue # <<>>
    /\ queue' = Tail(queue)
    /\ watcherList' = [watcherList EXCEPT ![MainThread][Head(queue)] = None]
    /\ strayed' = IF watcherList[MainThread][Head(queue)] \in Watchers
                  THEN strayed \cup {Head(queue)} ELSE strayed
    /\ UNCHANGED <<opened, held, threadGlobals, isTestModeEnabled, undefined>>
    /\ UNCHANGED <<watching, user, refused>>

-----------------------------------------------------------------------------

\* What another thread still refers to has no list any more that it is in.
Orphaned(t, o) ==
    IF opened[o] # None /\ opened[o].thread = t THEN [opened[o] EXCEPT !.thread = None]
    ELSE opened[o]

\* A thread ends with nothing left on its stack.  QThreadStorage frees what it has for the thread.
\* Then the next one begins with nothing.
ThreadExit(t) ==
    LET refs == Referenced(held, [mainConfig EXCEPT ![t] = None], watching)
    IN  /\ t # MainThread /\ held[t] = {} /\ t \notin {user[w] : w \in Watchers}
        /\ mainConfig' = [mainConfig EXCEPT ![t] = None]
        /\ opened' = [o \in Objects |-> IF o \in refs THEN Orphaned(t, o) ELSE None]
        /\ configList' = [configList EXCEPT ![t] = {}]
        /\ dangling' = LeftBehind(t, configList', refs)
        /\ wasTestModeEnabled' = [wasTestModeEnabled EXCEPT ![t] = FALSE]
        /\ watcherList' = [watcherList EXCEPT ![t] = [o \in Objects |-> None]]
        /\ UNCHANGED <<held, isTestModeEnabled, broken, watching, user, queue, refused, strayed>>

\* What the program does.
Calls ==
    \/ \E t \in Threads :
          \/ \E fileName \in FileNames, flags \in Flags : OpenConfig(t, fileName, flags)
          \/ \E o \in Objects : Release(t, o) \/ CreateWatcher(t, o)
          \/ \E u \in Threads, o \in Objects : Hand(t, u, o)
          \/ \E w \in Watchers : DropWatcher(t, w)
          \/ ThreadExit(t)
    \/ RemoveQueued
    \/ SetTestModeEnabled

\* Nothing is said of a program once its behaviour is undefined.
Next ==
    \/ ~broken /\ Calls /\ UNCHANGED setup
    \/ broken /\ UNCHANGED vars

Spec == Init /\ [][Next]_vars

-----------------------------------------------------------------------------
(* Safety *)

\* The objects that are there, and those that thread t has opened.
Live == {o \in Objects : opened[o] # None}

OwnOf(t) == {o \in Live : opened[o].thread = t}

\* The references of a thread are to objects that are there.  What the loop of openConfig() comes by
\* are objects the thread has opened and that are there, unless another thread gave up the last
\* reference to one while it was in the list: also after the test mode was switched on, after a
\* thread ended, and when the address was used for something else before.  Nothing else makes the
\* behaviour undefined.
ListIsLive ==
    /\ \A t \in Threads :
          /\ held[t] \cup ({mainConfig[t]} \ {None}) \subseteq Live
          /\ \A o \in configList[t] : o \in OwnOf(t) \/ <<t, o>> \in dangling
    /\ broken => dangling # {}

\* Code of a thread that opens a file twice has one object for it, by whichever of its names,
\* as long as the test mode does not change.  What other threads have opened is not looked for.
OneConfig ==
    \A t \in Threads : \A o, p \in held[t] \cap OwnOf(t) :
        opened[o] = opened[p] => o = p

\* The code of a thread never has two watchers for an object, each of which would read the files
\* again, and in the main thread create() always has one to return.  A removal that came late from
\* another thread may take the list of the main thread a watcher.
OneWatcher ==
    /\ \A v, w \in Watchers :
          watching[v] # None /\ watching[v] = watching[w] /\ user[v] = user[w]
              => v = w \/ watching[v] \in strayed
    /\ MainThread \notin refused

\* "Instantiate a ConfigWatcher for a given config": there is one, then.
CreateGivesWatcher == refused = {}

\* "The openConfig() method is threadsafe: every thread gets a separate repository of shared KConfig
\* objects": nothing another thread does with a reference breaks the repository, then.
RepositoryIsOwn == \A t \in Threads : configList[t] \subseteq OwnOf(t)
=============================================================================
