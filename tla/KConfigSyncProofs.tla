-------------------------- MODULE KConfigSyncProofs --------------------------
(***************************************************************************)
(* Proofs about KConfigSync, for any number of programs, keys and values.  *)
(***************************************************************************)
EXTENDS KConfigSync, TLAPS

-----------------------------------------------------------------------------
(* Types *)

\* An empty file, and a change laid over a file, are contents of files.
LEMMA ContentType ==
    /\ Nothing \in Content
    /\ \A c, d \in Content : Overlay(c, d) \in Content
BY DEF Content, Nothing, Overlay

\* The start of a sync keeps the types of what it changes.
LEMMA BeginType ==
    ASSUME TypeOK, NEW p \in Procs, Begin(p)
    PROVE  /\ phase' \in [Procs -> Phase]
           /\ work' \in [Procs -> Files]
           /\ bDirty' \in [Procs -> BOOLEAN]
<1>1. Own[p] \in Files /\ "kdeglobals" \in Files
  BY SyncAssumption DEF Files
<1>2. QED
  BY <1>1 DEF TypeOK, Begin, Goto, Phase

\* So does the end of a file.
LEMMA AfterFileType ==
    ASSUME TypeOK, NEW p \in Procs, AfterFile(p)
    PROVE  /\ phase' \in [Procs -> Phase]
           /\ merging' \in [Procs -> Content] /\ writeMap' \in [Procs -> Content]
           /\ UNCHANGED <<lock, work, pending, changes>>
<1>1. phase' \in [Procs -> Phase]
  BY DEF TypeOK, AfterFile, Goto, Phase
<1>2. merging' \in [Procs -> Content] /\ writeMap' \in [Procs -> Content]
  BY ContentType DEF TypeOK, AfterFile
<1>3. QED
  BY <1>1, <1>2 DEF AfterFile

\* The state keeps its type: whatever the programs do, what they merge and write are contents of
\* files, and the holder of a lock is a program, a dead one, or nobody.
THEOREM SyncTypeCorrect == Spec => []TypeOK
<1>1. Init => TypeOK
  BY SyncAssumption, ContentType DEF Init, TypeOK, Phase, Files
<1>2. ASSUME TypeOK, [Next]_vars PROVE TypeOK'
  <2>1. CASE UNCHANGED vars
    BY <1>2, <2>1 DEF TypeOK, vars
  <2>2. ASSUME NEW p \in Procs, NEW f \in Targets(p), NEW k \in Keys, NEW v \in Values,
               Change(p, f, k, v)
        PROVE  TypeOK'
    <3>1. f \in Files
      BY SyncAssumption DEF Targets, Files
    <3>2. [pending[p][f] EXCEPT ![k] = v] \in Content
      BY <1>2, <3>1 DEF TypeOK, Content
    <3>3. pending' = [pending EXCEPT ![p] = [pending[p] EXCEPT ![f] =
                          [pending[p][f] EXCEPT ![k] = v]]]
      BY <2>2 DEF Change
    <3> HIDE DEF Content
    <3>4. [pending[p] EXCEPT ![f] = [pending[p][f] EXCEPT ![k] = v]] \in [Files -> Content]
      BY <1>2, <3>1, <3>2 DEF TypeOK
    <3>5. pending' \in [Procs -> [Files -> Content]]
      BY <1>2, <3>3, <3>4 DEF TypeOK
    <3>6. QED
      BY <1>2, <2>2, <3>5 DEF TypeOK, Change
  <2>3. ASSUME NEW p \in Procs, Sync(p) PROVE TypeOK'
    <3>1. CASE Locks(p)
      BY <1>2, <2>3, <3>1 DEF TypeOK, Sync, Goto, Phase
    <3>2. CASE ~Locks(p)
      BY <1>2, <2>3, <3>2, BeginType DEF TypeOK, Sync
    <3>3. QED
      BY <3>1, <3>2
  <2>4. ASSUME NEW p \in Procs, Step(p) PROVE TypeOK'
    <3>1. Own[p] \in Files /\ "kdeglobals" \in Files
      BY SyncAssumption DEF Files
    <3>2. CASE LockOwn(p)
      BY <1>2, <3>1, <3>2, BeginType DEF TypeOK, LockOwn, Lock
    <3>3. CASE GiveUpOwn(p)
      BY <1>2, <3>3 DEF TypeOK, GiveUpOwn, Goto, Phase
    <3>4. CASE LockGlobal(p)
      BY <1>2, <3>1, <3>4 DEF TypeOK, LockGlobal, Lock, Goto, Phase
    <3>5. CASE GiveUpGlobal(p)
      BY <1>2, <3>1, <3>5 DEF TypeOK, GiveUpGlobal, Unlock, Goto, Phase
    <3>6. CASE Merge(p)
      <4>1. /\ pending[p][work[p]] \in Content
            /\ file[work[p]] \in Content
        BY <1>2 DEF TypeOK
      <4>2. Overlay(file[work[p]], pending[p][work[p]]) \in Content
        BY <4>1, ContentType
      <4>3. [pending[p] EXCEPT ![work[p]] = Nothing] \in [Files -> Content]
        BY <1>2, ContentType DEF TypeOK
      <4>4. pending' = [pending EXCEPT ![p] = [pending[p] EXCEPT ![work[p]] = Nothing]]
        BY <3>6 DEF Merge
      <4>5. pending' \in [Procs -> [Files -> Content]]
        BY <1>2, <4>3, <4>4 DEF TypeOK
      <4>6. merging' \in [Procs -> Content] /\ writeMap' \in [Procs -> Content]
        BY <1>2, <3>6, <4>1, <4>2 DEF TypeOK, Merge
      <4>7. phase' \in [Procs -> Phase]
        BY <1>2, <3>6 DEF TypeOK, Merge, Goto, Phase
      <4>8. UNCHANGED <<file, lock, work, bDirty, changes>>
        BY <3>6 DEF Merge
      <4>9. QED
        BY <1>2, <4>5, <4>6, <4>7, <4>8 DEF TypeOK
    <3>7. CASE Write(p) \/ FailWrite(p)
      <4>1. AfterFile(p)
        BY <3>7 DEF Write, FailWrite
      <4>2. file' \in [Files -> Content] /\ bDirty' \in [Procs -> BOOLEAN]
        BY <1>2, <3>7 DEF TypeOK, Write, FailWrite
      <4>3. QED
        BY <1>2, <4>1, <4>2, AfterFileType DEF TypeOK
    <3>8. CASE UnlockGlobal(p)
      <4>1. lock' \in [Files -> Procs \cup {Free, Dead}]
        BY <1>2, <3>8 DEF TypeOK, UnlockGlobal, Unlock
      <4>2. phase' \in [Procs -> Phase]
        BY <1>2, <3>8 DEF TypeOK, UnlockGlobal, Goto, Phase
      <4>3. work' \in [Procs -> Files]
        BY <1>2, <3>1, <3>8 DEF TypeOK, UnlockGlobal
      <4>4. QED
        BY <1>2, <3>8, <4>1, <4>2, <4>3 DEF TypeOK, UnlockGlobal
    <3>9. CASE UnlockOwn(p)
      BY <1>2, <3>1, <3>9 DEF TypeOK, UnlockOwn, Unlock, Goto, Phase
    <3>10. QED
      BY <2>4, <3>2, <3>3, <3>4, <3>5, <3>6, <3>7, <3>8, <3>9 DEF Step
  <2>5. ASSUME NEW p \in Procs, Crash(p) PROVE TypeOK'
    <3>1. Own[p] \in Files
      BY SyncAssumption
    <3>2. [f \in Files |-> Nothing] \in [Files -> Content]
      BY ContentType
    <3>3. QED
      BY <1>2, <2>5, <3>1, <3>2, ContentType DEF TypeOK, Crash, Goto, Phase
  <2>6. QED
    BY <1>2, <2>1, <2>2, <2>3, <2>4, <2>5 DEF Next
<1>3. QED
  BY <1>1, <1>2, PTL DEF Spec

-----------------------------------------------------------------------------
(* Locks *)

\* Which file a program is at follows from where it is in sync(): kdeglobals comes first and only
\* for objects of another file, and who waits for a lock is one who locks.
AtFile ==
    \A p \in Procs :
        /\ work[p] \in Targets(p)
        /\ phase[p] \in {"lockGlobal", "unlockGlobal"} =>
              work[p] = "kdeglobals" /\ Own[p] # "kdeglobals"
        /\ phase[p] \in {"lockOwn", "lockGlobal"} => p \notin ReadOnly

\* The phase a program goes to, for its own phase and that of the others.
LEMMA GotoPhase ==
    ASSUME TypeOK, NEW p \in Procs, NEW s, Goto(p, s)
    PROVE  \A q \in Procs : phase'[q] = IF q = p THEN s ELSE phase[q]
BY DEF TypeOK, Goto

\* AtFile is kept by every step.
LEMMA AtFileStep ==
    ASSUME TypeOK, AtFile, [Next]_vars
    PROVE  AtFile'
<1>1. CASE UNCHANGED vars
  BY <1>1 DEF AtFile, vars, Targets
<1>2. ASSUME NEW p \in Procs, NEW f \in Targets(p), NEW k \in Keys, NEW v \in Values,
             Change(p, f, k, v)
      PROVE  AtFile'
  BY <1>2 DEF AtFile, Change, Targets
<1>3. ASSUME NEW p \in Procs, Begin(p) PROVE AtFile'
  BY <1>3, GotoPhase DEF TypeOK, AtFile, Begin, Targets, Locks, Goto
<1>4. ASSUME NEW p \in Procs, Sync(p) PROVE AtFile'
  BY <1>3, <1>4 DEF TypeOK, AtFile, Sync, Goto, Targets, Locks
<1>5. ASSUME NEW p \in Procs, LockOwn(p) PROVE AtFile'
  BY <1>3, <1>5 DEF LockOwn
<1>6. ASSUME NEW p \in Procs, GiveUpOwn(p) \/ LockGlobal(p) \/ GiveUpGlobal(p)
      PROVE  AtFile'
  BY <1>6 DEF TypeOK, AtFile, GiveUpOwn, LockGlobal, GiveUpGlobal, Goto, Targets
<1>7. ASSUME NEW p \in Procs, Merge(p) PROVE AtFile'
  BY <1>7 DEF TypeOK, AtFile, Merge, Goto, Targets
<1>8. ASSUME NEW p \in Procs, Write(p) \/ FailWrite(p) PROVE AtFile'
  BY <1>8 DEF TypeOK, AtFile, Write, FailWrite, AfterFile, Goto, Targets
<1>9. ASSUME NEW p \in Procs, UnlockGlobal(p) \/ UnlockOwn(p) PROVE AtFile'
  BY <1>9 DEF TypeOK, AtFile, UnlockGlobal, UnlockOwn, Goto, Targets
<1>10. ASSUME NEW p \in Procs, Crash(p) PROVE AtFile'
  BY <1>10 DEF TypeOK, AtFile, Crash, Goto, Targets
<1>11. QED
  BY <1>1, <1>2, <1>4, <1>5, <1>6, <1>7, <1>8, <1>9, <1>10 DEF Next, Step

\* LocksMatch is kept, too.
LEMMA LocksMatchStep ==
    ASSUME TypeOK, AtFile, LocksMatch, [Next]_vars
    PROVE  LocksMatch'
<1>1. CASE UNCHANGED vars
  BY <1>1 DEF LocksMatch, vars, Inside
<1>2. ASSUME NEW p \in Procs, NEW f \in Targets(p), NEW k \in Keys, NEW v \in Values,
             Change(p, f, k, v)
      PROVE  LocksMatch'
  BY <1>2 DEF LocksMatch, Change, Inside
<1>3. ASSUME NEW p \in Procs, Sync(p) PROVE LocksMatch'
  BY <1>3 DEF TypeOK, LocksMatch, Sync, Begin, Goto, Inside, Locks
<1>4. ASSUME NEW p \in Procs, LockOwn(p) PROVE LocksMatch'
  BY <1>4, HolderAssumption, SyncAssumption
  DEF TypeOK, AtFile, LocksMatch, LockOwn, Lock, Held, Begin, Goto, Inside, Locks, Files
<1>5. ASSUME NEW p \in Procs, GiveUpOwn(p) PROVE LocksMatch'
  BY <1>5 DEF TypeOK, LocksMatch, GiveUpOwn, Goto, Inside
<1>6. ASSUME NEW p \in Procs, LockGlobal(p) PROVE LocksMatch'
  BY <1>6 DEF TypeOK, AtFile, LocksMatch, LockGlobal, Lock, Held, Goto, Inside, Files
<1>7. ASSUME NEW p \in Procs, GiveUpGlobal(p) PROVE LocksMatch'
  BY <1>7, HolderAssumption
  DEF TypeOK, AtFile, LocksMatch, GiveUpGlobal, Unlock, Goto, Inside, Files
<1>8. ASSUME NEW p \in Procs, Merge(p) PROVE LocksMatch'
  BY <1>8 DEF TypeOK, AtFile, LocksMatch, Merge, Goto, Inside
<1>9. ASSUME NEW p \in Procs, Write(p) \/ FailWrite(p) PROVE LocksMatch'
  BY <1>9 DEF TypeOK, AtFile, LocksMatch, Write, FailWrite, AfterFile, Goto, Inside, Targets
<1>10. ASSUME NEW p \in Procs, UnlockGlobal(p) PROVE LocksMatch'
  BY <1>10, HolderAssumption, SyncAssumption
  DEF TypeOK, AtFile, LocksMatch, UnlockGlobal, Unlock, Goto, Inside, Locks, Files
<1>11. ASSUME NEW p \in Procs, UnlockOwn(p) PROVE LocksMatch'
  BY <1>11, HolderAssumption
  DEF TypeOK, AtFile, LocksMatch, UnlockOwn, Unlock, Goto, Inside, Locks, Files
<1>12. ASSUME NEW p \in Procs, Crash(p) PROVE LocksMatch'
  BY <1>12, HolderAssumption DEF TypeOK, LocksMatch, Crash, Goto, Inside
<1>13. QED
  BY <1>1, <1>2, <1>3, <1>4, <1>5, <1>6, <1>7, <1>8, <1>9, <1>10, <1>11, <1>12 DEF Next, Step

\* Every program is where the locks say it is, and the files it is at are its own or kdeglobals.
LEMMA Locked == Spec => [](AtFile /\ LocksMatch)
<1>1. Init => AtFile /\ LocksMatch
  BY SyncAssumption, HolderAssumption
  DEF Init, AtFile, LocksMatch, Inside, Targets
<1>2. ASSUME TypeOK, AtFile /\ LocksMatch, [Next]_vars PROVE (AtFile /\ LocksMatch)'
  BY <1>2, AtFileStep, LocksMatchStep
<1>3. QED
  BY <1>1, <1>2, SyncTypeCorrect, PTL DEF Spec

\* A program that locks is between the lock and the unlock of a file exactly as long as the lock is
\* its own: every way out of sync(), giving up and crashes included, gives back what it took.
THEOREM LocksAreMatched == Spec => []LocksMatch
BY Locked, PTL

-----------------------------------------------------------------------------
(* Writes *)

\* What a program is about to write is the file as it is now, under its own changes, and those
\* are not pending any more.
Merged ==
    \A p \in Procs : phase[p] = "write" =>
        /\ writeMap[p] = Overlay(file[work[p]], merging[p])
        /\ pending[p][work[p]] = Nothing

\* No two programs that lock are at the same file.
LEMMA Exclusion ==
    ASSUME LocksMatch, TypeOK, ReadOnly = {},
           NEW p \in Procs, NEW q \in Procs,
           phase[p] = "write", phase[q] = "write", work[p] = work[q]
    PROVE  p = q
BY DEF LocksMatch, Inside, TypeOK

\* A merge is of the file as it is and of the changes for it.
LEMMA MergeEffect ==
    ASSUME TypeOK, NEW p \in Procs, Merge(p)
    PROVE  /\ writeMap'[p] = Overlay(file[work[p]], pending[p][work[p]])
           /\ merging'[p] = pending[p][work[p]]
           /\ pending'[p] = [pending[p] EXCEPT ![work[p]] = Nothing]
           /\ \A q \in Procs \ {p} : /\ writeMap'[q] = writeMap[q]
                                     /\ merging'[q] = merging[q]
                                     /\ pending'[q] = pending[q]
           /\ UNCHANGED <<file, work>>
           /\ Goto(p, "write") /\ phase[p] = "merge"
<1>1. /\ writeMap' = [writeMap EXCEPT ![p] = Overlay(file[work[p]], pending[p][work[p]])]
      /\ merging' = [merging EXCEPT ![p] = pending[p][work[p]]]
      /\ pending' = [pending EXCEPT ![p] = [pending[p] EXCEPT ![work[p]] = Nothing]]
      /\ UNCHANGED <<file, work>>
      /\ Goto(p, "write") /\ phase[p] = "merge"
  BY DEF Merge
<1>2. QED
  BY <1>1 DEF TypeOK

\* A change of a program leaves all other changes alone.
LEMMA ChangeEffect ==
    ASSUME TypeOK, NEW p \in Procs, NEW f \in Targets(p), NEW k \in Keys, NEW v \in Values,
           Change(p, f, k, v)
    PROVE  /\ f \in Files
           /\ pending'[p] = [pending[p] EXCEPT ![f] = [pending[p][f] EXCEPT ![k] = v]]
           /\ \A q \in Procs \ {p} : pending'[q] = pending[q]
           /\ phase[p] = "idle" /\ bDirty' = [bDirty EXCEPT ![p] = TRUE]
           /\ UNCHANGED <<file, lock, phase, work, merging, writeMap>>
<1>1. pending' = [pending EXCEPT ![p] = [pending[p] EXCEPT ![f] =
                      [pending[p][f] EXCEPT ![k] = v]]]
  BY DEF Change
<1>2. f \in Files
  BY SyncAssumption DEF Targets, Files
<1>3. /\ phase[p] = "idle" /\ bDirty' = [bDirty EXCEPT ![p] = TRUE]
      /\ UNCHANGED <<file, lock, phase, work, merging, writeMap>>
  BY DEF Change
<1>4. QED
  BY <1>1, <1>2, <1>3 DEF TypeOK

\* Merged is kept: the lock keeps everybody else from writing the file in between.
LEMMA MergedStep ==
    ASSUME TypeOK, LocksMatch, Merged, ReadOnly = {}, [Next]_vars
    PROVE  Merged'
<1>1. CASE UNCHANGED vars
  BY <1>1 DEF Merged, vars
<1>2. ASSUME NEW p \in Procs, NEW f \in Targets(p), NEW k \in Keys, NEW v \in Values,
             Change(p, f, k, v)
      PROVE  Merged'
  BY <1>2, ChangeEffect DEF Merged
<1>3. ASSUME NEW p \in Procs, Sync(p) PROVE Merged'
  BY <1>3 DEF TypeOK, Merged, Sync, Begin, Goto
<1>4. ASSUME NEW p \in Procs, LockOwn(p) PROVE Merged'
  BY <1>4 DEF TypeOK, Merged, LockOwn, Begin, Goto
<1>5. ASSUME NEW p \in Procs, GiveUpOwn(p) \/ LockGlobal(p) \/ GiveUpGlobal(p) PROVE Merged'
  BY <1>5 DEF TypeOK, Merged, GiveUpOwn, LockGlobal, GiveUpGlobal, Goto
<1>6. ASSUME NEW p \in Procs, Merge(p) PROVE Merged'
  <2>1. pending'[p][work[p]] = Nothing
    <3>1. work[p] \in Files /\ pending[p] \in [Files -> Content]
      BY DEF TypeOK
    <3>2. pending'[p] = [pending[p] EXCEPT ![work[p]] = Nothing]
      BY <1>6, MergeEffect
    <3>3. QED
      BY <3>1, <3>2
  <2>2. \A q \in Procs : phase'[q] = IF q = p THEN "write" ELSE phase[q]
    BY <1>6, MergeEffect, GotoPhase
  <2>3. /\ work' = work /\ file' = file
        /\ writeMap'[p] = Overlay(file[work[p]], merging'[p])
    BY <1>6, MergeEffect
  <2>4. \A q \in Procs \ {p} : /\ writeMap'[q] = writeMap[q]
                                /\ merging'[q] = merging[q]
                                /\ pending'[q] = pending[q]
    BY <1>6, MergeEffect
  <2>5. QED
    BY <2>1, <2>2, <2>3, <2>4 DEF Merged
<1>7. ASSUME NEW p \in Procs, Write(p) PROVE Merged'
  <2>1. \A q \in Procs : phase'[q] = "write" => q # p /\ phase[q] = "write"
    BY <1>7 DEF TypeOK, Write, AfterFile, Goto
  <2>2. \A q \in Procs : phase'[q] = "write" => work[q] # work[p]
    BY <1>7, <2>1, Exclusion DEF Write
  <2>3. \A q \in Procs : phase'[q] = "write" =>
           /\ file'[work[q]] = file[work[q]] /\ work'[q] = work[q]
           /\ writeMap'[q] = writeMap[q] /\ merging'[q] = merging[q]
           /\ pending'[q] = pending[q]
    BY <1>7, <2>1, <2>2 DEF TypeOK, Write, AfterFile
  <2>4. QED
    BY <2>1, <2>3 DEF Merged
<1>8. ASSUME NEW p \in Procs, FailWrite(p) PROVE Merged'
  BY <1>8 DEF TypeOK, Merged, FailWrite, AfterFile, Goto
<1>9. ASSUME NEW p \in Procs, UnlockGlobal(p) \/ UnlockOwn(p) PROVE Merged'
  BY <1>9 DEF TypeOK, Merged, UnlockGlobal, UnlockOwn, Goto
<1>10. ASSUME NEW p \in Procs, Crash(p) PROVE Merged'
  BY <1>10 DEF TypeOK, Merged, Crash, Goto
<1>11. QED
  BY <1>1, <1>2, <1>3, <1>4, <1>5, <1>6, <1>7, <1>8, <1>9, <1>10 DEF Next, Step

\* As long as every program locks.
LEMMA MergesAreCurrent == ASSUME ReadOnly = {} PROVE Spec => []Merged
<1>1. Init => Merged
  BY DEF Init, Merged
<1>2. ASSUME TypeOK, AtFile /\ LocksMatch, Merged, [Next]_vars PROVE Merged'
  BY <1>2, MergedStep
<1>3. QED
  BY <1>1, <1>2, SyncTypeCorrect, Locked, PTL DEF Spec

\* Only writes change files.
LEMMA FilesChangeByWrite ==
    ASSUME TypeOK, [Next]_vars, file' # file
    PROVE  \E p \in Procs : Write(p)
BY DEF Next, Step, Change, Sync, Begin, LockOwn, GiveUpOwn, LockGlobal, GiveUpGlobal, Merge,
       FailWrite, AfterFile, UnlockGlobal, UnlockOwn, Crash, vars

\* All that a write changes in a file are keys its program changed: no update of another program is
\* lost, in whatever order the programs lock, merge, write and die, if all of them lock.
THEOREM NoLostUpdates == ASSUME ReadOnly = {} PROVE Spec => OnlyOwnKeysChange
<1> DEFINE A == \A f \in Files, k \in Keys : file'[f][k] # file[f][k] =>
                   \E p \in Procs : /\ phase[p] = "write" /\ work[p] = f
                                    /\ merging[p][k] # Absent /\ merging[p][k] = file'[f][k]
<1>1. ASSUME TypeOK, Merged, [Next]_vars PROVE A
  <2>1. SUFFICES ASSUME NEW f \in Files, NEW k \in Keys, file'[f][k] # file[f][k]
                 PROVE  \E p \in Procs : /\ phase[p] = "write" /\ work[p] = f
                                         /\ merging[p][k] # Absent
                                         /\ merging[p][k] = file'[f][k]
    OBVIOUS
  <2>2. PICK p \in Procs : Write(p)
    BY <1>1, <2>1, FilesChangeByWrite
  <2>3. work[p] = f /\ file'[f] = Overlay(file[f], merging[p]) /\ phase[p] = "write"
    BY <1>1, <2>1, <2>2 DEF TypeOK, Merged, Write
  <2>4. QED
    BY <2>1, <2>3 DEF Overlay
<1>2. QED
  BY <1>1, SyncTypeCorrect, MergesAreCurrent, PTL DEF Spec, OnlyOwnKeysChange

-----------------------------------------------------------------------------
(* Pending changes *)

\* How many of a program's changes may still be pending at each place in sync(): those for
\* kdeglobals are dealt with before those for the own file, and there are no others.
Drained(p) ==
    /\ \A f \in Files : f \notin Targets(p) => pending[p][f] = Nothing
    /\ phase[p] = "lockOwn" => bDirty[p]
    /\ phase[p] = "idle" /\ ~bDirty[p] => \A f \in Files : pending[p][f] = Nothing
    /\ phase[p] \in {"merge", "write"} /\ work[p] = Own[p] =>
          \A f \in Files : f # Own[p] => pending[p][f] = Nothing
    /\ phase[p] = "write" => pending[p][work[p]] = Nothing
    /\ phase[p] = "unlockGlobal" => pending[p]["kdeglobals"] = Nothing
    /\ phase[p] = "unlockOwn" => \A f \in Files : pending[p][f] = Nothing

\* Others' steps do not matter.
LEMMA DrainedOthers ==
    ASSUME NEW p, Drained(p),
           phase'[p] = phase[p], work'[p] = work[p], pending'[p] = pending[p],
           bDirty'[p] = bDirty[p]
    PROVE  Drained(p)'
BY DEF Drained, Targets

\* The start of a sync leaves for later what is pending for the own file.
LEMMA BeginDrained ==
    ASSUME TypeOK, NEW p \in Procs, Drained(p), Begin(p), UNCHANGED pending
    PROVE  Drained(p)'
<1> DEFINE globals == Own[p] # "kdeglobals" /\ pending[p]["kdeglobals"] # Nothing
<1>1. /\ Own[p] \in Files
      /\ \A f \in Files : f # Own[p] => f = "kdeglobals" \/ f \notin Targets(p)
  BY SyncAssumption DEF Files, Targets
<1>2. /\ work'[p] = IF globals THEN "kdeglobals" ELSE Own[p]
      /\ phase'[p] = IF globals /\ Locks(p) THEN "lockGlobal"
                     ELSE IF globals \/ pending[p][Own[p]] # Nothing THEN "merge"
                     ELSE "unlockOwn"
  BY DEF TypeOK, Begin, Goto
<1>3. ~globals => \A f \in Files : f # Own[p] => pending[p][f] = Nothing
  BY <1>1 DEF Drained
<1>4. QED
  BY <1>1, <1>2, <1>3 DEF Drained, Targets

\* Every step of a program keeps its own changes accounted for.
LEMMA DrainedStep ==
    ASSUME TypeOK, AtFile, NEW p \in Procs, Drained(p),
           \/ \E f \in Targets(p), k \in Keys, v \in Values : Change(p, f, k, v)
           \/ Sync(p) \/ Step(p) \/ Crash(p)
    PROVE  Drained(p)'
<1>1. ASSUME NEW f \in Targets(p), NEW k \in Keys, NEW v \in Values, Change(p, f, k, v)
      PROVE  Drained(p)'
  <2>1. /\ pending'[p] = [pending[p] EXCEPT ![f] = [pending[p][f] EXCEPT ![k] = v]]
        /\ phase[p] = "idle" /\ bDirty' = [bDirty EXCEPT ![p] = TRUE]
        /\ UNCHANGED <<phase, work>>
    BY <1>1, ChangeEffect
  <2>2. \A h \in Files : h # f => pending'[p][h] = pending[p][h]
    BY <2>1 DEF TypeOK
  <2>3. QED
    <3>1. bDirty'[p] /\ phase'[p] = "idle"
      BY <2>1 DEF TypeOK
    <3>2. QED
      BY <2>2, <3>1 DEF Drained, Targets
<1>2. CASE Sync(p)
  <2>1. CASE Locks(p)
    BY <1>2, <2>1 DEF TypeOK, Sync, Goto, Drained, Targets
  <2>2. CASE ~Locks(p)
    BY <1>2, <2>2, BeginDrained DEF Sync
  <2>3. QED
    BY <2>1, <2>2
<1>3. CASE LockOwn(p)
  BY <1>3, BeginDrained DEF LockOwn
<1>4. CASE GiveUpOwn(p)
  BY <1>4 DEF TypeOK, GiveUpOwn, Goto, Drained, Targets
<1>5. CASE LockGlobal(p)
  BY <1>5 DEF TypeOK, AtFile, LockGlobal, Goto, Drained, Targets
<1>6. CASE GiveUpGlobal(p)
  BY <1>6 DEF TypeOK, GiveUpGlobal, Goto, Drained, Targets
<1>7. CASE Merge(p)
  <2>1. /\ pending'[p] = [pending[p] EXCEPT ![work[p]] = Nothing]
        /\ work' = work /\ phase'[p] = "write" /\ phase[p] = "merge"
    BY <1>7, MergeEffect, GotoPhase
  <2>2. \A f \in Files : pending'[p][f] = IF f = work[p] THEN Nothing ELSE pending[p][f]
    BY <2>1 DEF TypeOK
  <2>3. work[p] \in Files
    BY DEF TypeOK
  <2>4. QED
    BY <2>1, <2>2, <2>3 DEF Drained, Targets
<1>8. CASE Write(p) \/ FailWrite(p)
  <2>1. /\ phase'[p] = IF work[p] # Own[p] THEN "unlockGlobal" ELSE "unlockOwn"
        /\ phase[p] = "write" /\ UNCHANGED <<work, pending>>
    BY <1>8 DEF TypeOK, Write, FailWrite, AfterFile, Goto
  <2>2. work[p] # Own[p] => work[p] = "kdeglobals"
    BY DEF AtFile, Targets
  <2>3. QED
    BY <2>1, <2>2 DEF Drained, Targets
<1>9. CASE UnlockGlobal(p)
  <2>1. /\ phase'[p] = IF pending[p][Own[p]] # Nothing THEN "merge" ELSE "unlockOwn"
        /\ phase[p] = "unlockGlobal" /\ pending' = pending /\ work'[p] = Own[p]
    BY <1>9 DEF TypeOK, UnlockGlobal, Goto
  <2>2. \A f \in Files : f # Own[p] => pending[p][f] = Nothing
    BY <2>1 DEF Drained, Targets
  <2>3. QED
    BY <2>1, <2>2 DEF Drained, Targets
<1>10. CASE UnlockOwn(p)
  BY <1>10 DEF TypeOK, UnlockOwn, Goto, Drained, Targets
<1>11. CASE Crash(p)
  BY <1>11 DEF TypeOK, Crash, Goto, Drained, Targets
<1>12. QED
  BY <1>1, <1>2, <1>3, <1>4, <1>5, <1>6, <1>7, <1>8, <1>9, <1>10, <1>11 DEF Step

\* A step of one program does not touch what another one keeps for itself.
LEMMA OthersUntouched ==
    ASSUME TypeOK, NEW p \in Procs, NEW q \in Procs, p # q,
           \/ \E f \in Targets(p), k \in Keys, v \in Values : Change(p, f, k, v)
           \/ Sync(p) \/ Step(p) \/ Crash(p)
    PROVE  /\ phase'[q] = phase[q] /\ work'[q] = work[q] /\ bDirty'[q] = bDirty[q]
           /\ pending'[q] = pending[q] /\ merging'[q] = merging[q] /\ writeMap'[q] = writeMap[q]
<1>1. ASSUME NEW f \in Targets(p), NEW k \in Keys, NEW v \in Values, Change(p, f, k, v)
      PROVE  /\ pending'[q] = pending[q] /\ bDirty'[q] = bDirty[q]
             /\ UNCHANGED <<phase, work, merging, writeMap>>
  <2>1. /\ pending'[q] = pending[q] /\ bDirty' = [bDirty EXCEPT ![p] = TRUE]
        /\ UNCHANGED <<phase, work, merging, writeMap>>
    BY <1>1, ChangeEffect
  <2>2. QED
    BY <2>1 DEF TypeOK
<1>2. CASE \E f \in Targets(p), k \in Keys, v \in Values : Change(p, f, k, v)
  BY <1>1, <1>2
<1>3. CASE Sync(p)
  BY <1>3 DEF TypeOK, Sync, Begin, Goto
<1>4. CASE LockOwn(p) \/ GiveUpOwn(p) \/ LockGlobal(p) \/ GiveUpGlobal(p)
  BY <1>4 DEF TypeOK, LockOwn, GiveUpOwn, LockGlobal, GiveUpGlobal, Begin, Goto
<1>5. CASE Merge(p)
  <2>1. phase'[q] = phase[q]
    BY <1>5, MergeEffect, GotoPhase
  <2>2. bDirty' = bDirty
    BY <1>5 DEF Merge
  <2>3. QED
    BY <1>5, <2>1, <2>2, MergeEffect
<1>6. CASE Write(p) \/ FailWrite(p) \/ UnlockGlobal(p) \/ UnlockOwn(p)
  BY <1>6 DEF TypeOK, Write, FailWrite, UnlockGlobal, UnlockOwn, AfterFile, Goto
<1>7. CASE Crash(p)
  BY <1>7 DEF TypeOK, Crash, Goto
<1>8. QED
  BY <1>2, <1>3, <1>4, <1>5, <1>6, <1>7 DEF Step

\* So every program's changes are accounted for.
LEMMA AllDrained == Spec => [](\A p \in Procs : Drained(p))
<1> DEFINE D == \A p \in Procs : Drained(p)
<1>1. Init => D
  <2>1. ASSUME Init, NEW p \in Procs
        PROVE  phase[p] = "idle" /\ \A f \in Files : pending[p][f] = Nothing
    BY <2>1 DEF Init
  <2>2. QED
    BY <2>1 DEF Drained
<1>2. ASSUME TypeOK, AtFile /\ LocksMatch, D, [Next]_vars PROVE D'
  <2>1. CASE UNCHANGED vars
    BY <1>2, <2>1 DEF vars, Drained, Targets
  <2>2. ASSUME NEW p \in Procs,
               \/ \E f \in Targets(p), k \in Keys, v \in Values : Change(p, f, k, v)
               \/ Sync(p) \/ Step(p) \/ Crash(p)
        PROVE  D'
    <3>1. Drained(p)'
      BY <1>2, <2>2, DrainedStep
    <3>2. ASSUME NEW q \in Procs, q # p PROVE Drained(q)'
      BY <1>2, <2>2, <3>2, OthersUntouched, DrainedOthers
    <3>3. QED
      BY <3>1, <3>2
  <2>3. QED
    BY <1>2, <2>1, <2>2 DEF Next
<1>3. QED
  BY <1>1, <1>2, SyncTypeCorrect, Locked, PTL DEF Spec

\* An idle program whose object is not dirty has nothing pending, so nothing is kept from being
\* stored because isDirty() says no: not after giving up a lock, nor after a write that failed.
THEOREM PendingKnown == Spec => []PendingIsDirty
<1>1. ASSUME TypeOK, \A p \in Procs : Drained(p) PROVE PendingIsDirty
  <2>1. ASSUME NEW p \in Procs, phase[p] = "idle", ~bDirty[p]
        PROVE  pending[p] = [f \in Files |-> Nothing]
    <3>1. \A f \in Files : pending[p][f] = Nothing
      BY <1>1, <2>1 DEF Drained
    <3>2. pending[p] \in [Files -> Content]
      BY <1>1 DEF TypeOK
    <3>3. QED
      BY <3>1, <3>2
  <2>2. QED
    BY <2>1 DEF PendingIsDirty
<1>2. QED
  BY <1>1, SyncTypeCorrect, AllDrained, PTL

-----------------------------------------------------------------------------
(* The promise *)

\* What a program has not stored: a merge that is not written counts.
Kept(p) == [f \in Files |-> IF phase[p] = "write" /\ work[p] = f THEN merging[p]
                            ELSE pending[p][f]]

Unsaved == [p \in Procs |-> Kept(p)]

\* Files hold the same in KConfigStore.
LEMMA SameContent ==
    /\ Promise!Files = Files /\ Promise!Content = Content /\ Promise!Nothing = Nothing
    /\ \A c, d : Promise!Overlay(c, d) = Overlay(c, d)
BY DEF Promise!Files, Files, Promise!Content, Content, Promise!Nothing, Nothing,
       Promise!Overlay, Overlay

\* A step of one program leaves what others have not stored.
LEMMA UnsavedOthers ==
    ASSUME TypeOK, NEW p \in Procs,
           \/ \E f \in Targets(p), k \in Keys, v \in Values : Change(p, f, k, v)
           \/ Sync(p) \/ Step(p) \/ Crash(p)
    PROVE  \A q \in Procs : q # p => Kept(q)' = Kept(q)
BY OthersUntouched DEF Kept

\* If it leaves its own, too, and the files, KConfigStore does not notice.
LEMMA Unnoticed ==
    ASSUME TypeOK, NEW p \in Procs, \A q \in Procs : q # p => Kept(q)' = Kept(q),
           Kept(p)' = Kept(p)
    PROVE  Unsaved' = Unsaved
BY DEF Unsaved

\* The steps of a sync but the write itself.
LEMMA SyncUnnoticed ==
    ASSUME TypeOK, AtFile, NEW p \in Procs,
           \/ Sync(p) \/ LockOwn(p) \/ GiveUpOwn(p) \/ LockGlobal(p) \/ GiveUpGlobal(p)
           \/ Merge(p) \/ UnlockGlobal(p) \/ UnlockOwn(p)
    PROVE  Kept(p)' = Kept(p) /\ file' = file
<1>1. CASE Sync(p)
  BY <1>1 DEF TypeOK, Kept, Sync, Begin, Goto
<1>2. CASE LockOwn(p)
  BY <1>2 DEF TypeOK, Kept, LockOwn, Begin, Goto
<1>3. CASE GiveUpOwn(p) \/ LockGlobal(p) \/ GiveUpGlobal(p)
  BY <1>3 DEF TypeOK, Kept, GiveUpOwn, LockGlobal, GiveUpGlobal, Goto
<1>4. CASE Merge(p)
  <2>1. /\ pending'[p] = [pending[p] EXCEPT ![work[p]] = Nothing]
        /\ merging'[p] = pending[p][work[p]]
        /\ work' = work /\ file' = file /\ phase'[p] = "write" /\ phase[p] = "merge"
    BY <1>4, MergeEffect, GotoPhase
  <2>2. \A f \in Files : pending'[p][f] = IF f = work[p] THEN Nothing ELSE pending[p][f]
    BY <2>1 DEF TypeOK
  <2>3. QED
    BY <2>1, <2>2 DEF Kept
<1>5. CASE UnlockGlobal(p) \/ UnlockOwn(p)
  BY <1>5 DEF TypeOK, Kept, UnlockGlobal, UnlockOwn, Goto
<1>6. QED
  BY <1>1, <1>2, <1>3, <1>4, <1>5

\* A change, a write and the end of a program are those of KConfigStore.
LEMMA ChangeImplements ==
    ASSUME TypeOK, NEW p \in Procs, NEW f \in Targets(p), NEW k \in Keys, NEW v \in Values,
           Change(p, f, k, v)
    PROVE  f \in Files /\ Promise!Change(p, f, k, v)
<1>1. /\ f \in Files
      /\ pending'[p] = [pending[p] EXCEPT ![f] = [pending[p][f] EXCEPT ![k] = v]]
      /\ phase[p] = "idle" /\ UNCHANGED <<file, phase, work, merging>>
  BY ChangeEffect
<1>2. Kept(p) = pending[p] /\ Kept(p)' = pending'[p]
  BY <1>1 DEF Kept, TypeOK
<1>3. \A q \in Procs : q # p => Kept(q)' = Kept(q)
  BY UnsavedOthers
<1>4. Unsaved' = [Unsaved EXCEPT ![p] = [Unsaved[p] EXCEPT ![f] =
                      [Unsaved[p][f] EXCEPT ![k] = v]]]
  BY <1>1, <1>2, <1>3 DEF Unsaved
<1>5. Unsaved' = [Unsaved EXCEPT ![p][f][k] = v]
  BY <1>4
<1>6. QED
  BY <1>1, <1>5 DEF Promise!Change, Unsaved, Kept

\* The write stores what the program has pending for the file, and nothing else: the merge is of
\* the file as it still is.
LEMMA WriteImplements ==
    ASSUME TypeOK, Merged, NEW p \in Procs, Write(p), NEW f \in Files, f = work[p]
    PROVE  Promise!Commit(p, f)
<1>1. /\ phase[p] = "write"
      /\ file' = [file EXCEPT ![f] = writeMap[p]]
      /\ pending' = pending
  BY DEF TypeOK, Write, AfterFile
<1>2. phase'[p] # "write"
  BY DEF TypeOK, Write, AfterFile, Goto
<1>3. writeMap[p] = Overlay(file[f], merging[p]) /\ pending[p][f] = Nothing
  BY <1>1 DEF Merged
<1>4. Kept(p)' = [Kept(p) EXCEPT ![f] = Nothing] /\ Kept(p)[f] = merging[p]
  BY <1>1, <1>2, <1>3 DEF Kept
<1>5. \A q \in Procs : q # p => Kept(q)' = Kept(q)
  BY UnsavedOthers DEF Step
<1>6. Unsaved' = [Unsaved EXCEPT ![p] = [Unsaved[p] EXCEPT ![f] = Nothing]]
  BY <1>4, <1>5 DEF Unsaved
<1>7. file' = [file EXCEPT ![f] = Overlay(file[f], Unsaved[p][f])]
  BY <1>1, <1>3, <1>4 DEF Unsaved
<1>8. Unsaved' = [Unsaved EXCEPT ![p][f] = Nothing]
  BY <1>6
<1>9. QED
  BY <1>7, <1>8, SameContent DEF Promise!Commit, Unsaved, Kept

\* A write that fails leaves the file alone, and what was merged for it is gone.
LEMMA FailImplements ==
    ASSUME TypeOK, Merged, NEW p \in Procs, FailWrite(p), NEW f \in Files, f = work[p]
    PROVE  Promise!Drop(p, f)
<1>1. phase[p] = "write" /\ file' = file /\ pending' = pending /\ p \in Failing
  BY DEF FailWrite, AfterFile
<1>2. phase'[p] # "write"
  BY DEF TypeOK, FailWrite, AfterFile, Goto
<1>3. pending[p][f] = Nothing
  BY <1>1 DEF Merged
<1>4. Kept(p)' = [Kept(p) EXCEPT ![f] = Nothing]
  BY <1>1, <1>2, <1>3 DEF Kept
<1>5. \A q \in Procs : q # p => Kept(q)' = Kept(q)
  BY UnsavedOthers DEF Step
<1>6. Unsaved' = [Unsaved EXCEPT ![p] = [Unsaved[p] EXCEPT ![f] = Nothing]]
  BY <1>4, <1>5 DEF Unsaved
<1>7. Unsaved' = [Unsaved EXCEPT ![p][f] = Nothing]
  BY <1>6
<1>8. QED
  BY <1>1, <1>7, SameContent DEF Promise!Drop, Unsaved, Kept

\* A program that ends loses what it has not stored, wherever it was in a sync.
LEMMA CrashImplements ==
    ASSUME TypeOK, NEW p \in Procs, Crash(p)
    PROVE  Promise!Lose(p)
<1>1. Kept(p)' = [f \in Files |-> Nothing] /\ file' = file
  BY DEF TypeOK, Kept, Crash, Goto
<1>2. \A q \in Procs : q # p => Kept(q)' = Kept(q)
  BY UnsavedOthers
<1>3. Unsaved' = [Unsaved EXCEPT ![p] = [f \in Files |-> Nothing]]
  BY <1>1, <1>2 DEF Unsaved
<1>4. QED
  BY <1>1, <1>3, SameContent DEF Promise!Lose, Unsaved, Kept

\* Each step is one of KConfigStore or changes nothing there.
LEMMA StepImplements ==
    ASSUME TypeOK, AtFile, Merged, [Next]_vars
    PROVE  [Promise!StoreNext]_(Promise!svars)
<1>1. ASSUME Unsaved' = Unsaved, file' = file PROVE UNCHANGED Promise!svars
  BY <1>1 DEF Promise!svars, Unsaved, Kept
<1>2. CASE UNCHANGED vars
  <2>1. Unsaved' = Unsaved /\ file' = file
    BY <1>2 DEF vars, Unsaved, Kept
  <2>2. QED
    BY <1>1, <2>1
<1>3. ASSUME NEW p \in Procs, NEW f \in Targets(p), NEW k \in Keys, NEW v \in Values,
             Change(p, f, k, v)
      PROVE  Promise!StoreNext
  BY <1>3, ChangeImplements, SameContent DEF Promise!StoreNext
<1>4. ASSUME NEW p \in Procs,
             \/ Sync(p) \/ LockOwn(p) \/ GiveUpOwn(p) \/ LockGlobal(p) \/ GiveUpGlobal(p)
             \/ Merge(p) \/ UnlockGlobal(p) \/ UnlockOwn(p)
      PROVE  UNCHANGED Promise!svars
  <2>1. Kept(p)' = Kept(p) /\ file' = file
    BY <1>4, SyncUnnoticed
  <2>2. \A q \in Procs : q # p => Kept(q)' = Kept(q)
    BY <1>4, UnsavedOthers DEF Step
  <2>3. QED
    BY <1>1, <2>1, <2>2, Unnoticed
<1>5. ASSUME NEW p \in Procs, Write(p) PROVE Promise!StoreNext
  <2>1. PICK f \in Files : f = work[p]
    BY DEF TypeOK
  <2>2. Promise!Commit(p, f)
    BY <1>5, <2>1, WriteImplements
  <2>3. QED
    BY <2>2, SameContent DEF Promise!StoreNext
<1>6. ASSUME NEW p \in Procs, Crash(p) PROVE Promise!StoreNext
  BY <1>6, CrashImplements DEF Promise!StoreNext
<1>7. ASSUME NEW p \in Procs, FailWrite(p) PROVE Promise!StoreNext
  <2>1. PICK f \in Files : f = work[p]
    BY DEF TypeOK
  <2>2. Promise!Drop(p, f)
    BY <1>7, <2>1, FailImplements
  <2>3. QED
    BY <2>2, SameContent DEF Promise!StoreNext
<1>8. QED
  BY <1>2, <1>3, <1>4, <1>5, <1>6, <1>7 DEF Next, Step

\* If every program locks, sync() is the atomic commit it promises to be: a program's pending
\* changes of a file reach it at once, nothing else in it changes, a program that dies anywhere in
\* sync() loses only what it has not stored, and a write that fails only what it was to write.
THEOREM SyncKeepsPromise ==
    ASSUME ReadOnly = {}
    PROVE  Spec => KeepsPromise
<1>1. Init => Promise!StoreInit
  <2>1. SUFFICES ASSUME Init PROVE Promise!StoreInit
    OBVIOUS
  <2>2. file \in [Files -> Content]
    BY <2>1, ContentType DEF Init
  <2>3. Unsaved = [p \in Procs |-> [f \in Files |-> Nothing]]
    BY <2>1 DEF Init, Unsaved, Kept
  <2>4. QED
    BY <2>2, <2>3, SameContent DEF Promise!StoreInit, Unsaved, Kept
<1>2. ASSUME TypeOK, AtFile /\ LocksMatch, Merged, [Next]_vars
      PROVE  [Promise!StoreNext]_(Promise!svars)
  BY <1>2, StepImplements
<1>3. QED
  BY <1>1, <1>2, SyncTypeCorrect, Locked, MergesAreCurrent, PTL
  DEF Spec, KeepsPromise, Promise!StoreSpec

=============================================================================
