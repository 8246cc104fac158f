----------------------------- MODULE KConfigSync -----------------------------
(***************************************************************************)
(* sync() step by step, in programs that run at the same time              *)
(* (KConfig::sync() in src/core/kconfig.cpp, lock() and writeConfig() in   *)
(* src/core/kconfigini.cpp, the lock and the file in                       *)
(* src/core/kconfiginibackendreader_p.h).                                  *)
(*                                                                         *)
(* A sync locks the object's own file, then kdeglobals if it has pending   *)
(* changes for it; in each file it merges with what it finds and writes    *)
(* the result.  What a merge does to one entry is the business of          *)
(* KConfigIni; here an entry is a key and a value, and of interest is what *)
(* other programs do between any two steps.                                *)
(***************************************************************************)
EXTENDS KConfigProcs, Naturals

CONSTANTS
    Own,            \* the file of each program's object
    ReadOnly,       \* the programs whose file could not be written when they opened it
    MaxChanges      \* bound: changes of all programs

ASSUME SyncAssumption ==
    /\ Own \in [Procs -> Files]
    /\ ReadOnly \subseteq Procs
    /\ MaxChanges \in Nat

CONSTANTS Free, Dead    \* who holds a lock: nobody, or a program that is gone

ASSUME HolderAssumption == Free \notin Procs /\ Dead \notin Procs

VARIABLES
    file,       \* what each file holds
    lock,       \* who made the lock file of each file
    phase,      \* where in sync() each program is
    work,       \* the file it merges and writes
    pending,    \* its dirty entries, by the file they are for
    bDirty,     \* KConfigPrivate::bDirty
    merging,    \* the entries that were merged, no longer dirty
    writeMap,   \* the result of the merge
    changes     \* changes so far

vars == <<file, lock, phase, work, pending, bDirty, merging, writeMap, changes>>

Phase == {"idle", "lockOwn", "lockGlobal", "merge", "write", "unlockGlobal", "unlockOwn"}

TypeOK ==
    /\ file \in [Files -> Content]
    /\ lock \in [Files -> Procs \cup {Free, Dead}]
    /\ phase \in [Procs -> Phase]
    /\ work \in [Procs -> Files]
    /\ pending \in [Procs -> [Files -> Content]]
    /\ bDirty \in [Procs -> BOOLEAN]
    /\ merging \in [Procs -> Content]
    /\ writeMap \in [Procs -> Content]
    /\ changes \in Nat

\* An object of kdeglobals itself has no other file to write to.
Targets(p) == {Own[p], "kdeglobals"}

Init ==
    /\ file = [f \in Files |-> Nothing]
    /\ lock = [f \in Files |-> Free]
    /\ phase = [p \in Procs |-> "idle"]
    /\ work = Own
    /\ pending = [p \in Procs |-> [f \in Files |-> Nothing]]
    /\ bDirty = [p \in Procs |-> FALSE]
    /\ merging = [p \in Procs |-> Nothing]
    /\ writeMap = [p \in Procs |-> Nothing]
    /\ changes = 0

-----------------------------------------------------------------------------
(* Locks *)

\* Mutant: tryLock() is not waited for.
HeldNot(f) == FALSE

\* The lock file is there, and the program that made it is not gone.  (That is for QLockFile to
\* find out.)
Held(f) == lock[f] \in Procs

Lock(p, f) == lock' = [lock EXCEPT ![f] = p]

Unlock(f) == lock' = [lock EXCEPT ![f] = Free]

Locks(p) == p \notin ReadOnly

Goto(p, s) == phase' = [phase EXCEPT ![p] = s]

-----------------------------------------------------------------------------
(* The steps of sync() *)

Change(p, f, k, v) ==
    /\ phase[p] = "idle" /\ changes < MaxChanges
    /\ changes' = changes + 1
    /\ pending' = [pending EXCEPT ![p][f][k] = v]
    /\ bDirty' = [bDirty EXCEPT ![p] = TRUE]
    /\ UNCHANGED <<file, lock, phase, work, merging, writeMap>>

\* Behind the loop that looks for dirty entries: the first file to write, or none.
Begin(p) ==
    LET globals == Own[p] # "kdeglobals" /\ pending[p]["kdeglobals"] # Nothing
    IN  /\ bDirty' = [bDirty EXCEPT ![p] = FALSE]
        /\ work' = [work EXCEPT ![p] = IF globals THEN "kdeglobals" ELSE Own[p]]
        /\ Goto(p, IF globals /\ Locks(p) THEN "lockGlobal"
                   ELSE IF globals \/ pending[p][Own[p]] # Nothing THEN "merge"
                   ELSE "unlockOwn")

Sync(p) ==
    /\ phase[p] = "idle" /\ bDirty[p]
    /\ IF Locks(p) THEN Goto(p, "lockOwn") /\ UNCHANGED <<bDirty, work>> ELSE Begin(p)
    /\ UNCHANGED <<file, lock, pending, merging, writeMap, changes>>

\* Mutant: the lock file of a program that is gone is in the way for ever.
LockOwnWhenFree(p) ==
    /\ phase[p] = "lockOwn" /\ lock[Own[p]] = Free
    /\ Lock(p, Own[p])
    /\ Begin(p)
    /\ UNCHANGED <<file, pending, merging, writeMap, changes>>

LockOwn(p) ==
    /\ phase[p] = "lockOwn" /\ ~Held(Own[p])
    /\ Lock(p, Own[p])
    /\ Begin(p)
    /\ UNCHANGED <<file, pending, merging, writeMap, changes>>

\* tryLock() gives up: "Couldn't lock local file".
GiveUpOwn(p) ==
    /\ phase[p] = "lockOwn" /\ Held(Own[p])
    /\ Goto(p, "idle")
    /\ UNCHANGED <<file, lock, work, pending, bDirty, merging, writeMap, changes>>

LockGlobal(p) ==
    /\ phase[p] = "lockGlobal" /\ ~Held("kdeglobals")
    /\ Lock(p, "kdeglobals")
    /\ Goto(p, "merge")
    /\ UNCHANGED <<file, work, pending, bDirty, merging, writeMap, changes>>

\* Mutants: the early return keeps the own lock, or forgets that everything is still dirty.
GiveUpGlobalLocked(p) ==
    /\ phase[p] = "lockGlobal" /\ Held("kdeglobals")
    /\ bDirty' = [bDirty EXCEPT ![p] = TRUE]
    /\ Goto(p, "idle")
    /\ UNCHANGED <<file, lock, work, pending, merging, writeMap, changes>>
GiveUpGlobalClean(p) ==
    /\ phase[p] = "lockGlobal" /\ Held("kdeglobals")
    /\ Unlock(Own[p])
    /\ Goto(p, "idle")
    /\ UNCHANGED <<file, work, pending, bDirty, merging, writeMap, changes>>

\* "Couldn't lock global file": the own lock is given back, and everything is still dirty.
GiveUpGlobal(p) ==
    /\ phase[p] = "lockGlobal" /\ Held("kdeglobals")
    /\ Unlock(Own[p])
    /\ bDirty' = [bDirty EXCEPT ![p] = TRUE]
    /\ Goto(p, "idle")
    /\ UNCHANGED <<file, work, pending, merging, writeMap, changes>>

\* Mutant: what is in the file is taken for nothing.
MergeUnread(p) ==
    LET f == work[p]
    IN  /\ phase[p] = "merge"
        /\ writeMap' = [writeMap EXCEPT ![p] = pending[p][f]]
        /\ merging' = [merging EXCEPT ![p] = pending[p][f]]
        /\ pending' = [pending EXCEPT ![p][f] = Nothing]
        /\ Goto(p, "write")
        /\ UNCHANGED <<file, lock, work, bDirty, changes>>

\* writeConfig() reads the file and lays the dirty entries over it, which are not dirty then.
Merge(p) ==
    LET f == work[p]
    IN  /\ phase[p] = "merge"
        /\ writeMap' = [writeMap EXCEPT ![p] = Overlay(file[f], pending[p][f])]
        /\ merging' = [merging EXCEPT ![p] = pending[p][f]]
        /\ pending' = [pending EXCEPT ![p][f] = Nothing]
        /\ Goto(p, "write")
        /\ UNCHANGED <<file, lock, work, bDirty, changes>>

\* Behind writeConfig().
AfterFile(p) ==
    /\ merging' = [merging EXCEPT ![p] = Nothing]
    /\ writeMap' = [writeMap EXCEPT ![p] = Nothing]
    /\ Goto(p, IF work[p] # Own[p] THEN "unlockGlobal" ELSE "unlockOwn")
    /\ UNCHANGED <<lock, work, pending, changes>>

\* writeToDevice(): a new file takes the place of the old one.
Write(p) ==
    /\ phase[p] = "write"
    /\ file' = [file EXCEPT ![work[p]] = writeMap[p]]
    /\ AfterFile(p)
    /\ UNCHANGED bDirty

\* writeToDevice() fails: "Couldn't write to config".
FailWrite(p) ==
    /\ p \in Failing
    /\ phase[p] = "write"
    /\ bDirty' = [bDirty EXCEPT ![p] = TRUE]
    /\ AfterFile(p)
    /\ UNCHANGED file

\* kdeglobals is done, and the object's own file comes next if it has changes.
UnlockGlobal(p) ==
    /\ phase[p] = "unlockGlobal"
    /\ IF Locks(p) THEN Unlock("kdeglobals") ELSE UNCHANGED lock
    /\ work' = [work EXCEPT ![p] = Own[p]]
    /\ Goto(p, IF pending[p][Own[p]] # Nothing THEN "merge" ELSE "unlockOwn")
    /\ UNCHANGED <<file, pending, bDirty, merging, writeMap, changes>>

UnlockOwn(p) ==
    /\ phase[p] = "unlockOwn"
    /\ IF Locks(p) THEN Unlock(Own[p]) ELSE UNCHANGED lock
    /\ Goto(p, "idle")
    /\ UNCHANGED <<file, work, pending, bDirty, merging, writeMap, changes>>

\* A program dies anywhere and starts again.  Its lock files stay.
Crash(p) ==
    /\ lock' = [f \in Files |-> IF lock[f] = p THEN Dead ELSE lock[f]]
    /\ Goto(p, "idle")
    /\ work' = [work EXCEPT ![p] = Own[p]]
    /\ pending' = [pending EXCEPT ![p] = [f \in Files |-> Nothing]]
    /\ bDirty' = [bDirty EXCEPT ![p] = FALSE]
    /\ merging' = [merging EXCEPT ![p] = Nothing]
    /\ writeMap' = [writeMap EXCEPT ![p] = Nothing]
    /\ UNCHANGED <<file, changes>>

-----------------------------------------------------------------------------

\* What sync() does once it was called.
Step(p) ==
    \/ LockOwn(p) \/ GiveUpOwn(p)
    \/ LockGlobal(p) \/ GiveUpGlobal(p)
    \/ Merge(p) \/ Write(p) \/ FailWrite(p)
    \/ UnlockGlobal(p) \/ UnlockOwn(p)

Next ==
    \E p \in Procs :
        \/ \E f \in Targets(p), k \in Keys, v \in Values : Change(p, f, k, v)
        \/ Sync(p)
        \/ Step(p)
        \/ Crash(p)

\* A sync that was called runs on: its thread does nothing else.
Fairness == \A p \in Procs : WF_vars(Step(p))

Spec == Init /\ [][Next]_vars /\ Fairness

-----------------------------------------------------------------------------
(* Safety *)

\* The program is between the lock and the unlock of f.
Inside(p, f) ==
    \/ f = Own[p] /\ phase[p] \in {"lockGlobal", "merge", "write", "unlockGlobal", "unlockOwn"}
    \/ f = work[p] /\ phase[p] \in {"merge", "write", "unlockGlobal"}

\* A program that is at a file has its lock, and no idle program has one: every way out of
\* sync() gives its locks back.
LocksMatch ==
    \A p \in Procs \ ReadOnly, f \in Files : lock[f] = p <=> Inside(p, f)

\* "Unrelated concurrent changes to the same file are merged and thus not overwritten": all that
\* a write changes in a file are keys its program changed.
OnlyOwnKeysChange ==
    [][\A f \in Files, k \in Keys : file'[f][k] # file[f][k] =>
          \E p \in Procs : /\ phase[p] = "write" /\ work[p] = f
                           /\ merging[p][k] # Absent /\ merging[p][k] = file'[f][k]]_vars

\* An idle object with changes it has not stored knows that it has.
PendingIsDirty ==
    \A p \in Procs : phase[p] = "idle" /\ ~bDirty[p] => pending[p] = [f \in Files |-> Nothing]

\* The same object is what KConfigStore promises: a change that was merged is stored when it is
\* written.
Promise == INSTANCE KConfigStore WITH
    store   <- file,
    changes <- [p \in Procs |-> [f \in Files |->
                   IF phase[p] = "write" /\ work[p] = f THEN merging[p] ELSE pending[p][f]]]

KeepsPromise == Promise!StoreSpec

-----------------------------------------------------------------------------
(* Liveness *)

\* Every sync returns: no program waits for a lock forever, whether its holder is alive, waits
\* for another lock or is gone.
SyncReturns == \A p \in Procs : phase[p] # "idle" ~> phase[p] = "idle"
=============================================================================
