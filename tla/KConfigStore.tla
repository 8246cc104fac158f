----------------------------- MODULE KConfigStore -----------------------------
(***************************************************************************)
(* What sync() promises to the programs that share configuration files     *)
(* (KConfigBase::sync() in src/core/kconfigbase.h): the pending changes of *)
(* a program reach a file all at once and change nothing else in it; a     *)
(* program that dies loses the changes it has not stored, and a write that *)
(* fails those for its file, and no others.                                *)
(***************************************************************************)
EXTENDS KConfigProcs

VARIABLES
    store,      \* what each file holds
    changes     \* what each program has changed and not stored, by file

svars == <<store, changes>>

StoreInit ==
    /\ store \in [Files -> Content]
    /\ changes = [p \in Procs |-> [f \in Files |-> Nothing]]

Change(p, f, k, v) ==
    /\ changes' = [changes EXCEPT ![p][f][k] = v]
    /\ UNCHANGED store

Commit(p, f) ==
    /\ store' = [store EXCEPT ![f] = Overlay(store[f], changes[p][f])]
    /\ changes' = [changes EXCEPT ![p][f] = Nothing]

Drop(p, f) ==
    /\ p \in Failing
    /\ changes' = [changes EXCEPT ![p][f] = Nothing]
    /\ UNCHANGED store

Lose(p) ==
    /\ changes' = [changes EXCEPT ![p] = [f \in Files |-> Nothing]]
    /\ UNCHANGED store

StoreNext ==
    \E p \in Procs :
        \/ \E f \in Files :
              Commit(p, f) \/ Drop(p, f) \/ \E k \in Keys, v \in Values : Change(p, f, k, v)
        \/ Lose(p)

StoreSpec == StoreInit /\ [][StoreNext]_svars
=============================================================================
