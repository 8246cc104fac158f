--------------------------- MODULE MCKSharedConfig ---------------------------
(***************************************************************************)
(* Instances of KSharedConfig for TLC.                                     *)
(***************************************************************************)
EXTENDS KSharedConfig, TLC, FiniteSetsExt

CONSTANTS main, worker

Addresses == Permutations(Objects) \cup Permutations(Watchers)

Uses(watchingThreads, handingThreads, n) ==
    {[watching |-> watchingThreads, handing |-> handingThreads, objects |-> addresses] :
        addresses \in kSubset(n, Objects)}

\* Watchers in both threads; references that both pass; and both at once, where one thread passes
\* references and one uses watchers.
MCSetups ==
    Uses(Threads, {}, 3) \cup Uses({}, Threads, 2)
    \cup Uses({main}, {worker}, 2) \cup Uses({main}, {main}, 2) \cup Uses({worker}, {worker}, 2)
=============================================================================
