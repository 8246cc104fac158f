----------------------------- MODULE KConfigProcs -----------------------------
(***************************************************************************)
(* The programs that share configuration files, and what is in the files:  *)
(* for KConfigStore, which says what sync() promises, and KConfigSync,     *)
(* which says what it does.                                                *)
(***************************************************************************)
CONSTANTS
    Procs,      \* programs, each with one KConfig object
    Keys,       \* the keys of a file
    Values,     \* what a key can hold
    Absent,     \* no entry, or no pending change
    Failing     \* the programs whose writes may fail

Files == {"app", "kdeglobals"}

Content == [Keys -> Values \cup {Absent}]

Nothing == [k \in Keys |-> Absent]

\* The entries of above where there are some, those of below elsewhere.
Overlay(below, above) == [k \in Keys |-> IF above[k] = Absent THEN below[k] ELSE above[k]]

ASSUME ProcsAssumption == Absent \notin Values /\ Failing \subseteq Procs
=============================================================================
