\* Two programs with two shortcuts each; syncs may fail and programs may die.
CONSTANTS
    a = a
    b = b
    Procs = {a, b}
    Keys = {k1, k2}
    Shortcuts = {hard, s1}
    Hardcoded <- AllHard
    hard = hard
    Troubles = {"none", "lock", "write"}
    MaxSaves = 3
    Absent = Absent
SPECIFICATION WatcherSpec
INVARIANTS
    StaleIsTold
PROPERTIES
    Settles
