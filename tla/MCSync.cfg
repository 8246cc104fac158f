\* Two programs with the same file and one that edits kdeglobals; any of them may die, and
\* one of them may fail to write.
CONSTANTS
    a = a
    b = b
    g = g
    Procs = {a, b, g}
    Keys = {k1, k2}
    Values = {v1}
    Absent = Absent
    Failing = {b}
    Own <- TwoAndGlobals
    ReadOnly = {}
    MaxChanges = 3
    Free = Free
    Dead = Dead
SPECIFICATION Spec
INVARIANTS
    LocksMatch
    PendingIsDirty
PROPERTIES
    OnlyOwnKeysChange
    KeepsPromise
    SyncReturns
