\* A program whose file was not writable when it was opened.
CONSTANTS
    a = a
    b = b
    g = g
    Procs = {a, b, g}
    Keys = {k1, k2}
    Values = {v1}
    Absent = Absent
    Failing = {}
    Own <- TwoAndGlobals
    ReadOnly = {a}
    MaxChanges = 3
    Free = Free
    Dead = Dead
SPECIFICATION Spec
PROPERTIES
    OnlyOwnKeysChange
