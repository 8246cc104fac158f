\* A file whose groups have different ids; two processes, upgrades, a crash.
CONSTANTS
    f1 = f1
    f2 = f2
    i1 = i1
    i2 = i2
    i3 = i3
    s1 = s1
    s2 = s2
    None = None
    Sessions = {p1}
    Helpers = {p2}
    Files <- One
    Ids = {i1, i2, i3}
    Scripts = {s1, s2}
    Contents <- Changing
    Outcomes = {"success", "timeout"}
    Modes = {"check"}
    MaxInstalls = 2
    MaxKills = 1
SPECIFICATION UpdateSpec
INVARIANTS
    DoneWasRun
    NothingForgotten
PROPERTIES
    UpdatesRun
