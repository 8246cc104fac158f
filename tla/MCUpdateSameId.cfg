\* Two files that give their groups the same id.
CONSTANTS
    f1 = f1
    f2 = f2
    i1 = i1
    i2 = i2
    i3 = i3
    s1 = s1
    s2 = s2
    None = None
    Sessions = {p1}
    Helpers = {p2}
    Files <- Two
    Ids = {i1, i2, i3}
    Scripts = {s1, s2}
    Contents <- SameId
    Outcomes = {"success", "timeout"}
    Modes = {"file"}
    MaxInstalls = 2
    MaxKills = 0
SPECIFICATION UpdateSpec
INVARIANT DoneWasRun
