\* Lock-down and deletion, or locales: every cascade with up to 3 lines about one key.
CONSTANTS
    dflt = dflt
    none = none
    k1 = k1
    v1 = v1
    v2 = v2
    Groups <- MCGroups
    Names <- MCNames
    PlainNames = {k1}
    Values = {v1, v2}
    NoValue = NoValue
    Marker = Marker
    NoEntry = NoEntry
    DefaultGroup = dflt
    NoGroup = none
    GroupOrder <- MCGroupOrder
    NameOrder <- MCNameOrder
    OwnTag = "country"
    MaxErrors = 1
    KioskException = FALSE
    Scenes <- BothScenes
    Touched <- MCTouched
    SubGroups <- MCSubGroups
    MaxLines = 3
SPECIFICATION Spec
INVARIANTS
    TypeOK
    GroupsAreMarked
    RevertedIsDefault
    ReadIsClean
    WriteIsRead
PROPERTIES
    LockedEntryKept
    LockedGroupGainsNoKey
    DefaultsKept
