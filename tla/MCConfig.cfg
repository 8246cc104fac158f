\* An object over the system's files, over kdeglobals, and with localized entries.
CONSTANTS
    dflt = dflt
    none = none
    grpA = grpA
    grpB = grpB
    k1 = k1
    k2 = k2
    v1 = v1
    v2 = v2
    Groups <- TwoGroups
    Names <- AllNames
    PlainNames <- TwoKeys
    Values = {v1, v2}
    NoValue = NoValue
    Marker = Marker
    NoEntry = NoEntry
    DefaultGroup = dflt
    NoGroup = none
    GroupOrder <- TwoGroupsOrder
    NameOrder <- AllNamesOrder
    OwnTag = "country"
    MaxErrors = 100
    KioskException = FALSE
    SubGroups <- TwoGroupsSub
    Setups <- AllSetups
    Touched <- FirstKey
    MaxCalls = 3
    MaxOthers = 1
    MaxExtra = 1
SPECIFICATION Spec
INVARIANTS
    CleanIsStored
    PendingIsDirty
    OthersKept
    ImmutableFileKept
PROPERTIES
    ChangeIsDirty
