\* A reparse whose sync fails, localized entries, locked groups here and in kdeglobals.
CONSTANTS
    dflt = dflt
    none = none
    grpA = grpA
    grpB = grpB
    k1 = k1
    k2 = k2
    v1 = v1
    v2 = v2
    Groups <- FourGroups
    Names <- AllNames
    PlainNames <- TwoKeys
    Values = {v1, v2}
    NoValue = NoValue
    Marker = Marker
    NoEntry = NoEntry
    DefaultGroup = dflt
    NoGroup = none
    GroupOrder <- FourGroupsOrder
    NameOrder <- AllNamesOrder
    OwnTag = "country"
    MaxErrors = 100
    KioskException = FALSE
    SubGroups <- FourGroupsSub
    Setups <- Contradicting
    Touched <- SomeKeys
    MaxCalls = 2
    MaxOthers = 1
    MaxExtra = 0
SPECIFICATION Spec
INVARIANTS
    LocalizedIsStored
    GroupLocksKept
    NoGroupGetsLocked
PROPERTIES
    PendingKept
