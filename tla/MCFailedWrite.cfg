\* A sync whose write fails.
CONSTANTS
    dflt = dflt
    none = none
    grpA = grpA
    grpB = grpB
    k1 = k1
    k2 = k2
    v1 = v1
    v2 = v2
    Groups <- TwoGroups
    Names <- TwoKeys
    PlainNames <- TwoKeys
    Values = {v1, v2}
    NoValue = NoValue
    Marker = Marker
    NoEntry = NoEntry
    DefaultGroup = dflt
    NoGroup = none
    GroupOrder <- TwoGroupsOrder
    NameOrder <- TwoKeysOrder
    OwnTag = "country"
    MaxErrors = 100
    KioskException = FALSE
    SubGroups <- TwoGroupsSub
    Setups <- Failing
    Touched <- FirstKey
    MaxCalls = 2
    MaxOthers = 0
    MaxExtra = 0
SPECIFICATION Spec
INVARIANTS
    CleanIsStored
