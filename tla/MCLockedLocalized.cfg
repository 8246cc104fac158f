\* A locked entry and lines with a locale tag.
CONSTANTS
    dflt = dflt
    none = none
    k1 = k1
    v1 = v1
    v2 = v2
    Groups <- MCGroups
    Names <- MCNames
    PlainNames = {k1}
    Values = {v1, v2}
    NoValue = NoValue
    Marker = Marker
    NoEntry = NoEntry
    DefaultGroup = dflt
    NoGroup = none
    GroupOrder <- MCGroupOrder
    NameOrder <- MCNameOrder
    OwnTag = "country"
    MaxErrors = 100
    KioskException = FALSE
    Scenes <- LockedLocalized
    Touched <- MCTouched
    SubGroups <- MCSubGroups
    MaxLines = 2
SPECIFICATION Spec
PROPERTIES
    LockedIsRead
