\* Entries that are moved and copied between two objects, one with a default, one with a lock.
CONSTANTS
    dflt = dflt
    none = none
    grpA = grpA
    grpB = grpB
    k1 = k1
    v1 = v1
    v2 = v2
    here = here
    there = there
    Groups <- MCGroups
    Names <- MCNames
    PlainNames = {k1}
    Values = {v1, v2}
    NoValue = NoValue
    Marker = Marker
    NoEntry = NoEntry
    DefaultGroup = dflt
    NoGroup = none
    GroupOrder <- MCGroupOrder
    NameOrder <- MCNameOrder
    OwnTag = "country"
    MaxErrors = 100
    KioskException = FALSE
    SubGroups <- MCSubGroups
    Objects = {here, there}
    SystemFile <- Defaults
    OwnFiles <- UserFiles
    Places <- MCPlaces
    CallOptions <- Flags
    InPlace = FALSE
    MaxCalls = 3
    Unknown = Unknown
SPECIFICATION Spec
INVARIANTS
    Arrives
    StaysThere
