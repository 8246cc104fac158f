\* Three programs, one of them with a property map, over every system, next to another program; the
\* lock of the file may be taken.
CONSTANTS
    int = int
    enum = enum
    password = password
    path = path
    plain = plain
    n1 = n1
    n2 = n2
    n3 = n3
    Items = {int, enum, password, path, plain}
    Names = {n1, n2, n3}
    NameOf <- MCNameOf
    KeyOf <- MCKeyOf
    Kind <- MCKind
    NoBound = NoBound
    NoMap = NoMap
    Programs <- MCPrograms
    OtherNames <- MCOtherNames
    Choices <- MCChoices
    Builtin <- MCBuiltin
    Low <- MCLow
    High <- MCHigh
    Signalling = {enum}
    Values <- MCValues
    OtherTexts <- MCOtherTexts
    Systems <- MCSystems
    LaterSystems <- MCLaterSystems
    Troubles = {"none", "lock"}
    Absent = Absent
    NoItem = NoItem
SPECIFICATION MapSpec
INVARIANTS
    DictIsLive
    ListenersKnow
    MapShows
PROPERTIES
    SaveStores
    OthersKept
