\* A program alone, whose file sometimes cannot be written.
CONSTANTS
    int = int
    enum = enum
    password = password
    path = path
    plain = plain
    n1 = n1
    n2 = n2
    n3 = n3
    Items = {int, enum, password, path, plain}
    Names = {n1, n2, n3}
    NameOf <- MCNameOf
    KeyOf <- MCKeyOf
    Kind <- MCKind
    NoBound = NoBound
    NoMap = NoMap
    Programs <- NumbersOnly
    OtherNames <- NoOtherNames
    Choices <- MCChoices
    Builtin <- MCBuiltin
    Low <- MCLow
    High <- MCHigh
    Signalling = {enum}
    Values <- MCValues
    OtherTexts <- NoOtherTexts
    Systems <- MCLaterSystems
    LaterSystems <- MCLaterSystems
    Troubles = {"none", "write"}
    Absent = Absent
    NoItem = NoItem
SPECIFICATION MapSpec
PROPERTIES
    SaveTrueIsStored
