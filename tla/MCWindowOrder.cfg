\* A window system that tells of the size of a maximized window before its state.
CONSTANTS
    right = right
    left = left
    small = small
    large = large
    full = full
    Screens <- Both
    Arrangements = {{right}, {right, left}}
    Primary <- MCPrimary
    ScreenSize <- MCScreenSize
    Sizes = {small, large}
    InitialSize = small
    Places <- MCPlaces
    ScreenAt <- MCScreenAt
    PlacedAt <- MCPlacedAt
    Systems <- MCSystems
    FirstTold <- AnyOrder
    Wayland = FALSE
    Absent = Absent
    Deleted = Deleted
    Unknown = Unknown
    MaxEvents = 5
SPECIFICATION Spec
INVARIANTS
    ComesBack
CHECK_DEADLOCK FALSE
