\* A window on one screen or two, closed, lost and opened again.
CONSTANTS
    right = right
    left = left
    small = small
    large = large
    full = full
    Screens <- Both
    Arrangements = {{right}, {left}, {right, left}}
    Primary <- MCPrimary
    ScreenSize <- MCScreenSize
    Sizes = {small, large}
    InitialSize = small
    Places <- MCPlaces
    ScreenAt <- MCScreenAt
    PlacedAt <- MCPlacedAt
    Systems <- MCSystems
    FirstTold <- StateFirstWhenMaximized
    Wayland = FALSE
    Absent = Absent
    Deleted = Deleted
    Unknown = Unknown
    MaxEvents = 4
SPECIFICATION Spec
INVARIANTS
    ComesBack
    ScreensRemembered
PROPERTIES
    ChangesAreStored
CHECK_DEADLOCK FALSE
