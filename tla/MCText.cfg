\* Every short header, entry, list and path is read back as it was written.
CONSTANTS
    Stored <- Everything
    Home <- HomeDir
    Nothing = Nothing
SPECIFICATION Spec
INVARIANTS
    ReadsBack
CHECK_DEADLOCK FALSE
