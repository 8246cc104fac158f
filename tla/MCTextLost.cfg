\* Values of bytes that are no UTF-8, and lists of paths in a home directory with a comma.
CONSTANTS
    Stored <- ValuesAndPaths
    Home <- CommaDir
    Nothing = Nothing
SPECIFICATION Spec
INVARIANTS
    BytesReadBack
    PathsReadBack
CHECK_DEADLOCK FALSE
