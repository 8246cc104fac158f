\* Documents of two entries, read by KConfigLoader and by the compiled class.
CONSTANTS
    Groups <- MCGroups
    Attributes <- MCAttributes
    Labels <- MCLabels
    Defaults <- MCDefaults
    Bounds <- MCBounds
    ChoiceNames <- MCChoiceNames
    ChoiceValues <- MCChoiceValues
    ParamMax = {1}
    Number <- MCNumber
    Times <- MCTimes
    True <- MCTrue
    False <- MCFalse
    TrueTexts <- MCTrueTexts
    IntSpan = 8
    LongSpan = 64
    BaseGroups <- MCBaseGroups
    MaxEntries = 2
SPECIFICATION XtSpec
INVARIANTS
    SameItems
    CompiledGroupsApart
    FindsItem
CHECK_DEADLOCK FALSE
