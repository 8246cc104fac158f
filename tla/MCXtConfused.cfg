\* Items in another group than the document has them in, items whose group and key read the same,
\* one behind the other, and items whose values the two readers take for different ones.
CONSTANTS
    Groups <- AllGroups
    Attributes <- JoiningAttributes
    Labels <- MCLabels
    Defaults <- MCDefaults
    Bounds <- MCBounds
    ChoiceNames <- MCChoiceNames
    ChoiceValues <- MCChoiceValues
    ParamMax = {1}
    Number <- MCNumber
    Times <- MCTimes
    True <- MCTrue
    False <- MCFalse
    TrueTexts <- MCTrueTexts
    IntSpan = 8
    LongSpan = 64
    BaseGroups <- MCBaseGroups
    MaxEntries = 2
SPECIFICATION XtSpec
INVARIANTS
    CompiledGroups
    FindsGroupAndKey
    SameValues
CHECK_DEADLOCK FALSE
