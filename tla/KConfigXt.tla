------------------------------ MODULE KConfigXt ------------------------------
(***************************************************************************)
(* The two readers of a .kcfg document: KConfigLoader, which reads it at   *)
(* run time token by token (src/gui/kconfigloader.cpp), and the class that *)
(* kconfig_compiler writes for it (src/kconfig_compiler/).                 *)
(*                                                                         *)
(* The document is written here while the loader reads it: each action is  *)
(* an element, or the start or the end of one.  The compiler has the whole *)
(* document when it starts.  Texts, names and keys are sequences of        *)
(* characters, as far as they are joined, trimmed and taken apart.         *)
(***************************************************************************)
EXTENDS Integers, Sequences, SequencesExt, FiniteSets

CONSTANTS
    Groups,         \* the <group> elements: a name and a parentGroupName, which may be empty
    Attributes,     \* the attributes of <entry>: name, key and type, each of which may be empty
    Labels,         \* the texts of <label>
    Defaults,       \* the <default> elements: the type of the entry and the text
    Bounds,         \* the <min> elements, and the <max> elements, in the same way
    ChoiceNames, ChoiceValues,  \* the attributes of <choice>
    ParamMax,       \* the max of <parameter>
    Number,         \* the texts that are a decimal number, with its whole part and its fraction
    Times,          \* QTime::fromString(): the texts that are a time, with its milliseconds apart
    True, False,    \* the two texts in C++
    TrueTexts,      \* True in small and capital letters
    IntSpan, LongSpan,  \* how many values int and qlonglong have
    BaseGroups,     \* the groups a KConfigLoader may be made for
    MaxEntries      \* bounds the document

Empty == <<>>

NoType == ""

Texts == Seq(STRING)

\* The <default>, <min> and <max> elements.
Given == [type : STRING, text : Texts]

\* The name of a choice is one of an enumerator of the compiled class, and so no number.  Texts that
\* are C++ otherwise (calls, other bases, <default code="true">) are not among those of values.
ASSUME XtAssumption ==
    /\ Groups \subseteq [name : Texts, parent : Texts]
    /\ Attributes \subseteq [name : Texts, key : Texts, type : STRING]
    /\ Labels \subseteq Texts /\ Defaults \subseteq Given /\ Bounds \subseteq Given
    /\ ChoiceNames \subseteq Texts /\ ChoiceValues \subseteq Texts
    /\ BaseGroups \subseteq Texts /\ ParamMax \subseteq Nat
    /\ Number \in [DOMAIN Number -> [whole : Int, fraction : Texts]]
    /\ Times \in [DOMAIN Times -> [second : Texts, ms : Texts]]
    /\ Empty \notin DOMAIN Number \cup DOMAIN Times \cup {True, False}
    /\ ChoiceNames \cap DOMAIN Number = {} /\ {True, False} \cap DOMAIN Number = {}
    /\ True \in TrueTexts /\ False \notin TrueTexts
    /\ IntSpan \in Nat \ {0} /\ LongSpan \in Nat \ {0}
    /\ MaxEntries \in Nat

\* The types of kcfg.xsd for which KConfigLoader makes an item.
LoaderTypes == {"Bool", "Color", "DateTime", "Time", "Enum", "Font", "Int", "Password", "Path",
    "String", "StringList", "UInt", "Url", "Double", "IntList", "LongLong", "Point", "PointF",
    "Rect", "RectF", "Size", "SizeF", "ULongLong"}

IntegerTypes == {"Int", "UInt", "LongLong", "ULongLong"}

\* The types whose items have a range.
NumericTypes == IntegerTypes \cup {"Double"}

ListTypes == {"StringList", "PathList", "UrlList"}

\* The types whose values are numbers, and how many.
Coordinates == [Point |-> 2, PointF |-> 2, Size |-> 2, SizeF |-> 2, Rect |-> 4, RectF |-> 4]

VARIABLES
    inside,     \* the element that is open; "entries" behind the first of a group
    element,    \* the entry that is being written, with the group it is in
    written,    \* the entries before it
    handler,    \* the members of ConfigLoaderHandler
    loader,     \* the KConfigLoader: base, group, groups, items and keysToNames
    compiled    \* the items of the compiled class, once there is one

document == <<inside, element, written>>
xtVars == <<document, handler, loader, compiled>>

-----------------------------------------------------------------------------
(* Texts *)

Space == " "

\* What is left of each beginning of s when the character c is removed from it.
Removing(s, c) ==
    LET left[i \in 0 .. Len(s)] ==
            IF i = 0 THEN Empty
            ELSE IF s[i] = c THEN left[i - 1] ELSE Append(left[i - 1], s[i])
    IN  left

\* remove()
Removed(s, c) == Removing(s, c)[Len(s)]

NoSpaces(s) == Removed(s, Space)

\* trimmed()
Trimmed(s) ==
    LET solid == {i \in DOMAIN s : s[i] # Space}
    IN  IF solid = {} THEN Empty
        ELSE SubSeq(s, CHOOSE i \in solid : \A j \in solid : i <= j,
                       CHOOSE i \in solid : \A j \in solid : i >= j)

Comma == ","

\* split(','): the parts of each beginning of s.
Splitting(s) ==
    LET parts[i \in 0 .. Len(s)] ==
            IF i = 0 THEN <<Empty>>
            ELSE IF s[i] = Comma THEN Append(parts[i - 1], Empty)
            ELSE Append(Front(parts[i - 1]), Append(Last(parts[i - 1]), s[i]))
    IN  parts

Split(s) == Splitting(s)[Len(s)]

\* Qt::SkipEmptyParts
SkipEmptyParts(parts) == Removed(parts, Empty)

-----------------------------------------------------------------------------
(* Values: the value of an item is the sequence of the texts of its parts, of which a number or a *)
(* text has one.  Nothing is what the constructor of a list, a point, a time or a font makes.     *)

Nothing == <<>>

Value(n) == <<ToString(n)>>

\* Qt and C++ both take no notice of the spaces around a number.
IsNumber(s) == Trimmed(s) \in DOMAIN Number

NumberOf(s) == Number[Trimmed(s)]

\* The integer types; enumerations and coordinates are of type int.
Span(type) == IF type \in {"LongLong", "ULongLong"} THEN LongSpan ELSE IntSpan

Lowest(type) == IF type \in {"UInt", "ULongLong"} THEN 0 ELSE -(Span(type) \div 2)

\* What C++ makes of an integer that is given for one of the type.
Wrapped(type, n) == ((n - Lowest(type)) % Span(type)) + Lowest(type)

\* toInt(), toUInt(), toLongLong() and toULongLong(): whether they read s, and what.
IsInteger(type, s) ==
    /\ IsNumber(s) /\ NumberOf(s).fraction = Empty
    /\ NumberOf(s).whole \in Lowest(type) .. (Lowest(type) + Span(type) - 1)

ToInteger(type, s) == IF IsInteger(type, s) THEN NumberOf(s).whole ELSE 0

\* A number, which is [whole, fraction], for a value of the type.
Converted(type, n) ==
    IF type = "Bool" THEN IF n.whole = 0 /\ n.fraction = Empty THEN False ELSE True
    ELSE IF type = "Double" THEN Value(n.whole) \o n.fraction
    ELSE Value(Wrapped(type, n.whole))

Zero == [whole |-> 0, fraction |-> Empty]

\* toDouble()
ToDouble(s) == Converted("Double", IF IsNumber(s) THEN NumberOf(s) ELSE Zero)

\* QColor(QString): a list of numbers is no colour.
ColorNamed(s) == IF s = Empty \/ Len(Split(s)) > 1 THEN Nothing ELSE <<s>>

\* The position of the first choice with a name, or 0.
IndexOf(choices, n) ==
    LET named == {c \in DOMAIN choices : choices[c].name = n}
    IN  IF named = {} THEN 0 ELSE CHOOSE c \in named : \A d \in named : c <= d

-----------------------------------------------------------------------------
(* KConfigLoader *)

NoBounds == [b \in {"min", "max"} |-> Empty]

NoChoice == [name |-> Empty, value |-> Empty, label |-> Empty]

\* resetState()
FreshHandler ==
    [name |-> Empty, key |-> Empty, type |-> NoType, label |-> Empty, default |-> Empty,
     bounds |-> NoBounds, choices |-> <<>>, choice |-> NoChoice, inChoice |-> FALSE]

\* Mutant: the bounds of the last entry stay.
ResetLeavesBounds(h) == [FreshHandler EXCEPT !.choice = h.choice, !.bounds = h.bounds]

\* resetState() leaves the last choice.
ResetState(h) == [FreshHandler EXCEPT !.choice = h.choice]

Joined(base, group) ==
    IF group = Empty THEN <<base>> ELSE IF base = Empty THEN <<group>> ELSE <<base, group>>

\* setX() to setHeight(), and setCoords()
LoaderCoordinates(type, parts) ==
    IF Len(parts) < Coordinates[type] THEN Nothing
    ELSE [i \in 1 .. Coordinates[type] |->
            IF type \in {"PointF", "SizeF", "RectF"} THEN ToDouble(parts[i])
            ELSE Value(ToInteger("Int", parts[i]))]

\* The default of an item: the number of an enumeration may be given as the name of a choice.  The
\* text is the value of the other types (String, Path, Password, Url, Font, DateTime).
LoaderDefault(h) ==
    LET s == h.default
        kept == SkipEmptyParts(Split(s))
        c == IndexOf(h.choices, s)
    IN  IF h.type = "Bool" THEN <<IF s \in TrueTexts THEN True ELSE False>>
        ELSE IF h.type = "Color" THEN ColorNamed(s)
        ELSE IF h.type = "Time"
        THEN IF s \in DOMAIN Times THEN <<Times[s].second, Times[s].ms>> ELSE Nothing
        ELSE IF h.type = "Enum"
        THEN <<Value(IF IsInteger("Int", s) THEN NumberOf(s).whole
                     ELSE IF c = 0 THEN 0 ELSE c - 1)>>
        ELSE IF h.type \in IntegerTypes THEN <<Value(ToInteger(h.type, s))>>
        ELSE IF h.type = "Double" THEN <<ToDouble(s)>>
        ELSE IF h.type = "StringList" THEN kept
        ELSE IF h.type = "IntList"
        THEN [i \in DOMAIN kept |-> Value(ToInteger("Int", kept[i]))]
        ELSE IF h.type \in DOMAIN Coordinates THEN LoaderCoordinates(h.type, Split(s))
        ELSE <<s>>

\* m_min and m_max are of type int, and converted to the type of the item.
LoaderBounds(h) ==
    [b \in {"min", "max"} |->
        IF h.type \in NumericTypes /\ IsInteger("Int", h.bounds[b])
        THEN <<Converted(h.type, NumberOf(h.bounds[b]))>>
        ELSE Nothing]

\* The name addItem() gives an item.
LoaderName(h) == NoSpaces(IF h.name = Empty THEN h.key ELSE h.name)

LoaderItem(h, group) ==
    [name |-> LoaderName(h), group |-> group,
     key |-> IF h.key = Empty THEN LoaderName(h) ELSE h.key,
     type |-> h.type, label |-> h.label, default |-> LoaderDefault(h), bounds |-> LoaderBounds(h),
     choices |-> IF h.type = "Enum" THEN h.choices ELSE <<>>]

\* item->group() + item->key(): the groups of a path have a separator between them.
Joint(path, key) ==
    (IF Len(path) = 2 THEN path[1] \o <<"/">> \o path[2] ELSE path[1]) \o key

Inserted(f, k, v) == [x \in DOMAIN f \cup {k} |-> IF x = k THEN v ELSE f[x]]

\* Mutant: items are filed under the name they have in the program.
FiledUnderName(l, h) ==
    LET item == LoaderItem(h, l.group)
    IN  IF item.name = Empty \/ item.type \notin LoaderTypes THEN l
        ELSE [l EXCEPT !.items = Append(@, item),
                       !.keysToNames = Inserted(@, Joint(item.group, item.name), item.name)]

\* addItem(): there is no item for want of a name or of a known type.
AddItem(l, h) ==
    LET item == LoaderItem(h, l.group)
    IN  IF item.name = Empty \/ item.type \notin LoaderTypes THEN l
        ELSE [l EXCEPT !.items = Append(@, item),
                       !.keysToNames = Inserted(@, Joint(item.group, item.key), item.name)]

\* KConfigLoader::findItem(): the items with a group and key, which is none or one; of two with a
\* name the last.
FindItem(l, path, key) ==
    IF Joint(path, key) \notin DOMAIN l.keysToNames THEN <<>>
    ELSE LET named == {i \in DOMAIN l.items : l.items[i].name = l.keysToNames[Joint(path, key)]}
         IN  IF named = {} THEN <<>>
             ELSE <<l.items[CHOOSE i \in named : \A j \in named : j <= i]>>

-----------------------------------------------------------------------------
(* kconfig_compiler *)

NoClass == [made |-> FALSE, items |-> <<>>]

\* The place of $(parameter) in a name or a key.
Place == "$"

Without(s) == Removed(s, Place)

ParamString(s, i) == ReplaceAll(s, Place, ToString(i))

\* parseEntry() and validateNameAndKey()
ParseEntry(e) ==
    LET name == NoSpaces(IF e.name = Empty THEN e.key ELSE e.name)
        key == IF e.key = Empty THEN e.name ELSE e.key
    IN  [e EXCEPT !.name = name, !.key = key,
                  !.label = IF @ = Empty THEN key ELSE @,
                  !.type = IF @ = NoType THEN "String" ELSE @]

\* What makes the compiler exit: a group without a name, an entry without a name or with one that is
\* not its own, a parameter that is not in the name, or the place of one that is not there.
Rejected(entries) ==
    \E i \in DOMAIN entries :
        \/ entries[i].group = Empty
        \/ Without(entries[i].name) = Empty
        \/ (entries[i].paramMax = -1) # ~Contains(entries[i].name, Place)
        \/ \E j \in DOMAIN entries :
            j # i /\ Without(entries[j].name) = Without(entries[i].name)

\* What C++ takes a text for that is written into the class as it is.
IsConstant(s) == IsNumber(s) \/ Trimmed(s) \in {True, False}

Constant(s) ==
    IF IsNumber(s) THEN NumberOf(s)
    ELSE [whole |-> IF Trimmed(s) = True THEN 1 ELSE 0, fraction |-> Empty]

\* The regular expression for a colour of three numbers, or four.
IsRgb(s) ==
    LET parts == Split(s)
    IN  /\ Len(parts) \in {3, 4} /\ parts[1] = Trimmed(parts[1])
        /\ \A i \in DOMAIN parts :
            /\ IsInteger("UInt", parts[i]) /\ Last(parts[i]) # Space

\* Without a default the argument is left out, and the item's constructor has one; for the items of
\* a parameter there is defaultValue().
MissingDefault(e) ==
    IF e.type = "Bool" THEN <<IF e.paramMax = -1 THEN True ELSE False>>
    ELSE IF e.type = "Color" THEN <<Value(128), Value(128), Value(128)>>
    ELSE IF e.type \in NumericTypes \cup {"Enum"} THEN <<Value(0)>>
    ELSE IF e.type \in ListTypes \cup DOMAIN Coordinates \cup {"IntList", "Time", "Font"}
    THEN Nothing
    ELSE <<Empty>>

\* preProcessDefault() and what C++ makes of it: lists are taken apart, and of a time the
\* milliseconds are lost.
WrittenDefault(type, s) ==
    LET parts == Split(s)
    IN  IF type = "Color" /\ IsRgb(s) THEN [i \in DOMAIN parts |-> Value(NumberOf(parts[i]).whole)]
        ELSE IF type = "Color" THEN ColorNamed(s)
        ELSE IF type = "Time"
        THEN IF s \in DOMAIN Times THEN <<Times[s].second, Empty>> ELSE Nothing
        ELSE IF type \in ListTypes THEN parts
        ELSE IF type = "IntList" THEN [i \in DOMAIN parts |-> Converted("Int", Constant(parts[i]))]
        ELSE IF type \in NumericTypes \cup {"Bool", "Enum"} THEN <<Converted(type, Constant(s))>>
        ELSE <<s>>

\* The default of an item: the name of a choice is looked for first.
CompiledDefault(e) ==
    LET c == IndexOf(e.choices, e.default)
    IN  IF e.type = "Enum" /\ c # 0 THEN <<Value(c - 1)>>
        ELSE IF e.default = Empty THEN MissingDefault(e)
        ELSE WrittenDefault(e.type, e.default)

CompiledBounds(e) ==
    [b \in {"min", "max"} |->
        IF e.bounds[b] = Empty THEN Nothing
        ELSE <<Converted(e.type, Constant(e.bounds[b]))>>]

\* What the C++ compiler takes: a text for which nothing else is written must be a constant, and
\* the items of enumerations have a range too.
CompilesAsWritten(e) ==
    /\ e.default # Empty =>
        \/ e.type \in {"String", "Path", "Url", "Color", "Time"} \cup ListTypes
        \/ e.type = "Enum" /\ IndexOf(e.choices, e.default) # 0
        \/ e.type \in NumericTypes \cup {"Bool", "Enum"} /\ IsConstant(e.default)
        \/ e.type = "IntList" /\ \A i \in DOMAIN Split(e.default) : IsConstant(Split(e.default)[i])
    /\ \A b \in {"min", "max"} : e.bounds[b] # Empty =>
            e.type \in NumericTypes \cup {"Enum"} /\ IsConstant(e.bounds[b])

\* The name of the variable for a group in the constructor, but for its "cg".
Variable(group) == NoSpaces(group)

Ensure(f, k, v) == IF k \in DOMAIN f THEN f ELSE Inserted(f, k, v)

\* Mutant: the current group is not set when the group before it has a parent.
GroupStays(g, e) ==
    LET withParent == Ensure(g.variables, Variable(e.parent), <<e.parent>>)
    IN  IF e.group = g.current THEN g
        ELSE IF e.parent = Empty
        THEN [g EXCEPT !.current = e.group,
                       !.skeletonGroup = IF g.variables = <<>> THEN <<e.group>> ELSE @]
        ELSE [g EXCEPT !.current = e.group,
                       !.variables = Ensure(withParent, Variable(e.group),
                                            Append(withParent[Variable(e.parent)], e.group))]

\* handleCurrentGroupChange(): g has mCurrentGroup, mConfigGroupList with what the variables stand
\* for, the current group of the skeleton, and the items.
HandleCurrentGroupChange(g, e) ==
    LET withParent == Ensure(g.variables, Variable(e.parent), <<e.parent>>)
    IN  IF e.group = g.current THEN g
        ELSE IF e.parent = Empty
        THEN [g EXCEPT !.current = e.group, !.skeletonGroup = <<e.group>>]
        ELSE [g EXCEPT !.current = e.group,
                       !.variables = Ensure(withParent, Variable(e.group),
                                            Append(withParent[Variable(e.parent)], e.group))]

CompiledItem(e, key, name, group) ==
    [name |-> name, group |-> group, key |-> key, type |-> e.type, label |-> e.label,
     default |-> CompiledDefault(e), bounds |-> CompiledBounds(e),
     choices |-> IF e.type = "Enum" THEN e.choices ELSE <<>>]

\* createNormalEntry(): setGroup() with the variable, which must be there.
NormalEntry(g, e) ==
    IF e.parent # Empty /\ Variable(e.group) \notin DOMAIN g.variables THEN [g EXCEPT !.ok = FALSE]
    ELSE [g EXCEPT !.items = Append(@, CompiledItem(e, e.key, e.name,
            IF e.parent = Empty THEN g.skeletonGroup ELSE g.variables[Variable(e.group)]))]

\* createIndexedEntry(): an item for each index, in the current group, whatever the parent.
IndexedEntry(g, e) ==
    [g EXCEPT !.items = @ \o [n \in 1..(e.paramMax + 1) |->
        CompiledItem(e, ParamString(e.key, n - 1), ParamString(e.name, n - 1), g.skeletonGroup)]]

\* doConstructor(), one entry.
ConstructEntry(g, e) ==
    LET h == HandleCurrentGroupChange(g, e)
    IN  IF ~CompilesAsWritten(e) THEN [g EXCEPT !.ok = FALSE]
        ELSE IF e.paramMax = -1 THEN NormalEntry(h, e) ELSE IndexedEntry(h, e)

NewGenerator ==
    [current |-> Empty, variables |-> <<>>, skeletonGroup |-> <<Empty>>, items |-> <<>>,
     ok |-> TRUE]

\* doConstructor(): the generator behind each of the entries.
Constructs(entries) ==
    LET behind[i \in 0 .. Len(entries)] ==
            IF i = 0 THEN NewGenerator ELSE ConstructEntry(behind[i - 1], entries[i])
    IN  behind

Parsed(entries) == [i \in DOMAIN entries |-> ParseEntry(entries[i])]

\* The compiler and the constructor of its class.
Construct(entries) ==
    LET parsed == Parsed(entries)
        class  == Constructs(parsed)[Len(entries)]
    IN  IF Rejected(parsed) \/ ~class.ok THEN NoClass
        ELSE [made |-> TRUE, items |-> class.items]

-----------------------------------------------------------------------------
(* The document, and the loader that reads it *)

\* An entry of a group, of which nothing is written yet.
NewEntry(g, p) ==
    [group |-> g, parent |-> p, name |-> Empty, key |-> Empty, type |-> NoType, label |-> Empty,
     default |-> Empty, bounds |-> NoBounds, choices |-> <<>>, paramMax |-> -1]

\* KConfigLoader's constructors
XtInit ==
    /\ inside = "kcfg" /\ element = NewEntry(Empty, Empty) /\ written = <<>>
    /\ handler = FreshHandler
    /\ \E b \in BaseGroups :
        loader = [base |-> b, group |-> <<Empty>>, groups |-> <<>>, items |-> <<>>,
                  keysToNames |-> <<>>]
    /\ compiled = NoClass

\* <signal> with a <label>, before the groups: the loader takes the text for an entry's.
Signal(text) ==
    /\ inside = "kcfg" /\ written = <<>> /\ handler.label = Empty
    /\ handler' = [handler EXCEPT !.label = Trimmed(text)]
    /\ UNCHANGED <<document, loader, compiled>>

StartGroup(g) ==
    /\ inside = "kcfg" /\ Len(written) < MaxEntries
    /\ inside' = "group" /\ element' = NewEntry(g.name, g.parent)
    /\ loader' = [loader EXCEPT !.group = Joined(loader.base, g.name),
                                !.groups = IF g.name = Empty THEN @ ELSE Append(@, g.name)]
    /\ UNCHANGED <<written, handler, compiled>>

\* A group has at least one entry.
EndGroup ==
    /\ inside = "entries"
    /\ inside' = "kcfg"
    /\ UNCHANGED <<element, written, handler, loader, compiled>>

StartEntry(a) ==
    /\ inside \in {"group", "entries"} /\ Len(written) < MaxEntries
    /\ inside' = "entry"
    /\ element' = [element EXCEPT !.name = a.name, !.key = a.key, !.type = a.type]
    /\ handler' = [handler EXCEPT !.name = Trimmed(a.name), !.key = Trimmed(a.key),
                                  !.type = a.type]
    /\ UNCHANGED <<written, loader, compiled>>

Label(text) ==
    /\ inside = "entry" /\ element.label = Empty
    /\ element' = [element EXCEPT !.label = text]
    /\ handler' = [handler EXCEPT !.label = Trimmed(text)]
    /\ UNCHANGED <<inside, written, loader, compiled>>

Default(d) ==
    /\ inside = "entry" /\ element.default = Empty /\ d.type = element.type
    /\ element' = [element EXCEPT !.default = d.text]
    /\ handler' = [handler EXCEPT !.default = Trimmed(d.text)]
    /\ UNCHANGED <<inside, written, loader, compiled>>

\* <min> and <max>
Bound(b, d) ==
    /\ inside = "entry" /\ element.bounds[b] = Empty /\ d.type = element.type
    /\ element' = [element EXCEPT !.bounds[b] = d.text]
    /\ handler' = [handler EXCEPT !.bounds[b] = d.text]
    /\ UNCHANGED <<inside, written, loader, compiled>>

\* <parameter>, of which the loader knows nothing.
Parameter(m) ==
    /\ inside = "entry" /\ element.paramMax = -1 /\ Contains(element.name, Place)
    /\ element' = [element EXCEPT !.paramMax = m]
    /\ UNCHANGED <<inside, written, handler, loader, compiled>>

\* The loader leaves the value out.
StartChoice(n, v) ==
    /\ inside = "entry" /\ element.type = "Enum" /\ IndexOf(element.choices, n) = 0
    /\ inside' = "choice"
    /\ element' = [element EXCEPT !.choices =
                    Append(@, [name |-> n, value |-> v, label |-> Empty])]
    /\ handler' = [handler EXCEPT !.choice = [NoChoice EXCEPT !.name = n], !.inChoice = TRUE]
    /\ UNCHANGED <<written, loader, compiled>>

\* endElement() of a <label> in a choice.
ChoiceLabel(text) ==
    /\ inside = "choice" /\ Last(element.choices).label = Empty
    /\ element' = [element EXCEPT !.choices[Len(element.choices)].label = text]
    /\ handler' = IF handler.inChoice THEN [handler EXCEPT !.choice.label = Trimmed(text)]
                  ELSE [handler EXCEPT !.label = Trimmed(text)]
    /\ UNCHANGED <<inside, written, loader, compiled>>

EndChoice ==
    /\ inside = "choice"
    /\ inside' = "entry"
    /\ handler' = [handler EXCEPT !.choices = Append(@, handler.choice), !.inChoice = FALSE]
    /\ UNCHANGED <<element, written, loader, compiled>>

EndEntry ==
    /\ inside = "entry"
    /\ inside' = "entries"
    /\ written' = Append(written, element)
    /\ element' = NewEntry(element.group, element.parent)
    /\ loader' = AddItem(loader, handler)
    /\ handler' = ResetState(handler)
    /\ UNCHANGED compiled

\* The document is complete: the compiler reads it, and a program makes an object of the class.
End ==
    /\ inside = "kcfg" /\ written # <<>>
    /\ inside' = "end"
    /\ compiled' = Construct(written)
    /\ UNCHANGED <<element, written, handler, loader>>

XtNext ==
    \/ \E t \in Labels : Signal(t) \/ Label(t) \/ ChoiceLabel(t)
    \/ \E g \in Groups : StartGroup(g)
    \/ \E a \in Attributes : StartEntry(a)
    \/ \E d \in Defaults : Default(d)
    \/ \E b \in {"min", "max"}, d \in Bounds : Bound(b, d)
    \/ \E m \in ParamMax : Parameter(m)
    \/ \E n \in ChoiceNames, v \in ChoiceValues : StartChoice(n, v)
    \/ EndChoice \/ EndEntry \/ EndGroup \/ End

XtSpec == XtInit /\ [][XtNext]_xtVars

-----------------------------------------------------------------------------
(* Properties *)

\* The texts of values that both readers take for the same.  They differ about the others that
\* compile: the compiled class has another default for a Bool, a Color or a Font without one; the
\* loader takes a Bool that is a number for false, a Color of three numbers for none, and a number
\* that the type does not hold, or that is none, for 0; it leaves the empty parts of a list out,
\* and it has no bounds but those that are an int, and none for an Enum; the compiler has no
\* milliseconds in a Time.
SameText(e) ==
    LET s == e.default
        parts == Split(s)
    IN  /\ e.type = "Bool" => s \in {True, False}
        /\ e.type = "Color" => s # Empty /\ Len(parts) = 1
        /\ e.type # "Font"
        /\ e.type = "Time" /\ s \in DOMAIN Times => Times[s].ms = Empty
        /\ e.type = "Double" => s = Empty \/ IsNumber(s)
        /\ e.type \in IntegerTypes => s = Empty \/ IsInteger(e.type, s)
        /\ e.type = "Enum" => s = Empty \/ IsInteger("Int", s) \/ IndexOf(e.choices, s) # 0
        /\ e.type \in {"StringList", "IntList"} => s = Empty \/ SkipEmptyParts(parts) = parts
        /\ e.type = "IntList" => s = Empty \/ \A i \in DOMAIN parts : IsInteger("Int", parts[i])
        /\ \A b \in {"min", "max"} :
            e.bounds[b] # Empty => e.type # "Enum" /\ IsInteger("Int", e.bounds[b])

\* The entries for which the two readers are meant to agree.  They differ by design of the code
\* about the others: the loader knows neither <parameter>, parentGroupName, nor some types; it
\* takes a missing type for none and the compiler for String; it takes the key from a name from
\* which spaces were removed and the compiler from the name as it is; it trims texts; a missing
\* label is the key for the compiler only, and the label of a <signal> for the loader.
Plain(e) ==
    /\ e.type \in LoaderTypes
    /\ e.key # Empty \/ NoSpaces(e.name) = e.name
    /\ \A t \in {e.key, e.default, e.label} \cup {e.choices[c].label : c \in DOMAIN e.choices} :
            Trimmed(t) = t
    /\ e.label # Empty
    /\ e.parent = Empty /\ e.paramMax = -1
    /\ SameText(e)

\* The values of choices are not among what the loader reads.
WithoutValues(item) ==
    [item EXCEPT !.choices = [c \in DOMAIN @ |-> [@[c] EXCEPT !.value = Empty]]]

InBase(item) ==
    [item EXCEPT !.group = IF loader.base = Empty THEN @ ELSE Cons(loader.base, @)]

\* For a document of plain entries, KConfigLoader has the same items as the compiled class, in the
\* same order, in the same groups below its own, with the same defaults, bounds and choices: nothing
\* that is said of one entry gets into another (resetState(), m_inChoice).
SameItems ==
    inside = "end" /\ compiled.made /\ (\A i \in DOMAIN written : Plain(written[i])) =>
        loader.items = [i \in DOMAIN compiled.items |-> InBase(WithoutValues(compiled.items[i]))]

\* kconfigloader.h says that KConfigLoader is for programs that cannot have the compiled class: all
\* that both have items for has the same defaults and bounds in both.
SameValues ==
    inside = "end" /\ compiled.made =>
        \A i \in ToSet(loader.items), j \in ToSet(compiled.items) :
            i.name = j.name => i.default = j.default /\ i.bounds = j.bounds

Path(e) == IF e.parent = Empty THEN <<e.group>> ELSE <<e.parent, e.group>>

\* No two groups of the document share a variable of the constructor, and no parameter is in a group
\* with a parent.
GroupsAreApart ==
    \A i, j \in DOMAIN written :
        LET e == written[i]
            f == written[j]
        IN  /\ Variable(e.group) = Variable(f.group) => Path(e) = Path(f)
            /\ e.parent # Empty => Variable(e.group) # Variable(f.parent) /\ e.paramMax = -1
            /\ Variable(e.parent) = Variable(f.parent) => e.parent = f.parent

ItemNames(e) ==
    LET p == ParseEntry(e)
    IN  IF e.paramMax = -1 THEN {p.name} ELSE {ParamString(p.name, n) : n \in 0..e.paramMax}

\* Every entry has its items in the compiled class, one for each index, and they are stored in the
\* group the document has them in, below its parent, whatever groups come before.
CompiledGroups ==
    inside = "end" /\ compiled.made =>
        \A i \in DOMAIN written : \A n \in ItemNames(written[i]) :
            \E item \in ToSet(compiled.items) : item.name = n /\ item.group = Path(written[i])

CompiledGroupsApart == GroupsAreApart => CompiledGroups

\* KConfigLoader::findItem() finds every item by its group and key, unless another has the same name
\* or the same group and key written in one.
FindsItem ==
    \A i \in DOMAIN loader.items :
        LET item == loader.items[i]
            rivals == {j \in DOMAIN loader.items \ {i} :
                        \/ loader.items[j].name = item.name
                        \/ Joint(loader.items[j].group, loader.items[j].key)
                            = Joint(item.group, item.key)}
        IN  rivals = {} => FindItem(loader, item.group, item.key) = <<item>>

\* kconfigloader.h says of findItem() that it finds the item for the given group and key.
FindsGroupAndKey ==
    \A i \in DOMAIN loader.items :
        LET found == FindItem(loader, loader.items[i].group, loader.items[i].key)
        IN  \A n \in DOMAIN found : /\ found[n].group = loader.items[i].group
                                     /\ found[n].key = loader.items[i].key
=============================================================================
