----------------------------- MODULE MCKConfigXt -----------------------------
(***************************************************************************)
(* Instances of KConfigXt for TLC: documents of two entries, in groups     *)
(* with and without parents.                                               *)
(***************************************************************************)
EXTENDS KConfigXt

Text(c) == <<c>>

Group(n, p) == [name |-> n, parent |-> p]

Entry(n, k, t) == [name |-> n, key |-> k, type |-> t]

\* A group with a parent and without, and another.
MCGroups == {Group(Text("g"), Empty), Group(Text("g"), Text("p")), Group(Text("h"), Empty)}

\* Names and keys, alone and together, with a space inside and with the place of a parameter; a
\* type the loader does not know, and none; and types whose values are read in ways of their own.
MCAttributes == {Entry(Text("a"), Empty, "Int"), Entry(Text("b"), Text("a"), "Enum"),
                 Entry(Empty, <<"c", " ", "d">>, "UInt"), Entry(<<"a", "$">>, Empty, "Bool"),
                 Entry(<<"e", " ", "f">>, Empty, "String"), Entry(Empty, Text("b"), "PathList"),
                 Entry(Text("b"), Empty, NoType)}
                \cup {Entry(Text("i"), Empty, t) : t \in {"LongLong", "Double", "Bool", "Color",
                        "Time", "StringList", "IntList", "Point"}}

MCLabels == {Text("l")}

Value1(t, c) == [type |-> t, text |-> Text(c)]

List(t, a, b) == [type |-> t, text |-> a \o Text(Comma) \o b]

\* A number, one that is too large for an int, one with a fraction, and the name of a choice; truth
\* in capital letters and as a number; lists with an empty part, and of other things than numbers.
MCDefaults ==
    {Value1("Int", "1"), Value1("Int", "9"), Value1("Enum", "1"), Value1("Enum", "x"),
     Value1("UInt", "x"), Value1("String", "x"), Value1("LongLong", "9"), Value1("Double", "0.5"),
     Value1("Bool", "true"), Value1("Bool", "TRUE"), Value1("Bool", "1"),
     Value1("Color", "x"), List("Color", Text("1"), List("", Text("1"), Text("1")).text),
     Value1("Time", "0:00"), Value1("Time", "0:00:00.5"),
     List("StringList", Text("x"), Text("x")), List("StringList", Empty, Text("x")),
     List("PathList", Text("x"), Empty), List("IntList", Text("1"), Text("0")),
     List("IntList", Text("1"), Text("9")), List("IntList", Text("1"), Text("x")),
     List("Point", Text("1"), Text("0"))}

\* Bounds that are read, and ones that the loader leaves out.
MCBounds == {Value1("Int", "1"), Value1("Double", "0.5"), Value1("LongLong", "9")}

MCNumber == [t \in {Text(c) : c \in {"0", "1", "9", "0.5"}} |->
                [whole |-> CASE t = Text("1") -> 1 [] t = Text("9") -> 9 [] OTHER -> 0,
                 fraction |-> IF t = Text("0.5") THEN Text(".5") ELSE Empty]]

MCTrue == Text("true")

MCFalse == Text("false")

MCTrueTexts == {MCTrue, Text("TRUE")}

MCTimes == [t \in {Text("0:00"), Text("0:00:00.5")} |->
                [second |-> Text("0:00"), ms |-> IF t = Text("0:00") THEN Empty ELSE Text("5")]]

MCChoiceNames == {Text("x"), Text("y")}

MCChoiceValues == {Empty}

MCBaseGroups == {Text("B")}

\* Two keys that are the same with the names of their groups before them.
AllGroups == MCGroups \cup {Group(<<"g", "a">>, Empty)}

JoiningAttributes == {Entry(Text("n"), <<"a", "k">>, "Int"), Entry(Text("m"), Text("k"), "Int"),
                      Entry(<<"a", "$">>, Empty, "Int")}
                     \cup {Entry(Text("i"), Empty, t) : t \in {"Bool", "Double"}}
=============================================================================
