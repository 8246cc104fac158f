---------------------------- MODULE MCKConfigText ----------------------------
(***************************************************************************)
(* Instances of KConfigText for TLC: all short texts over the bytes that   *)
(* the code treats differently.                                            *)
(***************************************************************************)
EXTENDS KConfigText

\* Characters and pieces of characters: 0xc3 begins one of two bytes, 0xe0 one of three, which
\* 0x80 must not continue; 0xa9 continues both.
Signs == {1, Char.newline, Char.space, Char.hash, Char.dollar, Char.equals, Char.open,
          Char.backslash, Char.close, Char.i, Char.s, 127}
Pieces == {195, 169, 224, 128, Char.newline, Char.a, Char.open}

Entry(k, l, o, v) == [kind |-> "entry", key |-> k, locale |-> l, options |-> o, value |-> v]
Header(n, l) == [kind |-> "header", names |-> n, locked |-> l]

AllOptions == {{}, {"i"}, {"e"}, {"i", "e"}}
German == <<Char.d, Char.e>>

\* Values of up to three signs, and of up to four pieces of characters.
ValueTexts == BoundedSeq(Signs, 3) \cup BoundedSeq(Pieces, 4)

KeyTexts == BoundedSeq(Signs, 2) \cup BoundedSeq(Signs \ {1, 127}, 3)

Values == {Entry(<<Char.a>>, <<>>, {}, v) : v \in ValueTexts}
Keys == {Entry(k, l, o, <<Char.a>>) : k \in KeyTexts, l \in {<<>>, German}, o \in AllOptions}
Deletions == {Entry(k, <<>>, {"d"}, <<>>) : k \in KeyTexts}

NameTexts == BoundedSeq(Signs \ {1, 127}, 2) \ {<<>>}
Groups == {Header(<<n>>, l) : n \in NameTexts \cup {<<Char.dollar, Char.i, Char.i>>},
                              l \in BOOLEAN}
          \cup {Header(<<m, n>>, l) : m, n \in NameTexts, l \in BOOLEAN}

ItemTexts == BoundedSeq({Char.comma, Char.backslash, Char.zero}, 2)
StringLists == {[kind |-> "list", items |-> s] : s \in BoundedSeq(ItemTexts, 3)}

\* Paths made of the home directory, separators and what expandString() looks for.
HomeDir == <<Char.slash, Char.a>>
CommaDir == <<Char.slash, Char.comma, Char.a>>
Fragments == {Home, HomeName, <<Char.slash>>, <<Char.dollar>>, <<Char.openBrace>>,
              <<Char.closeBrace>>, <<Char.a>>}
PathTexts == {FlattenSeq(f) : f \in BoundedSeq(Fragments, 4)}
OnePath == {[kind |-> "path", path |-> p] : p \in PathTexts}
ShortPaths == {FlattenSeq(f) : f \in BoundedSeq(Fragments \cup {<<Char.comma>>}, 2)}
PathLists == {[kind |-> "paths", items |-> s] : s \in BoundedSeq(ShortPaths, 2)}

XdgItems == BoundedSeq({Char.semicolon, Char.backslash, Char.a}, 2)
XdgLists == {[kind |-> "xdg", items |-> s] : s \in BoundedSeq(XdgItems, 2)}

\* Numbers at the borders of what is valid.
Parts(type) ==
    CASE type = "bool" -> {<<0>>, <<1>>}
      [] type = "int" -> {<<-10>>, <<0>>, <<207>>}
      [] type \in {"point", "size"} -> {-1, 0, 12} \X {-1, 0, 12}
      [] type = "rect" -> {-1, 0} \X {3} \X {-1, 0, 1} \X {0, 12}
      [] type = "date" -> {0, 2024} \X {0, 2, 12} \X {1, 31}
      [] type = "time" -> ({0, 23} \X {5} \X {0, 59} \X {0, 7}) \cup {<<>>}
      [] type = "datetime" -> {2024} \X {2} \X {0, 1} \X {0, 23} \X {59} \X {0, 40} \X {0, 7, 532}
      [] type = "color" -> ({0, 255} \X {3} \X {0} \X {0, 254, 255}) \cup {<<>>}

UtcZone == <<85, 84, 67>>
TypedValues ==
    UNION {{Value(type, p, z) : p \in Parts(type),
                                z \in IF type = "datetime" THEN {<<>>, UtcZone} ELSE {<<>>}} :
           type \in DOMAIN Numbers}

Everything ==
    Values \cup Keys \cup Deletions \cup Groups \cup StringLists \cup OnePath \cup PathLists
    \cup XdgLists \cup TypedValues

ValuesAndPaths == Values \cup PathLists
=============================================================================
