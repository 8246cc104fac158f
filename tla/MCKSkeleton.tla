---------------------------- MODULE MCKSkeleton ----------------------------
(***************************************************************************)
(* Instances of KSkeleton and KPropertyMap for TLC: three programs, with   *)
(* an ItemInt with a range and an ItemEnum with two choices, with an       *)
(* ItemPassword and an ItemPath, and with an item of another type and a    *)
(* property map.                                                           *)
(***************************************************************************)
EXTENDS KPropertyMap, TLC

CONSTANTS int, enum, password, path, plain, n1, n2, n3

ByItem(a, b, c, d, e) ==
    (int :> a) @@ (enum :> b) @@ (password :> c) @@ (path :> d) @@ (plain :> e)

Choice(c) == <<"choice", c>>

Path(v) == <<"path", v>>

Program(own_items, has_map) == [items |-> own_items, mapped |-> has_map]

Numbers == Program({int, enum}, FALSE)

MCPrograms == {Numbers, Program({password, path}, FALSE), Program({plain}, TRUE)}

NumbersOnly == {Numbers}

MCNameOf == ByItem(n1, n2, n1, n2, n2)

\* The item of the program with the map has a key that is not its name, at first.
MCKeyOf == ByItem(n1, n2, n1, n2, n3)

MCKind == ByItem("number", "enum", "password", "path", "plain")
MCChoices == ByItem(<<>>, <<Choice("a"), Choice("b")>>, <<>>, <<>>, <<>>)
MCBuiltin == ByItem(0, 0, 0, 0, 0)
MCLow == ByItem(0, NoBound, NoBound, NoBound, NoBound)
MCHigh == ByItem(1, NoBound, NoBound, NoBound, NoBound)

\* One item may take the other's name, and one the name of its key.
MCOtherNames == ByItem({n2}, {}, {}, {}, {n3})

NoOtherNames == ByItem({}, {}, {}, {}, {})

MCValues == ByItem({}, {1}, {1}, {}, {0, 1})

System(t, locked) == [text |-> t, locked |-> locked]

Nothing == System(Absent, FALSE)

NoSystem == ByItem(Nothing, Nothing, Nothing, Nothing, Nothing)

\* The system has nothing, or a default for all, some of them locked.
MCSystems ==
    { NoSystem,
      ByItem(System(NumberText(1), TRUE), System(Choice("b"), FALSE), System(NumberText(-2), FALSE),
             System(Path(1), TRUE), System(NumberText(1), FALSE)) }

\* An update that takes the system's defaults and locks away.
MCLaterSystems == {NoSystem}

\* What others write.
MCOtherTexts ==
    ByItem({NumberText(2)}, {Choice("a")}, {NumberText(-2)}, {}, {NumberText(2)})

NoOtherTexts == ByItem({}, {}, {}, {}, {})
=============================================================================
