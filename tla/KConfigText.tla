----------------------------- MODULE KConfigText -----------------------------
(***************************************************************************)
(* The bytes of a line: how names, values, lists and paths are put into a  *)
(* configuration file and got back from it (src/core/kconfigini.cpp:       *)
(* stringToPrintable(), printableToString(), the lines of writeEntries()   *)
(* and parseConfig(); src/core/kconfiggroup.cpp: serializeList(),          *)
(* deserializeList(), the values of writeEntry() and convertToQVariant(),  *)
(* translatePath(); src/core/kconfig.cpp: expandString();                  *)
(* src/gui/kconfiggroupgui.cpp: colors).                                   *)
(*                                                                         *)
(* KConfigIni starts from the lines that ReadLine makes of a text here.    *)
(* A text is a sequence of bytes.  Paths that begin with "file:" are QUrl's*)
(* business, and HOME is the only variable of the environment.             *)
(***************************************************************************)
EXTENDS Integers, Sequences, SequencesExt

CONSTANTS
    Stored,     \* what the application stores: see Item
    Home,       \* $HOME
    Nothing     \* nothing was read

Text == Seq(0 .. 255)

\* The types of a QVariant that have numbers in them, and how many.  A time ends in milliseconds,
\* and a color that is not valid has no numbers.
Numbers == [bool |-> {1}, int |-> {1}, point |-> {2}, size |-> {2}, rect |-> {4}, date |-> {3},
            time |-> {0, 4}, datetime |-> {7}, color |-> {0, 4}]

\* An entry or a header as the backend has it, a list of strings, one that is separated by
\* semicolons, a path, a list of paths, or a value of one of those types.
Item ==
    [kind : {"entry"}, key : Text, locale : Text, options : SUBSET {"i", "e", "d"}, value : Text]
    \cup [kind : {"header"}, names : Seq(Text), locked : BOOLEAN]
    \cup [kind : {"list", "xdg", "paths"}, items : Seq(Text)]
    \cup [kind : {"path"}, path : Text]
    \cup {v \in [kind : {"value"}, type : DOMAIN Numbers, parts : Seq(Int), zone : Text] :
             Len(v.parts) \in Numbers[v.type]}

ASSUME TextAssumption ==
    /\ Stored \subseteq Item
    /\ Home \in Text
    /\ Nothing \notin Stored

VARIABLES
    stored,   \* what is stored
    line,     \* the line of the file; Nothing: not written yet
    got,      \* what reading the line gave
    isRead    \* whether the line was read

vars == <<stored, line, got, isRead>>

\* The bytes that mean something to the code.
Char == [tab |-> 9, newline |-> 10, return |-> 13, space |-> 32, hash |-> 35, dollar |-> 36,
         comma |-> 44, minus |-> 45, dot |-> 46, slash |-> 47, zero |-> 48, colon |-> 58,
         semicolon |-> 59, equals |-> 61, open |-> 91,
         backslash |-> 92, close |-> 93, underscore |-> 95, a |-> 97, d |-> 100, e |-> 101,
         i |-> 105, n |-> 110, r |-> 114, s |-> 115, t |-> 116, x |-> 120, z |-> 122,
         openBrace |-> 123, closeBrace |-> 125]

Letter == [i |-> Char.i, e |-> Char.e, d |-> Char.d]

-----------------------------------------------------------------------------
(* stringToPrintable()                                                     *)

Nibble(n) == IF n < 10 THEN Char.zero + n ELSE Char.a + n - 10

Escaped(b) == <<Char.backslash, Char.x, Nibble(b \div 16), Nibble(b % 16)>>

EscapedAll(bytes) == FlattenSeq([i \in DOMAIN bytes |-> Escaped(bytes[i])])

\* The bytes of a UTF-8 character, from its first one; 0: none begins like this.
CharLength(b) ==
    IF b \in 194 .. 223 THEN 2 ELSE IF b \in 224 .. 239 THEN 3 ELSE IF b \in 240 .. 244 THEN 4
    ELSE 0

\* Utf8Char::addByte(): no overlong sequences, nothing above U+10FFFF.
Continues(bytes, b) ==
    IF bytes = <<>> THEN CharLength(b) > 0
    ELSE /\ b \in 128 .. 191
         /\ Len(bytes) = 1 => /\ bytes[1] = 224 => b >= 160
                              /\ bytes[1] = 240 => b >= 144
                              /\ bytes[1] = 244 => b <= 143

IsComplete(bytes) == bytes # <<>> /\ Len(bytes) = CharLength(bytes[1])

ShortEscape == <<<<Char.newline, Char.n>>, <<Char.tab, Char.t>>, <<Char.return, Char.r>>,
                 <<Char.backslash, Char.backslash>>>>

ShortEscaped == {ShortEscape[i][1] : i \in DOMAIN ShortEscape}

LetterOf(b) == ShortEscape[SelectInSeq(ShortEscape, LAMBDA e : e[1] = b)][2]

\* The bytes that have a case of their own and so do not end a character that was begun.
Special == ShortEscaped \cup {Char.equals, Char.open, Char.close}

SpecialText(type, b) ==
    IF b \in ShortEscaped THEN <<Char.backslash, LetterOf(b)>>
    ELSE IF type = "value" \/ (type = "group" /\ b = Char.equals) THEN <<b>>
    ELSE Escaped(b)

PlainText(type, b) == IF b < 32 \/ (type = "value" /\ b >= 127) THEN Escaped(b) ELSE <<b>>

\* One byte: begun holds the bytes of a character that is not complete yet.
PutByte(type, printed, b) ==
    IF b \in Special
    THEN [printed EXCEPT !.text = printed.text \o SpecialText(type, b)]
    ELSE IF ~Continues(printed.begun, b)
    THEN [text |-> printed.text \o EscapedAll(printed.begun) \o PlainText(type, b),
          begun |-> <<>>]
    ELSE IF IsComplete(Append(printed.begun, b))
    THEN [text |-> Append(printed.text \o printed.begun, b), begun |-> <<>>]
    ELSE [printed EXCEPT !.begun = Append(printed.begun, b)]

SpaceText == <<Char.backslash, Char.s>>

\* The bytes behind a protected leading space; names of groups are not protected.
Leads(type, text) == type # "group" /\ text # <<>> /\ Head(text) = Char.space

\* Mutant: the bytes of a character that is not complete at the end are dropped.
BodyCutOff(type, text) ==
    FoldLeft(LAMBDA p, b : PutByte(type, p, b), [text |-> <<>>, begun |-> <<>>], text).text

Body(type, text) ==
    LET end == FoldLeft(LAMBDA p, b : PutByte(type, p, b), [text |-> <<>>, begun |-> <<>>], text)
    IN  end.text \o EscapedAll(end.begun)

\* Mutant: only a leading space is protected.
PrintableLeading(type, text) ==
    IF Leads(type, text) THEN SpaceText \o Body(type, Tail(text)) ELSE Body(type, text)

Printable(type, text) ==
    LET printed == IF Leads(type, text) THEN SpaceText \o Body(type, Tail(text))
                   ELSE Body(type, text)
    IN  IF type # "group" /\ printed # <<>> /\ Last(printed) = Char.space
        THEN Front(printed) \o SpaceText
        ELSE printed

-----------------------------------------------------------------------------
(* printableToString()                                                     *)

IsSpace(b) == b \in 9 .. 13 \cup {Char.space}

Trimmed(text) ==
    LET first == SelectInSeq(text, LAMBDA b : ~IsSpace(b))
        last  == SelectLastInSeq(text, LAMBDA b : ~IsSpace(b))
    IN  IF first = 0 THEN <<>> ELSE SubSeq(text, first, last)

\* -1: not a digit.
NibbleOf(c) ==
    IF c \in 48 .. 57 THEN c - 48 ELSE IF c \in 97 .. 102 THEN c - 87
    ELSE IF c \in 65 .. 70 THEN c - 55 ELSE -1

CharFromHex(c1, c2) ==
    IF NibbleOf(c1) < 0 \/ NibbleOf(c2) < 0 THEN Char.x ELSE 16 * NibbleOf(c1) + NibbleOf(c2)

\* What a backslash and b stand for; "\;" and "\," are no escapes and kept.
Meaning(b) ==
    IF b = Char.s THEN <<Char.space>>
    ELSE IF \E i \in DOMAIN ShortEscape : ShortEscape[i][2] = b
    THEN <<ShortEscape[SelectInSeq(ShortEscape, LAMBDA e : e[2] = b)][1]>>
    ELSE IF b \in {Char.semicolon, Char.comma} THEN <<Char.backslash, b>>
    ELSE <<>>

GetByte(read, b) ==
    CASE read.mode = "plain" ->
            IF b = Char.backslash THEN [read EXCEPT !.mode = "escape"]
            ELSE [read EXCEPT !.text = Append(read.text, b)]
      [] read.mode = "escape" ->
            IF b = Char.x THEN [read EXCEPT !.mode = "hex"]
            ELSE IF Meaning(b) # <<>>
            THEN [read EXCEPT !.mode = "plain", !.text = read.text \o Meaning(b)]
            ELSE [read EXCEPT !.mode = "invalid"]
      [] read.mode = "hex" ->
            IF read.digit = <<>> THEN [read EXCEPT !.digit = <<b>>]
            ELSE [mode |-> "plain", digit |-> <<>>,
                  text |-> Append(read.text, CharFromHex(read.digit[1], b))]
      [] OTHER -> read

\* Works in place: behind an invalid escape the buffer is what it was.
FromPrintable(text) ==
    LET inner == Trimmed(text)
        read  == FoldLeft(GetByte, [text |-> <<>>, mode |-> "plain", digit |-> <<>>], inner)
    IN  IF ~Contains(text, Char.backslash) THEN text
        ELSE CASE read.mode = "hex" -> Append(read.text, Char.x)
               [] read.mode = "invalid" ->
                     Append(read.text, Char.backslash)
                     \o SubSeq(inner, Len(read.text) + 2, Len(inner))
               [] OTHER -> read.text

-----------------------------------------------------------------------------
(* The lines of writeEntries()                                             *)

\* A name that could be taken for the option "$i" of a header.
LooksLikeOption(name) ==
    /\ name # <<>> /\ Len(name) <= 10 /\ Head(name) = Char.dollar
    /\ \A i \in 2 .. Len(name) : name[i] \in Char.a .. Char.z

InBrackets(text) == <<Char.open>> \o text \o <<Char.close>>

\* Mutant: a dollar is not protected.
LastNamePlain(name) == Printable("group", name)

LastName(name) ==
    IF LooksLikeOption(name) THEN Escaped(Char.dollar) \o Printable("group", Tail(name))
    ELSE Printable("group", name)

HeaderText(names, locked) ==
    FlattenSeq([i \in 1 .. Len(names) - 1 |-> InBrackets(Printable("group", names[i]))])
    \o InBrackets(LastName(Last(names)))
    \o (IF locked THEN InBrackets(<<Char.dollar, Char.i>>) ELSE <<>>)

\* The letters behind the dollar, in the order they are written.
OptionText(options) ==
    LET order   == IF "d" \in options THEN <<"d", "i">> ELSE <<"i", "e">>
        letters == SelectSeq(order, LAMBDA o : o \in options)
    IN  IF letters = <<>> THEN <<>>
        ELSE InBrackets(<<Char.dollar>> \o [i \in DOMAIN letters |-> Letter[letters[i]]])

EntryText(key, locale, options, value) ==
    Printable("key", key) \o (IF locale = <<>> THEN <<>> ELSE InBrackets(locale))
    \o OptionText(options)
    \o (IF "d" \in options THEN <<>> ELSE <<Char.equals>> \o Printable("value", value))

-----------------------------------------------------------------------------
(* The lines as parseConfig() takes them apart                             *)

HeaderByte(read, b) ==
    CASE read.mode = "name" ->
            IF b = Char.close
            THEN [mode |-> "behind", names |-> Append(read.names, read.name), name |-> <<>>]
            ELSE [read EXCEPT !.name = Append(read.name, b)]
      [] read.mode = "behind" ->
            [read EXCEPT !.mode = IF b = Char.open THEN "name" ELSE "rest"]
      [] OTHER -> read

\* "[a][b][$i]", or with no name at all "[$i]", which locks the file.
ReadHeader(text) ==
    LET read   == FoldLeft(HeaderByte, [mode |-> "name", names |-> <<>>, name |-> <<>>],
                           Tail(text))
        locked == read.mode = "behind" /\ Last(read.names) = <<Char.dollar, Char.i>>
        names  == IF locked THEN Front(read.names) ELSE read.names
    IN  IF read.mode = "name" THEN Nothing
        ELSE [kind |-> "header", names |-> [i \in DOMAIN names |-> FromPrintable(names[i])],
              locked |-> locked]

OptionsOf(letters) == {o \in {"i", "e", "d"} : Contains(letters, Letter[o])}

RECURSIVE Brackets(_, _)
\* The brackets at the end of a key, from the last one: options and at most one locale.  The rest
\* of a line is not looked at once its deletion was seen.
Brackets(key, found) ==
    LET start == SelectLastInSeq(key, LAMBDA b : b = Char.open)
        tail  == SubSeq(key, start + 1, Len(key))
        close == SelectInSeq(tail, LAMBDA b : b = Char.close)
        inner == SubSeq(tail, 1, close - 1)
        rest  == SubSeq(key, 1, start - 1)
    IN  CASE start = 0 -> [found EXCEPT !.key = FromPrintable(key)]
          [] start # 0 /\ close = 0 -> Nothing
          [] start # 0 /\ close > 1 /\ inner[1] = Char.dollar ->
                LET end     == SelectInSeq(inner, LAMBDA b : b = Char.d)
                    options == OptionsOf(IF end = 0 THEN inner ELSE SubSeq(inner, 1, end))
                IN  IF end = 0
                    THEN Brackets(rest, [found EXCEPT !.options = found.options \cup options])
                    ELSE [found EXCEPT !.key = FromPrintable(rest), !.locale = <<>>,
                                       !.options = found.options \cup options, !.value = <<>>]
          [] OTHER -> IF found.locale # <<>> THEN Nothing
                      ELSE Brackets(rest, [found EXCEPT !.locale = inner])

ReadEntry(text) ==
    LET equals == SelectInSeq(text, LAMBDA b : b = Char.equals)
        key    == IF equals = 0 THEN text ELSE Trimmed(SubSeq(text, 1, equals - 1))
        value  == IF equals = 0 THEN <<>> ELSE Trimmed(SubSeq(text, equals + 1, Len(text)))
        read   == Brackets(key, [kind |-> "entry", key |-> <<>>, locale |-> <<>>, options |-> {},
                                 value |-> FromPrintable(value)])
    IN  IF key = <<>> THEN Nothing
        ELSE IF read # Nothing /\ equals = 0 /\ "d" \notin read.options THEN Nothing
        ELSE read

\* One line of the file; a comment is nothing.
ReadLine(buffer) ==
    LET text == Trimmed(buffer)
    IN  IF text = <<>> THEN Nothing
        ELSE IF text[1] = Char.hash THEN Nothing
        ELSE IF text[1] = Char.open THEN ReadHeader(text)
        ELSE ReadEntry(text)

-----------------------------------------------------------------------------
(* Lists and paths                                                         *)

QuotedItem(item) ==
    FlattenSeq([i \in DOMAIN item |-> IF item[i] \in {Char.backslash, Char.comma}
                                      THEN <<Char.backslash, item[i]>> ELSE <<item[i]>>])

EmptyItem == <<Char.backslash, Char.zero>>

\* Mutant: a list with an empty string in it is written as an empty list.
SerializeListEmpty(list) ==
    FoldLeftDomain(LAMBDA text, i : text \o (IF i = 1 THEN <<>> ELSE <<Char.comma>>)
                                    \o QuotedItem(list[i]), <<>>, list)

SerializeList(list) ==
    LET value == FoldLeftDomain(LAMBDA text, i : text \o (IF i = 1 THEN <<>> ELSE <<Char.comma>>)
                                                 \o QuotedItem(list[i]), <<>>, list)
    IN  IF list # <<>> /\ value = <<>> THEN EmptyItem ELSE value

ListByte(read, b) ==
    IF ~read.quoted /\ b = Char.backslash THEN [read EXCEPT !.quoted = TRUE]
    ELSE IF ~read.quoted /\ b = Char.comma
    THEN [read EXCEPT !.list = Append(read.list, read.item), !.item = <<>>]
    ELSE [read EXCEPT !.quoted = FALSE, !.item = Append(read.item, b)]

DeserializeList(text) ==
    LET read == FoldLeft(ListByte, [list |-> <<>>, item |-> <<>>, quoted |-> FALSE], text)
    IN  IF text = <<>> THEN <<>>
        ELSE IF text = EmptyItem THEN <<<<>>>>
        ELSE Append(read.list, read.item)

\* writeXdgListEntry(): a semicolon behind each item.
XdgText(list) ==
    FlattenSeq([n \in DOMAIN list |->
        FlattenSeq([i \in DOMAIN list[n] |->
            IF list[n][i] \in {Char.backslash, Char.semicolon}
            THEN <<Char.backslash, list[n][i]>> ELSE <<list[n][i]>>]) \o <<Char.semicolon>>])

XdgByte(read, b) ==
    IF ~read.quoted /\ b = Char.backslash THEN [read EXCEPT !.quoted = TRUE]
    ELSE IF ~read.quoted /\ b = Char.semicolon
    THEN [read EXCEPT !.list = Append(read.list, read.item), !.item = <<>>]
    ELSE [read EXCEPT !.quoted = FALSE, !.item = Append(read.item, b)]

\* readXdgListEntry(): a last item without a semicolon counts unless it is empty.
ReadXdg(text) ==
    LET read == FoldLeft(XdgByte, [list |-> <<>>, item |-> <<>>, quoted |-> FALSE], text)
    IN  IF read.item = <<>> THEN read.list ELSE Append(read.list, read.item)

HomeName == <<72, 79, 77, 69>>

HomeText == <<Char.dollar>> \o HomeName

\* Mutant: any path whose text begins like the home directory is taken to be in it.
CleanHomeDirPathPrefix(path) ==
    IF Home # <<>> /\ IsPrefix(Home, path)
    THEN HomeText \o SubSeq(path, Len(Home) + 1, Len(path)) ELSE path

CleanHomeDirPath(path) ==
    IF /\ Home # <<>> /\ IsPrefix(Home, path)
       /\ path = Home \/ path[Len(Home) + 1] = Char.slash
    THEN HomeText \o SubSeq(path, Len(Home) + 1, Len(path))
    ELSE path

TranslatePath(path) ==
    LET doubled == FlattenSeq([i \in DOMAIN path |-> IF path[i] = Char.dollar
                                                     THEN <<Char.dollar, Char.dollar>>
                                                     ELSE <<path[i]>>])
    IN  IF path = <<>> \/ path[1] # Char.slash THEN doubled ELSE CleanHomeDirPath(doubled)

Environment(name) == IF name = HomeName THEN Home ELSE <<>>

IsNameByte(b) == b \in 48 .. 57 \cup 65 .. 90 \cup 97 .. 122 \cup {Char.underscore}

PlainByte(read, b) ==
    IF b = Char.dollar THEN [read EXCEPT !.mode = "dollar"]
    ELSE [read EXCEPT !.mode = "plain", !.text = Append(read.text, b)]

Replaced(read) ==
    [mode |-> "plain", name |-> <<>>, text |-> read.text \o Environment(read.name)]

ExpandByte(read, b) ==
    CASE read.mode = "plain" -> PlainByte(read, b)
      [] read.mode = "dollar" ->
            IF b = Char.dollar
            THEN [read EXCEPT !.mode = "plain", !.text = Append(read.text, b)]
            ELSE IF b = Char.openBrace THEN [read EXCEPT !.mode = "brace"]
            ELSE IF IsNameByte(b) THEN [read EXCEPT !.mode = "name", !.name = <<b>>]
            ELSE PlainByte(read, b)
      [] read.mode = "name" ->
            IF IsNameByte(b) THEN [read EXCEPT !.name = Append(read.name, b)]
            ELSE PlainByte(Replaced(read), b)
      [] OTHER ->
            IF b = Char.closeBrace THEN Replaced(read)
            ELSE [read EXCEPT !.name = Append(read.name, b)]

\* "$$" is a dollar, "$NAME" and "${NAME}" a variable; what it holds is not expanded again.
ExpandString(value) ==
    LET read == FoldLeft(ExpandByte, [text |-> <<>>, mode |-> "plain", name |-> <<>>], value)
    IN  CASE read.mode = "plain" -> read.text
          [] read.mode = "dollar" -> Append(read.text, Char.dollar)
          [] OTHER -> Replaced(read).text

-----------------------------------------------------------------------------
(* Values of other types: writeEntry() and readEntry() of a QVariant       *)

Digits[n \in Nat] ==
    IF n < 10 THEN <<Char.zero + n>> ELSE Append(Digits[n \div 10], Char.zero + (n % 10))

Decimal(n) == IF n < 0 THEN <<Char.minus>> \o Digits[-n] ELSE Digits[n]

Padded(n, width) == SubSeq(Digits[10^width + n], 2, width + 1)

SecondsText(seconds, msec) ==
    Decimal(seconds) \o (IF msec = 0 THEN <<>> ELSE <<Char.dot>> \o Padded(msec, 3))

TrueText == <<Char.t, Char.r, 117, Char.e>>
FalseText == <<102, Char.a, 108, Char.s, Char.e>>
InvalidText == <<Char.i, Char.n, 118, Char.a, 108, Char.i, Char.d>>

\* Mutant: the alpha of a color is left out.
NumberItemsOpaque(v) ==
    LET shown == IF v.type = "color" THEN SubSeq(v.parts, 1, 3)
                 ELSE IF v.type = "datetime" THEN SubSeq(v.parts, 1, 5) ELSE v.parts
    IN  [i \in DOMAIN shown |-> Decimal(shown[i])]
        \o (IF v.type # "datetime" THEN <<>> ELSE <<SecondsText(v.parts[6], v.parts[7])>>)
        \o (IF v.zone = <<>> THEN <<>> ELSE <<v.zone>>)

\* The numbers as a list.  An alpha of 255 goes without saying, as does the local time zone.
NumberItems(v) ==
    LET opaque == v.type = "color" /\ v.parts[4] = 255
        shown == IF opaque THEN SubSeq(v.parts, 1, 3)
                 ELSE IF v.type = "datetime" THEN SubSeq(v.parts, 1, 5) ELSE v.parts
    IN  [i \in DOMAIN shown |-> Decimal(shown[i])]
        \o (IF v.type # "datetime" THEN <<>> ELSE <<SecondsText(v.parts[6], v.parts[7])>>)
        \o (IF v.zone = <<>> THEN <<>> ELSE <<v.zone>>)

\* QTime::toString(), which leaves out the milliseconds.
TimeText(parts) ==
    IF parts = <<>> THEN <<>> ELSE
    Padded(parts[1], 2) \o <<Char.colon>> \o Padded(parts[2], 2) \o <<Char.colon>>
    \o Padded(parts[3], 2)

ValueText(v) ==
    CASE v.type = "bool" -> IF v.parts[1] = 1 THEN TrueText ELSE FalseText
      [] v.type = "int" -> Decimal(v.parts[1])
      [] v.type = "time" -> TimeText(v.parts)
      [] v.type = "color" /\ v.parts = <<>> -> InvalidText
      [] OTHER -> SerializeList(NumberItems(v))

SplitAt(text, b) ==
    FoldLeft(LAMBDA list, c : IF c = b THEN Append(list, <<>>)
                              ELSE Append(Front(list), Append(Last(list), c)),
             <<<<>>>>, text)

IsDecimal(text) ==
    LET digits == IF text # <<>> /\ Head(text) = Char.minus THEN Tail(text) ELSE text
    IN  digits # <<>> /\ \A i \in DOMAIN digits : digits[i] \in 48 .. 57

\* toInt(): 0 unless it is a number.
ToInt(text) ==
    LET size(t) == FoldLeft(LAMBDA n, b : 10 * n + b - Char.zero, 0, t)
    IN  IF ~IsDecimal(text) THEN 0
        ELSE IF Head(text) = Char.minus THEN -size(Tail(text)) ELSE size(text)

\* The seconds and the milliseconds of "40.532".
ToSeconds(text) ==
    LET halves == SplitAt(text, Char.dot)
    IN  <<ToInt(halves[1]), IF Len(halves) = 2 THEN ToInt(halves[2]) ELSE 0>>

IsDate(p) == p[1] # 0 /\ p[2] \in 1 .. 12 /\ p[3] \in 1 .. 31

IsTime(p) == p[1] \in 0 .. 23 /\ p[2] \in 0 .. 59 /\ p[3] \in 0 .. 59 /\ p[4] \in 0 .. 999

\* isValid() of QSize, QRect, QDate and QDateTime.  A time or a color that is invalid comes back.
IsValid(type, p) ==
    CASE type = "size" -> p[1] >= 0 /\ p[2] >= 0
      [] type = "rect" -> p[3] > 0 /\ p[4] > 0
      [] type = "date" -> IsDate(p)
      [] type = "datetime" -> IsDate(p) /\ IsTime(SubSeq(p, 4, 7))
      [] OTHER -> TRUE

Value(type, parts, zone) == [kind |-> "value", type |-> type, parts |-> parts, zone |-> zone]

\* A value that is not valid reads as the default.
IfValid(type, parts, zone) ==
    IF IsValid(type, parts) THEN Value(type, parts, zone) ELSE Nothing

ReadDateTime(list) ==
    IF Len(list) < 6 THEN Nothing
    ELSE IfValid("datetime",
                 [i \in 1 .. 5 |-> ToInt(list[i])] \o ToSeconds(list[6]),
                 IF Len(list) = 7 THEN list[7] ELSE <<>>)

\* readEntryGui(): three components or four, each a byte.
ReadColor(text) ==
    LET list == SplitAt(text, Char.comma)
        parts == [i \in DOMAIN list |-> ToInt(list[i])]
    IN  IF text \in {<<>>, InvalidText} THEN Value("color", <<>>, <<>>)
        ELSE IF Len(list) \notin {3, 4} \/ \E i \in DOMAIN list :
                    ~IsDecimal(list[i]) \/ parts[i] \notin 0 .. 255
        THEN Nothing
        ELSE Value("color", IF Len(list) = 3 THEN Append(parts, 255) ELSE parts, <<>>)

Negatives == {FalseText, <<Char.n, 111>>, <<111, 102, 102>>, <<Char.zero>>}

\* convertToQVariant() and readEntryGui(), by the type of the default.
ReadValue(type, text) ==
    LET list == SplitAt(text, Char.comma)
        parts == [i \in DOMAIN list |-> ToInt(list[i])]
    IN  CASE type = "bool" -> Value("bool", <<IF text \in Negatives THEN 0 ELSE 1>>, <<>>)
          [] type = "int" ->
                IF IsDecimal(text) THEN Value("int", <<ToInt(text)>>, <<>>) ELSE Nothing
          [] type = "time" ->
                LET hms == SplitAt(text, Char.colon)
                IN  Value("time", IF Len(hms) # 3 THEN <<>>
                                  ELSE [i \in 1 .. 3 |-> ToInt(hms[i])] \o <<0>>, <<>>)
          [] type = "datetime" -> ReadDateTime(list)
          [] type = "color" -> ReadColor(text)
          [] type = "date" ->
                IF Len(list) \in {3, 6} THEN IfValid("date", SubSeq(parts, 1, 3), <<>>) ELSE Nothing
          [] OTHER ->
                IF Len(list) \in Numbers[type] THEN IfValid(type, parts, <<>>) ELSE Nothing

-----------------------------------------------------------------------------
(* What is stored goes to the file with sync(), and is read again          *)

AKey == <<Char.a>>

Init ==
    /\ stored \in Stored
    /\ line = Nothing
    /\ got = Nothing
    /\ isRead = FALSE

ToFile(text) ==
    /\ line = Nothing
    /\ line' = text
    /\ UNCHANGED <<stored, got, isRead>>

WriteHeader == stored.kind = "header" /\ ToFile(HeaderText(stored.names, stored.locked))

WriteEntry ==
    /\ stored.kind = "entry"
    /\ ToFile(EntryText(stored.key, stored.locale, stored.options, stored.value))

\* writeEntry() of a list: a value that is null is written as an empty one.
WriteList == stored.kind = "list" /\ ToFile(EntryText(AKey, <<>>, {}, SerializeList(stored.items)))

WriteXdgList == stored.kind = "xdg" /\ ToFile(EntryText(AKey, <<>>, {}, XdgText(stored.items)))

WriteValue == stored.kind = "value" /\ ToFile(EntryText(AKey, <<>>, {}, ValueText(stored)))

WritePath ==
    stored.kind = "path" /\ ToFile(EntryText(AKey, <<>>, {"e"}, TranslatePath(stored.path)))

\* writePathEntry() of an empty list hands a null value to putData(), which deletes the entry.
WritePaths ==
    /\ stored.kind = "paths"
    /\ ToFile(EntryText(AKey, <<>>, IF stored.items = <<>> THEN {"d"} ELSE {"e"},
                        SerializeList([i \in DOMAIN stored.items |->
                                          TranslatePath(stored.items[i])])))

\* readEntry(), readPathEntry(): by the type that is asked for.
Typed(read) ==
    CASE stored.kind \in {"header", "entry"} \/ read = Nothing -> read
      [] "d" \in read.options -> Nothing
      [] stored.kind = "list" -> [kind |-> "list", items |-> DeserializeList(read.value)]
      [] stored.kind = "xdg" -> [kind |-> "xdg", items |-> ReadXdg(read.value)]
      [] stored.kind = "value" -> ReadValue(stored.type, read.value)
      [] stored.kind = "path" -> [kind |-> "path", path |-> ExpandString(read.value)]
      [] stored.kind = "paths" ->
            [kind |-> "paths", items |-> DeserializeList(ExpandString(read.value))]

Read ==
    /\ line # Nothing
    /\ ~isRead
    /\ isRead' = TRUE
    /\ got' = Typed(ReadLine(line))
    /\ UNCHANGED <<stored, line>>

Next ==
    \/ WriteHeader \/ WriteEntry \/ WriteList \/ WriteXdgList \/ WriteValue
    \/ WritePath \/ WritePaths
    \/ Read

Spec == Init /\ [][Next]_vars

-----------------------------------------------------------------------------
(* What is promised                                                        *)

\* A byte with a case of its own follows a UTF-8 character that was only begun.
Interrupted(text) ==
    \E i \in 1 .. Len(text) - 1 :
        /\ text[i + 1] \in Special
        /\ FoldLeft(LAMBDA p, b : PutByte("value", p, b), [text |-> <<>>, begun |-> <<>>],
                    SubSeq(text, 1, i)).begun # <<>>

\* A name with a space at an end loses it where it also needs an escape.
LosesSpace(name) ==
    Trimmed(name) # name /\ Contains(Printable("group", name), Char.backslash)

\* A home directory with a comma or a backslash is taken apart with the list.
HomeIsPlain == ~Contains(Home, Char.comma) /\ ~Contains(Home, Char.backslash)

\* A time of day is written without its milliseconds, although that of a date is not.
HasMilliseconds(item) == item.type = "time" /\ item.parts # <<>> /\ item.parts[4] # 0

\* What is known not to come back, for reasons that KConfigIni has in its lines, too: a key that
\* begins like a comment, a deletion with a locale or a lock, an empty list of paths; and for
\* reasons of its bytes.  A value that is not valid in itself is read as the default.
Exempt(item) ==
    CASE item.kind = "entry" ->
            \/ item.key = <<>> \/ item.key[1] = Char.hash
            \/ "d" \in item.options /\ ("i" \in item.options \/ item.locale # <<>>)
            \/ Interrupted(item.key) \/ Interrupted(item.value)
      [] item.kind = "header" ->
            \E i \in DOMAIN item.names : LosesSpace(item.names[i]) \/ Interrupted(item.names[i])
      [] item.kind = "paths" -> item.items = <<>> \/ ~HomeIsPlain
      [] item.kind = "value" -> ~IsValid(item.type, item.parts) \/ HasMilliseconds(item)
      [] OTHER -> FALSE

\* A header, an entry, a list, a path or a value of another type that is written to the file is
\* read back as it was, with all its bytes, its options and the borders of its parts
\* (stringToPrintable() against printableToString(), writeEntries() against parseConfig(),
\* serializeList() against deserializeList(), translatePath() against expandString(),
\* writeEntry() against convertToQVariant()).
ReadsBack == isRead /\ ~Exempt(stored) => got = stored

\* "ValueString can be a bytearray with non-UTF-8 bytes that should be escaped"
\* (kconfigini.cpp:650): any value of bytes is read back as it was.
BytesReadBack == isRead /\ stored.kind = "entry" => got.value = stored.value

\* "The path should therefore be read back with readPathEntry()." (kconfiggroup.h:497): also in a
\* list, whatever the home directory is.
PathsReadBack == isRead /\ stored.kind = "paths" /\ stored.items # <<>> => got = stored
=============================================================================
