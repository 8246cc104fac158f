-------------------------- MODULE KConfigIniProofs --------------------------
(***************************************************************************)
(* Lemmas about the entry map and the INI backend, which the proofs about  *)
(* KConfig and KConfigCopy rest on: what a line, a file, setEntry() and a  *)
(* write of the map keep, and that what was written is read back.          *)
(***************************************************************************)
EXTENDS KConfigCalls, WellFoundedInduction, SequenceTheorems, TLAPS

-----------------------------------------------------------------------------
(* Counting up *)

\* What holds at first, and at each number when it does at the one before, holds up to n.
LEMMA CountUp ==
    ASSUME NEW n \in Nat, NEW T, 0 \in T, \A i \in 1 .. n : i - 1 \in T => i \in T
    PROVE  \A i \in 0 .. n : i \in T
<1> DEFINE R == OpToRel(<, Nat)
           Left == {i \in 0 .. n : i \notin T}
<1>1. IsWellFoundedOn(R, Nat)
  BY NatLessThanWellFounded
<1>2. SUFFICES ASSUME Left # {} PROVE FALSE
  OBVIOUS
<1>3. Left \subseteq Nat
  OBVIOUS
<1> HIDE DEF R, Left
<1>4. PICK x \in Left : \A y \in Left : ~ (<<y, x>> \in R)
  BY <1>1, <1>2, <1>3, WFMin
<1>5. \A y \in Left : ~(y < x)
  BY <1>3, <1>4 DEF OpToRel, R
<1>6. x \in 1 .. n /\ x - 1 \in T
  BY <1>5 DEF Left
<1>7. QED
  BY <1>6 DEF Left

-----------------------------------------------------------------------------
(* The loops over lines and files *)

\* A turn of the parser's loop, by its parts.
LEMMA ParseLineGives ==
    ASSUME NEW s, NEW line, NEW opts
    PROVE  /\ ParseLine(s, line, opts).map = LineMap(s.map, s.cursor, line, opts)
           /\ ParseLine(s, line, opts).cursor = LineCursor(s.map, s.cursor, line, opts)
BY DEF ParseLine

\* The parser goes on line by line: the recursive function is one that exists.
LEMMA ParsesStep ==
    ASSUME NEW start, NEW file, NEW opts, Len(file) \in Nat
    PROVE  /\ Parses(start, file, opts)[0] = start
           /\ \A i \in 1 .. Len(file) : Parses(start, file, opts)[i] =
                  ParseLine(Parses(start, file, opts)[i - 1], file[i], opts)
<1> DEFINE Turn(g, i) == IF i = 0 THEN start ELSE ParseLine(g[i - 1], file[i], opts)
           IsRun(g, n) == g = [i \in 0 .. n |-> Turn(g, i)]
           T == {n \in 0 .. Len(file) : \E g : IsRun(g, n)}
           p == Parses(start, file, opts)
<1>1. 0 \in T
  <2> DEFINE g == [i \in 0 .. 0 |-> start]
  <2>1. IsRun(g, 0)
    OBVIOUS
  <2>2. \E q : IsRun(q, 0)
    <3> HIDE DEF IsRun
    <3> QED
      BY <2>1, Zenon
  <2>3. QED
    BY <2>2
<1>2. ASSUME NEW n \in 1 .. Len(file), n - 1 \in T
      PROVE  n \in T
  <2>1. PICK g : IsRun(g, n - 1)
    BY <1>2
  <2> DEFINE h == [i \in 0 .. n |-> IF i = n THEN ParseLine(g[n - 1], file[n], opts) ELSE g[i]]
  <2>2. h = [i \in 0 .. n |-> Turn(h, i)]
    <3> SUFFICES ASSUME NEW i \in 0 .. n PROVE h[i] = Turn(h, i)
      OBVIOUS
    <3>1. CASE i = n
      <4>1. h[n] = ParseLine(g[n - 1], file[n], opts) /\ h[n - 1] = g[n - 1]
        OBVIOUS
      <4>2. QED
        BY <3>1, <4>1
    <3>2. CASE i # n
      <4>1. h[i] = g[i] /\ g[i] = Turn(g, i)
        BY <2>1, <3>2
      <4>2. i # 0 => h[i - 1] = g[i - 1]
        BY <3>2
      <4>3. QED
        BY <4>1, <4>2
    <3>3. QED
      BY <3>1, <3>2
  <2>3. \E q : IsRun(q, n)
    <3>1. IsRun(h, n)
      BY <2>2
    <3> HIDE DEF IsRun, h
    <3>2. QED
      BY <3>1, Zenon
  <2>4. QED
    BY <2>3
<1>3. Len(file) \in T
  <2> HIDE DEF T
  <2>1. \A i \in 0 .. Len(file) : i \in T
    BY <1>1, <1>2, CountUp
  <2>2. QED
    BY <2>1
<1>4. IsRun(p, Len(file))
  <2>1. PICK g : IsRun(g, Len(file))
    BY <1>3
  <2>2. p = CHOOSE q : IsRun(q, Len(file))
    BY DEF Parses
  <2> HIDE DEF IsRun, p
  <2>3. QED
    BY <2>1, <2>2, Zenon
<1> HIDE DEF p
<1>5. p[0] = start
  BY <1>4
<1>6. ASSUME NEW i \in 1 .. Len(file)
      PROVE  p[i] = ParseLine(p[i - 1], file[i], opts)
  BY <1>4
<1>7. QED
  BY <1>5, <1>6 DEF p

\* upTo are the first sequences of seqs, put together one after the other.
Flattens(upTo, S, n, seqs) ==
    /\ upTo[0] = <<>> /\ upTo[n] = FlattenSeq(seqs)
    /\ \A i \in 1 .. n : upTo[i] \in Seq(S) /\ upTo[i] = upTo[i - 1] \o seqs[i]

\* FlattenSeq() goes from one sequence to the next.
LEMMA FlattenSteps ==
    ASSUME NEW S, NEW n \in Nat, NEW seqs \in [1 .. n -> Seq(S)]
    PROVE  \E upTo : Flattens(upTo, S, n, seqs)
<1> DEFINE Turn(g, i) == IF i = 1 THEN seqs[i] ELSE g[i - 1] \o seqs[i]
           IsRun(g, k) == g = [i \in 1 .. k |-> Turn(g, i)]
           T == {k \in 0 .. n : \E g : IsRun(g, k)}
           p == CHOOSE g : IsRun(g, n)
           Typed == {k \in 0 .. n : k # 0 => p[k] \in Seq(S)}
<1>1. Len(seqs) = n
  BY LenProperties, IsASeq
<1>2. 0 \in T
  <2> DEFINE g == [i \in 1 .. 0 |-> 0]
  <2>1. IsRun(g, 0)
    OBVIOUS
  <2>2. \E q : IsRun(q, 0)
    <3> HIDE DEF IsRun, g
    <3> QED
      BY <2>1, Zenon
  <2> HIDE DEF IsRun
  <2>3. QED
    BY <2>2
<1>3. ASSUME NEW k \in 1 .. n, k - 1 \in T
      PROVE  k \in T
  <2>1. PICK g : IsRun(g, k - 1)
    BY <1>3
  <2> DEFINE h == [i \in 1 .. k |-> IF i = k THEN Turn(g, k) ELSE g[i]]
  <2>2. h = [i \in 1 .. k |-> Turn(h, i)]
    <3> SUFFICES ASSUME NEW i \in 1 .. k PROVE h[i] = Turn(h, i)
      OBVIOUS
    <3>1. CASE i = k
      <4>1. h[k] = Turn(g, k) /\ (k # 1 => h[k - 1] = g[k - 1])
        OBVIOUS
      <4>2. QED
        BY <3>1, <4>1
    <3>2. CASE i # k
      <4>1. i \in 1 .. k - 1 /\ h[i] = g[i]
        BY <3>2
      <4>2. g[i] = Turn(g, i)
        <5>1. g = [j \in 1 .. k - 1 |-> Turn(g, j)]
          BY <2>1
        <5>2. \A j \in 1 .. k - 1 : g[j] = Turn(g, j)
          BY <5>1
        <5>3. QED
          BY <4>1, <5>2
      <4>3. i # 1 => h[i - 1] = g[i - 1]
        BY <3>2
      <4>4. QED
        BY <4>1, <4>2, <4>3
    <3>3. QED
      BY <3>1, <3>2
  <2>3. \E q : IsRun(q, k)
    <3>1. IsRun(h, k)
      BY <2>2
    <3> HIDE DEF IsRun, h
    <3>2. QED
      BY <3>1, Zenon
  <2> HIDE DEF IsRun
  <2>4. QED
    BY <2>3
<1>4. IsRun(p, n)
  <2>1. n \in T
    <3> HIDE DEF T
    <3>1. \A k \in 0 .. n : k \in T
      BY <1>2, <1>3, CountUp
    <3>2. QED
      BY <3>1
  <2>2. PICK g : IsRun(g, n)
    BY <2>1
  <2> HIDE DEF IsRun
  <2>3. QED
    BY <2>2, Zenon
<1> HIDE DEF p
<1>5. \A k \in 0 .. n : k \in Typed
  <2>1. 0 \in Typed
    OBVIOUS
  <2>2. ASSUME NEW k \in 1 .. n, k - 1 \in Typed
        PROVE  k \in Typed
    <3>1. p[k] = Turn(p, k) /\ seqs[k] \in Seq(S)
      BY <1>4
    <3>2. CASE k = 1
      BY <3>1, <3>2
    <3>3. CASE k # 1
      <4>1. p[k - 1] \in Seq(S) /\ p[k] = p[k - 1] \o seqs[k]
        BY <2>2, <3>1, <3>3
      <4>2. p[k - 1] \o seqs[k] \in Seq(S)
        BY <3>1, <4>1, ConcatProperties
      <4>3. p[k] \in Seq(S)
        BY <4>1, <4>2, Zenon
      <4>4. QED
        BY <4>3
    <3>4. QED
      BY <3>2, <3>3
  <2> HIDE DEF Typed
  <2>3. QED
    BY <2>1, <2>2, CountUp
<1> DEFINE upTo == [i \in 0 .. n |-> IF i = 0 THEN <<>> ELSE p[i]]
<1>6. upTo[0] = <<>> /\ \A i \in 1 .. n : upTo[i] = p[i]
  OBVIOUS
<1>7. upTo[n] = FlattenSeq(seqs)
  <2>1. CASE n = 0
    <3>1. seqs = <<>>
      BY <2>1
    <3>2. QED
      BY <1>1, <1>6, <2>1, <3>1 DEF FlattenSeq
  <2>2. CASE n # 0
    <3>1. FlattenSeq(seqs) = p[n]
      BY <1>1, <2>2 DEF FlattenSeq, p
    <3>2. QED
      BY <1>6, <2>2, <3>1
  <2>3. QED
    BY <2>1, <2>2
<1>8. ASSUME NEW i \in 1 .. n
      PROVE  upTo[i] \in Seq(S) /\ upTo[i] = upTo[i - 1] \o seqs[i]
  <2>1. p[i] \in Seq(S) /\ seqs[i] \in Seq(S)
    BY <1>5
  <2>2. p[i] = IF i = 1 THEN seqs[i] ELSE p[i - 1] \o seqs[i]
    BY <1>4
  <2>3. CASE i = 1
    <3>1. <<>> \o seqs[i] = seqs[i]
      BY <2>1, EmptySeq, ConcatEmptySeq
    <3>2. upTo[i] = seqs[i] /\ upTo[i - 1] = <<>>
      BY <1>6, <2>2, <2>3
    <3> HIDE DEF upTo, p
    <3>3. upTo[i - 1] \o seqs[i] = <<>> \o seqs[i]
      BY <3>2
    <3>4. QED
      BY <2>1, <3>1, <3>2, <3>3
  <2>4. CASE i # 1
    <3>1. i - 1 \in 1 .. n
      BY <2>4
    <3>2. upTo[i] = p[i] /\ upTo[i - 1] = p[i - 1]
      BY <1>6, <3>1
    <3>3. p[i] = p[i - 1] \o seqs[i]
      BY <2>2, <2>4
    <3> HIDE DEF upTo
    <3>4. QED
      BY <2>1, <3>2, <3>3
  <2>5. QED
    BY <2>3, <2>4
<1> HIDE DEF upTo
<1>9. Flattens(upTo, S, n, seqs)
  BY <1>6, <1>7, <1>8 DEF Flattens
<1>10. QED
  BY <1>9, Zenon

\* A sequence of sequences of one kind, put together, is a sequence of that kind.
LEMMA FlattenIsSeq ==
    ASSUME NEW S, NEW n \in Nat, NEW seqs \in [1 .. n -> Seq(S)]
    PROVE  FlattenSeq(seqs) \in Seq(S)
<1>1. PICK upTo : Flattens(upTo, S, n, seqs)
  BY FlattenSteps
<1>2. CASE n = 0
  <2>1. <<>> \in Seq(S)
    OBVIOUS
  <2>2. QED
    BY <1>1, <1>2, <2>1 DEF Flattens
<1>3. CASE n # 0
  <2>1. n \in 1 .. n
    BY <1>3
  <2>2. QED
    BY <1>1, <2>1 DEF Flattens
<1>4. QED
  BY <1>2, <1>3

-----------------------------------------------------------------------------
(* Which entries are dirty                                                 *)
(*                                                                         *)
(* Of the lines of a file it matters here that their values are some.      *)

IsLine(line) == line.kind = "entry" => line.value \in Values \cup {NoValue}

IsFile(file) == Len(file) \in Nat /\ \A i \in 1 .. Len(file) : IsLine(file[i])

IsKEntry(e) == e \in Entry

\* A map of entries, of which those in keys may be dirty.
OnlyDirty(m, keys) ==
    /\ m = [k \in EntryKey |-> m[k]]
    /\ \A k \in EntryKey : Has(m, k) => IsKEntry(m[k]) /\ (m[k].dirty => k \in keys)

\* A fresh entry is a clean one.
LEMMA FreshIsKEntry == IsKEntry(FreshEntry) /\ ~FreshEntry.dirty
BY DEF IsKEntry, Entry, FreshEntry

\* The files of a setup are files.
LEMMA LinesAreFile == ASSUME NEW file \in Seq(Line) PROVE IsFile(file)
<1>1. \A line \in Line : IsLine(line)
  BY DEF Line, GroupLine, EntryText, IsLine
<1>2. QED
  BY <1>1 DEF IsFile

\* What is stored is dirty when it was, or when that is asked for.
LEMMA StoredIsKEntry ==
    ASSUME NEW old, NEW k, NEW v \in Values \cup {NoValue}, NEW o, IsKEntry(old)
    PROVE  /\ IsKEntry(StoredOver(old, k, v, o))
           /\ StoredOver(old, k, v, o).dirty => old.dirty \/ "Dirty" \in o
BY DEF IsKEntry, Entry, StoredOver

\* insert_or_assign() puts e in its slot, perhaps with a marker, or does nothing.
LEMMA AssignAsGives ==
    ASSUME NEW m, NEW k, NEW e, NEW out
    PROVE  AssignAs(m, k, e, out) \in
               {m, [m EXCEPT ![k] = e], [EnsureMarker(m, k.group) EXCEPT ![k] = e]}
<1>1. CASE out \in {"inserted", "insertedDeleted"}
  BY <1>1, Zenon DEF AssignAs
<1>2. CASE out = "changed"
  BY <1>2 DEF AssignAs
<1>3. CASE out \notin {"inserted", "insertedDeleted", "changed"}
  BY <1>3 DEF AssignAs
<1>4. QED
  BY <1>1, <1>2, <1>3

\* insert_or_assign() makes its own slot dirty, or none.
LEMMA AssignDirty ==
    ASSUME NEW keys, NEW m, OnlyDirty(m, keys), NEW k, NEW v \in Values \cup {NoValue}, NEW o,
           "Dirty" \in o => k \in keys
    PROVE  OnlyDirty(Assign(m, k, v, o), keys)
<1> DEFINE e == Stored(m, k, v, o)
<1>1. k \in EntryKey => IsKEntry(e) /\ (e.dirty => k \in keys)
  <2> SUFFICES ASSUME k \in EntryKey PROVE IsKEntry(e) /\ (e.dirty => k \in keys)
    OBVIOUS
  <2>1. IsKEntry(Found(m, k)) /\ (Found(m, k).dirty => k \in keys)
    BY FreshIsKEntry DEF Found, OnlyDirty
  <2>2. QED
    BY <2>1, StoredIsKEntry DEF Stored
<1> HIDE DEF e
<1>2. OnlyDirty([m EXCEPT ![k] = e], keys)
  BY <1>1 DEF OnlyDirty, Has
<1>3. OnlyDirty(EnsureMarker(m, k.group), keys)
  BY FreshIsKEntry DEF OnlyDirty, Has, EnsureMarker
<1>4. OnlyDirty([EnsureMarker(m, k.group) EXCEPT ![k] = e], keys)
  BY <1>1, <1>3 DEF OnlyDirty, Has
<1>5. QED
  BY <1>2, <1>4, AssignAsGives DEF Assign, e

\* Removing a localized entry makes none dirty.
LEMMA DropDirty ==
    ASSUME NEW keys, NEW m, OnlyDirty(m, keys), NEW k, NEW out
    PROVE  OnlyDirty(DropLocalized(m, k, out), keys)
BY DEF OnlyDirty, Has, DropLocalized

\* The four slots of a key.
SlotsFor(g, n) == {Slot(g, n, l, d) : l \in BOOLEAN, d \in BOOLEAN}

\* setEntry() makes no entry of another key dirty, and none without EntryDirty.
LEMMA SetEntryDirty ==
    ASSUME NEW keys, NEW m, OnlyDirty(m, keys), NEW g, NEW n, NEW v \in Values \cup {NoValue},
           NEW o,
           "Dirty" \in o => SlotsFor(g, n) \subseteq keys
    PROVE  OnlyDirty(SetEntry(m, g, n, v, o), keys)
<1> DEFINE l == "Localized" \in o
           k == Slot(g, n, l, "Default" \in o)
           out == Outcome(m, k, v, o)
           own == Assign(m, k, v, o)
           p == Slot(g, n, k.local, FALSE)
           q == o \ {"Default"}
<1>1. "Dirty" \in o => k \in keys /\ p \in keys
  <2>1. \A a, b \in BOOLEAN : Slot(g, n, a, b) \in SlotsFor(g, n)
    BY DEF SlotsFor
  <2>2. k.local = l
    BY DEF Slot
  <2>3. l \in BOOLEAN /\ ("Default" \in o) \in BOOLEAN
    OBVIOUS
  <2>4. k \in SlotsFor(g, n) /\ p \in SlotsFor(g, n)
    BY <2>1, <2>2, <2>3
  <2>5. QED
    BY <2>4
<1>2. OnlyDirty(own, keys)
  BY <1>1, AssignDirty
<1>3. OnlyDirty(SetPlain(own, p, v, q), keys)
  <2>1. OnlyDirty(Assign(own, p, v, q), keys)
    <3>1. "Dirty" \in q => p \in keys
      BY <1>1
    <3> HIDE DEF own, p, q
    <3>2. QED
      BY <1>2, <3>1, AssignDirty
  <2> HIDE DEF own, p, q
  <2>2. QED
    BY <2>1, DropDirty DEF SetPlain
<1>4. SetEntry(m, g, n, v, o) \in {DropLocalized(SetPlain(own, p, v, q), k, out),
                                   DropLocalized(own, k, out)}
  BY DEF SetEntry
<1> HIDE DEF own, p, q, k, out
<1>5. QED
  BY <1>2, <1>3, <1>4, DropDirty

\* No line of a file makes an entry dirty, whatever the line is.
LEMMA LineDirty ==
    ASSUME NEW keys, NEW m, OnlyDirty(m, keys), NEW c, NEW line, IsLine(line), NEW opts
    PROVE  OnlyDirty(LineMap(m, c, line, opts), keys)
<1> DEFINE o == LineOptions(c, line, opts)
<1>1. "Dirty" \notin o
  BY DEF LineOptions, When
<1>2. OnlyDirty(ParseDeletion(m, c, line, opts), keys)
  <2>1. "Dirty" \notin o \cup {"Deleted"}
    BY <1>1
  <2> HIDE DEF o
  <2>2. QED
    BY <2>1, SetEntryDirty DEF ParseDeletion, o
<1>3. line.kind = "entry" => OnlyDirty(ParseValue(m, c, line, opts), keys)
  <2> SUFFICES ASSUME line.kind = "entry" PROVE OnlyDirty(ParseValue(m, c, line, opts), keys)
    OBVIOUS
  <2>0. line.value \in Values \cup {NoValue}
    BY DEF IsLine
  <2> DEFINE q == o \cup When(opts.global, "Global") \cup When(line.locale # "none", "Localized")
                  \cup When(line.locale = "country", "LocalizedCountry")
  <2>1. "Dirty" \notin q
    BY <1>1 DEF When
  <2> HIDE DEF q
  <2>2. QED
    BY <2>0, <2>1, SetEntryDirty DEF ParseValue, o, q
<1>4. QED
  BY <1>2, <1>3 DEF LineMap

\* Nor does a whole file, or a loop over files.
LEMMA ParseDirty ==
    ASSUME NEW keys, NEW m, OnlyDirty(m, keys), NEW file, IsFile(file), NEW opts
    PROVE  OnlyDirty(ParseConfig(m, file, opts).map, keys)
<1> DEFINE p == Parses(AtStart(m), file, opts)
           T == {i \in 0 .. Len(file) : OnlyDirty(p[i].map, keys)}
<1>0. /\ p[0] = [map |-> m, cursor |-> StartOfFile]
      /\ \A i \in 1 .. Len(file) : p[i] = ParseLine(p[i - 1], file[i], opts)
  BY ParsesStep DEF AtStart, IsFile
<1> HIDE DEF p
<1>1. 0 \in T
  BY <1>0 DEF IsFile
<1>2. ASSUME NEW i \in 1 .. Len(file), i - 1 \in T
      PROVE  i \in T
  <2>1. p[i].map = LineMap(p[i - 1].map, p[i - 1].cursor, file[i], opts)
    <3>1. p[i] = ParseLine(p[i - 1], file[i], opts)
      BY <1>0
    <3>2. QED
      BY <3>1, ParseLineGives
  <2>2. QED
    BY <1>2, <2>1, LineDirty DEF IsFile
<1>3. OnlyDirty(p[Len(file)].map, keys)
  <2> HIDE DEF T
  <2>1. \A i \in 0 .. Len(file) : i \in T
    BY <1>1, <1>2, CountUp DEF IsFile
  <2> USE DEF T
  <2>2. QED
    BY <2>1 DEF IsFile
<1>4. ASSUME NEW n, OnlyDirty(n, keys), NEW c
      PROVE  OnlyDirty(LockGroups(n, c), keys)
  <2>1. IsKEntry(LockedMarker) /\ ~LockedMarker.dirty
    BY SentinelAssumption DEF LockedMarker, FreshEntry, IsKEntry, Entry
  <2>2. QED
    BY <1>4, <2>1 DEF LockGroups, OnlyDirty, Has
<1>5. QED
  BY <1>3, <1>4 DEF ParseConfig, AtEnd, p

\* The map of an object that was just made.
LEMMA EmptyDirty == ASSUME NEW keys PROVE OnlyDirty(EmptyMap, keys)
BY DEF OnlyDirty, EmptyMap, Has

-----------------------------------------------------------------------------
(* What sync() writes *)

\* The lines a map can be written as.
WrittenLines(m) ==
    {EntryLine(m, k) : k \in {j \in EntryKey : j.name # Marker /\ Has(m, j)}}
    \cup {[kind |-> "group", group |-> GroupOrder[i], immutable |-> HeaderLock(m, i)] :
              i \in DOMAIN GroupOrder}

\* The order of the map lists names, and groups.
LEMMA Orders ==
    /\ Len(NameOrder) \in Nat /\ DOMAIN NameOrder = 1 .. Len(NameOrder)
    /\ \A i \in 1 .. Len(NameOrder) : NameOrder[i] \in Names
    /\ Len(GroupOrder) \in Nat /\ DOMAIN GroupOrder = 1 .. Len(GroupOrder)
    /\ \A i \in 1 .. Len(GroupOrder) : GroupOrder[i] \in Groups \ {DefaultGroup}
<1>1. NameOrder \in Seq(Names) /\ GroupOrder \in Seq(Groups \ {DefaultGroup})
  BY IniAssumption DEF Lists
<1>2. QED
  BY <1>1

\* What is written for a slot, a key, a group.
LEMMA LineOfSeq ==
    ASSUME NEW m, NEW k \in EntryKey, k.name # Marker
    PROVE  LineOf(m, k) \in Seq(WrittenLines(m))
<1> DEFINE S == WrittenLines(m)
<1>1. Has(m, k) => EntryLine(m, k) \in S
  BY DEF WrittenLines
<1> HIDE DEF S
<1>2. Has(m, k) => <<EntryLine(m, k)>> \in Seq(S)
  BY <1>1
<1>3. <<>> \in Seq(S)
  OBVIOUS
<1>4. QED
  BY <1>2, <1>3 DEF LineOf, S

\* The lines of a key are lines of its entries.
LEMMA KeyLinesSeq ==
    ASSUME NEW m, NEW g \in Groups, NEW n \in Names
    PROVE  KeyLines(m, g, n) \in Seq(WrittenLines(m))
<1> DEFINE S == WrittenLines(m)
<1>1. \A l, d \in BOOLEAN : Slot(g, n, l, d) \in EntryKey /\ Slot(g, n, l, d).name # Marker
  BY SentinelAssumption DEF Slot, EntryKey
<1>2. \A l, d \in BOOLEAN : LineOf(m, Slot(g, n, l, d)) \in Seq(S)
  BY <1>1, LineOfSeq
<1> HIDE DEF S
<1>3. ASSUME NEW a \in Seq(S), NEW b \in Seq(S), NEW c \in Seq(S), NEW d \in Seq(S)
      PROVE  a \o b \o c \o d \in Seq(S)
  BY ConcatProperties
<1>4. QED
  BY <1>2, <1>3 DEF KeyLines, S

\* The lines of a group are lines of its entries.
LEMMA EntryLinesSeq ==
    ASSUME NEW m, NEW g \in Groups
    PROVE  EntryLines(m, g) \in Seq(WrittenLines(m))
<1> DEFINE S == WrittenLines(m)
           lines == [i \in DOMAIN NameOrder |-> KeyLines(m, g, NameOrder[i])]
<1>1. lines \in [1 .. Len(NameOrder) -> Seq(S)]
  BY Orders, KeyLinesSeq
<1> HIDE DEF lines, S
<1>2. FlattenSeq(lines) \in Seq(S)
  BY <1>1, Orders, FlattenIsSeq
<1>3. QED
  BY <1>2 DEF EntryLines, lines, S

\* So they are with the group's header.
LEMMA GroupLinesSeq ==
    ASSUME NEW m, NEW i \in 1 .. Len(GroupOrder)
    PROVE  GroupLines(m, i) \in Seq(WrittenLines(m))
<1> DEFINE S == WrittenLines(m)
           head == [kind |-> "group", group |-> GroupOrder[i], immutable |-> HeaderLock(m, i)]
           body == EntryLines(m, GroupOrder[i])
<1>1. body \in Seq(S)
  BY Orders, EntryLinesSeq
<1>2. head \in S
  BY Orders DEF WrittenLines
<1> HIDE DEF S, head, body
<1>3. <<head>> \in Seq(S)
  BY <1>2
<1>4. <<head>> \o body \in Seq(S)
  BY <1>1, <1>3, ConcatProperties
<1>5. GroupLines(m, i) \in {body, <<head>> \o body}
  BY DEF GroupLines, head, body
<1>6. GroupLines(m, i) \in Seq(S)
  BY <1>1, <1>4, <1>5, Zenon
<1>7. QED
  BY <1>6 DEF S

\* The file that is written has such lines.
LEMMA WriteEntriesSeq ==
    ASSUME NEW m
    PROVE  WriteEntries(m) \in Seq(WrittenLines(m))
<1> DEFINE S == WrittenLines(m)
           groups == [i \in DOMAIN GroupOrder |-> GroupLines(m, i)]
<1>1. groups \in [1 .. Len(GroupOrder) -> Seq(S)]
  BY Orders, GroupLinesSeq
<1>2. EntryLines(m, DefaultGroup) \in Seq(S)
  BY EntryLinesSeq, IniAssumption
<1> HIDE DEF S, groups
<1>3. FlattenSeq(groups) \in Seq(S)
  BY <1>1, Orders, FlattenIsSeq
<1>4. EntryLines(m, DefaultGroup) \o FlattenSeq(groups) \in Seq(S)
  BY <1>2, <1>3, ConcatProperties
<1>5. WriteEntries(m) = EntryLines(m, DefaultGroup) \o FlattenSeq(groups)
  BY DEF WriteEntries, groups
<1>6. QED
  BY <1>4, <1>5, Zenon DEF S

\* What is written is a file.
LEMMA WrittenIsFile ==
    ASSUME NEW m, OnlyDirty(m, EntryKey)
    PROVE  IsFile(WriteEntries(m))
<1>1. \A line \in WrittenLines(m) : IsLine(line)
  <2>1. ASSUME NEW k \in EntryKey, Has(m, k)
        PROVE  IsLine(EntryLine(m, k))
    <3>1. m[k].value \in Values \cup {NoValue}
      BY <2>1 DEF OnlyDirty, IsKEntry, Entry
    <3>2. EntryLine(m, k).value \in {NoValue, m[k].value}
      BY DEF EntryLine
    <3>3. QED
      BY <3>1, <3>2 DEF IsLine
  <2>2. QED
    BY <2>1 DEF IsLine, WrittenLines
<1>2. QED
  BY <1>1, WriteEntriesSeq DEF IsFile

\* What is in the loop of writeConfig() is not dirty behind it, and nothing else changes.
LEMMA AfterWriteDirty ==
    ASSUME NEW em, OnlyDirty(em, EntryKey), NEW g \in BOOLEAN
    PROVE  /\ OnlyDirty(AfterWrite(em, g), EntryKey)
           /\ \A k \in EntryKey : Has(AfterWrite(em, g), k) /\ AfterWrite(em, g)[k].dirty =>
                  AfterWrite(em, g)[k] = em[k] /\ em[k].global # g
<1> DEFINE m == AfterWrite(em, g)
<1>1. DOMAIN em = EntryKey
  BY DEF OnlyDirty
<1>2. m = [k \in EntryKey |-> IF ToWrite(em, k, g)
                              THEN [Written(em[k]) EXCEPT !.dirty = FALSE] ELSE em[k]]
  BY <1>1 DEF AfterWrite
<1> HIDE DEF m
<1>3. ASSUME NEW k \in EntryKey, ToWrite(em, k, g)
      PROVE  IsKEntry(m[k]) /\ ~m[k].dirty
  <2>1. IsKEntry(em[k])
    BY <1>3 DEF ToWrite, OnlyDirty
  <2>2. IsKEntry(Written(em[k]))
    BY <2>1 DEF Written, IsKEntry, Entry
  <2> DEFINE e == Written(em[k])
  <2>3. m[k] = [e EXCEPT !.dirty = FALSE]
    BY <1>2, <1>3
  <2> HIDE DEF e
  <2>4. QED
    BY <2>2, <2>3 DEF IsKEntry, Entry, e
<1>4. ASSUME NEW k \in EntryKey, ~ToWrite(em, k, g)
      PROVE  m[k] = em[k]
  BY <1>2, <1>4
<1>5. OnlyDirty(m, EntryKey)
  BY <1>2, <1>3, <1>4 DEF OnlyDirty, Has
<1>6. ASSUME NEW k \in EntryKey, Has(m, k), m[k].dirty
      PROVE  m[k] = em[k] /\ em[k].global # g
  BY <1>3, <1>4, <1>6 DEF ToWrite, Has
<1>7. QED
  BY <1>5, <1>6 DEF m

\* What the file is merged with is a map of entries.
LEMMA MergeDirty ==
    ASSUME NEW em, OnlyDirty(em, EntryKey), NEW disk, OnlyDirty(disk, EntryKey), NEW g
    PROVE  OnlyDirty(Merge(em, disk, g), EntryKey)
<1> DEFINE m == Merge(em, disk, g)
<1>1. m = [k \in EntryKey |-> IF ~ToWrite(em, k, g) THEN disk[k]
                              ELSE IF Erases(em, k) THEN NoEntry ELSE Written(em[k])]
  BY DEF Merge, OnlyDirty
<1> HIDE DEF m
<1>2. ASSUME NEW k \in EntryKey, ToWrite(em, k, g)
      PROVE  IsKEntry(Written(em[k]))
  <2>1. IsKEntry(em[k])
    BY <1>2 DEF ToWrite, OnlyDirty
  <2>2. QED
    BY <2>1 DEF Written, IsKEntry, Entry
<1>3. QED
  BY <1>1, <1>2 DEF OnlyDirty, Has, m

Merging(g) == [default |-> FALSE, global |-> g, merging |-> TRUE]

\* setEntry() touches no slot of another key but a group's marker.
LEMMA SetEntryApart ==
    ASSUME NEW m, OnlyDirty(m, EntryKey), NEW g \in Groups, NEW n \in Names, NEW v, NEW o,
           "Default" \notin o,
           NEW k \in EntryKey, k.name # Marker, ~(k.group = g /\ k.name = n)
    PROVE  SetEntry(m, g, n, v, o)[k] = m[k]
<1> DEFINE j == Slot(g, n, "Localized" \in o, "Default" \in o)
           e == Stored(m, j, v, o)
           out == Outcome(m, j, v, o)
           own == Assign(m, j, v, o)
<1>1. ~j.default /\ j.group = g /\ j.name = n
  BY DEF Slot
<1>2. SetEntry(m, g, n, v, o) = DropLocalized(own, j, out)
  BY <1>1 DEF SetEntry
<1>3. EnsureMarker(m, g)[k] = m[k] /\ DOMAIN EnsureMarker(m, g) = EntryKey
  BY DEF EnsureMarker, OnlyDirty, MarkerOf, Slot
<1>4. own \in {m, [m EXCEPT ![j] = e], [EnsureMarker(m, g) EXCEPT ![j] = e]}
  BY <1>1, AssignAsGives DEF Assign
<1>5. k # j /\ DOMAIN m = EntryKey
  BY <1>1 DEF OnlyDirty
<1> HIDE DEF own, e, j, out
<1>6. own[k] = m[k] /\ DOMAIN own = EntryKey
  BY <1>3, <1>4, <1>5
<1>7. /\ k # Slot(j.group, j.name, TRUE, FALSE) /\ k # Slot(j.group, j.name, TRUE, TRUE)
  BY <1>1 DEF Slot
<1>8. DropLocalized(own, j, out)[k] = own[k]
  BY <1>6, <1>7 DEF DropLocalized
<1>9. QED
  BY <1>2, <1>6, <1>8

-----------------------------------------------------------------------------
(* Locked groups, and what setEntry() keeps apart *)

\* No group is locked, as in the map of a file of its own before its end.
NoneLocked(m) ==
    /\ m = [k \in EntryKey |-> m[k]]
    /\ \A g \in Groups : ~GroupIsImmutable(m, g)

\* A write that is not for a marker locks no group.
LEMMA AssignNoneLocked ==
    ASSUME NEW m, NoneLocked(m), NEW k, k.name # Marker, NEW v, NEW o
    PROVE  NoneLocked(Assign(m, k, v, o))
<1> DEFINE e == Stored(m, k, v, o)
<1>1. \A g : MarkerOf(g) # k
  BY DEF MarkerOf, Slot
<1> HIDE DEF e
<1>2. ASSUME NEW n, NoneLocked(n)
      PROVE  NoneLocked([n EXCEPT ![k] = e])
  BY <1>1, <1>2 DEF NoneLocked, GroupIsImmutable, IsImmutable, Has
<1>3. NoneLocked(EnsureMarker(m, k.group))
  <2>1. FreshEntry.immutable = FALSE
    BY DEF FreshEntry
  <2>2. NoneLocked([m EXCEPT ![MarkerOf(k.group)] = FreshEntry])
    BY <2>1 DEF NoneLocked, GroupIsImmutable, IsImmutable, Has
  <2>3. QED
    BY <2>2 DEF EnsureMarker
<1>4. QED
  BY <1>2, <1>3, AssignAsGives DEF Assign, e

\* Nor does removing a localized entry.
LEMMA DropNoneLocked ==
    ASSUME NEW m, NoneLocked(m), NEW k, NEW out
    PROVE  NoneLocked(DropLocalized(m, k, out))
<1>1. \A g, a, b, c : MarkerOf(g) # Slot(a, b, TRUE, c)
  BY DEF MarkerOf, Slot
<1> DEFINE n == DropLocalized(m, k, out)
<1>2. n = [j \in EntryKey |-> n[j]]
  BY DEF NoneLocked, DropLocalized
<1>3. ASSUME NEW g \in Groups
      PROVE  n[MarkerOf(g)] = m[MarkerOf(g)]
  <2> DEFINE j == MarkerOf(g)
             a == Slot(k.group, k.name, TRUE, FALSE)
             b == Slot(k.group, k.name, TRUE, TRUE)
  <2>1. j # a /\ j # b
    BY <1>1
  <2>2. j \in EntryKey
    BY DEF MarkerOf, Slot, EntryKey
  <2>3. n = m \/ \E x : n = [m EXCEPT ![a] = NoEntry, ![b] = x]
    BY Zenon DEF DropLocalized
  <2> HIDE DEF j, a, b, n
  <2>4. n[j] = m[j]
    BY <2>1, <2>2, <2>3 DEF NoneLocked
  <2>5. QED
    BY <2>4 DEF j
<1> HIDE DEF n
<1>4. QED
  BY <1>2, <1>3 DEF NoneLocked, GroupIsImmutable, IsImmutable, Has, n

\* Nor does setEntry().
LEMMA SetEntryNoneLocked ==
    ASSUME NEW m, NoneLocked(m), NEW g, NEW n, n # Marker, NEW v, NEW o
    PROVE  NoneLocked(SetEntry(m, g, n, v, o))
<1> DEFINE k == Slot(g, n, "Localized" \in o, "Default" \in o)
           out == Outcome(m, k, v, o)
           own == Assign(m, k, v, o)
           p == Slot(g, n, k.local, FALSE)
           q == o \ {"Default"}
<1>1. k.name # Marker /\ p.name # Marker
  BY DEF Slot
<1>2. NoneLocked(own)
  BY <1>1, AssignNoneLocked
<1>3. SetEntry(m, g, n, v, o) \in {DropLocalized(SetPlain(own, p, v, q), k, out),
                                   DropLocalized(own, k, out)}
  BY DEF SetEntry
<1> HIDE DEF k, own, p, q, out
<1>4. NoneLocked(Assign(own, p, v, q))
  BY <1>1, <1>2, AssignNoneLocked
<1>5. NoneLocked(SetPlain(own, p, v, q))
  BY <1>4, DropNoneLocked DEF SetPlain
<1>6. QED
  BY <1>2, <1>3, <1>5, DropNoneLocked

\* No line of a file locks a group before the file's end.
LEMMA LineNoneLocked ==
    ASSUME NEW m, NoneLocked(m), NEW c, NEW line \in Line, NEW opts
    PROVE  NoneLocked(LineMap(m, c, line, opts))
<1> SUFFICES ASSUME line.kind = "entry" PROVE NoneLocked(LineMap(m, c, line, opts))
  BY DEF LineMap
<1>1. line.name \in Names /\ Tagged(line.name, line.locale) \in Names
  BY DEF Line, GroupLine, EntryText
<1>2. line.name # Marker /\ Tagged(line.name, line.locale) # Marker
  BY <1>1, SentinelAssumption
<1>3. NoneLocked(ParseDeletion(m, c, line, opts))
  BY <1>2, SetEntryNoneLocked DEF ParseDeletion
<1>4. NoneLocked(ParseValue(m, c, line, opts))
  <2> DEFINE n == IF IsForeign(line) THEN Tagged(line.name, line.locale) ELSE line.name
  <2>1. n # Marker
    BY <1>2
  <2> HIDE DEF n
  <2>2. QED
    BY <2>1, SetEntryNoneLocked DEF ParseValue, n
<1>5. QED
  BY <1>3, <1>4 DEF LineMap

-----------------------------------------------------------------------------
(* A file that was written is read back                                    *)

\* What there is behind a file.
EndOf(s, file, opts) == Parses(s, file, opts)[Len(file)]

\* A file without lines changes nothing, one of a line is a turn of the loop.
LEMMA EndOfShort ==
    ASSUME NEW s, NEW line, NEW opts
    PROVE  EndOf(s, <<>>, opts) = s /\ EndOf(s, <<line>>, opts) = ParseLine(s, line, opts)
<1> DEFINE nothing == <<>>
           one == <<line>>
<1>1. Len(nothing) = 0 /\ Len(one) = 1 /\ one[1] = line
  OBVIOUS
<1> HIDE DEF nothing, one
<1>2. Parses(s, nothing, opts)[0] = s
  BY <1>1, ParsesStep
<1>3. Parses(s, one, opts)[0] = s
  BY <1>1, ParsesStep
<1>4. Parses(s, one, opts)[1] = ParseLine(Parses(s, one, opts)[0], one[1], opts)
  <2>1. 1 \in 1 .. Len(one) /\ 1 - 1 = 0 /\ Len(one) \in Nat
    BY <1>1
  <2> DEFINE p == Parses(s, one, opts)
  <2>2. \A i \in 1 .. Len(one) : p[i] = ParseLine(p[i - 1], one[i], opts)
    BY <2>1, ParsesStep
  <2> HIDE DEF p
  <2>3. p[1] = ParseLine(p[1 - 1], one[1], opts)
    BY <2>1, <2>2
  <2>4. QED
    BY <2>1, <2>3 DEF p
<1>5. QED
  BY <1>1, <1>2, <1>3, <1>4 DEF EndOf, nothing, one

\* Behind the first of two parts of a file the parser goes on with the second.
LEMMA EndOfConcat ==
    ASSUME NEW s, NEW S, NEW f \in Seq(S), NEW h \in Seq(S), NEW opts
    PROVE  EndOf(s, f \o h, opts) = EndOf(EndOf(s, f, opts), h, opts)
<1> DEFINE a == Len(f)
           b == Len(h)
           fh == f \o h
           p == Parses(s, fh, opts)
           q == Parses(s, f, opts)
           r == Parses(q[a], h, opts)
<1>1. /\ a \in Nat /\ b \in Nat /\ Len(fh) = a + b
      /\ \A i \in 1 .. a : fh[i] = f[i]
      /\ \A i \in 1 .. b : fh[a + i] = h[i]
  OBVIOUS
<1> HIDE DEF fh
<1>2. /\ p[0] = s /\ \A i \in 1 .. a + b : p[i] = ParseLine(p[i - 1], fh[i], opts)
      /\ q[0] = s /\ \A i \in 1 .. a : q[i] = ParseLine(q[i - 1], f[i], opts)
      /\ r[0] = q[a] /\ \A i \in 1 .. b : r[i] = ParseLine(r[i - 1], h[i], opts)
  <2>1. p[0] = s /\ \A i \in 1 .. Len(fh) : p[i] = ParseLine(p[i - 1], fh[i], opts)
    <3>1. Len(fh) \in Nat
      BY <1>1
    <3>2. QED
      BY <3>1, ParsesStep
  <2>2. q[0] = s /\ \A i \in 1 .. Len(f) : q[i] = ParseLine(q[i - 1], f[i], opts)
    BY <1>1, ParsesStep
  <2>3. r[0] = q[a] /\ \A i \in 1 .. Len(h) : r[i] = ParseLine(r[i - 1], h[i], opts)
    <3> HIDE DEF q
    <3>1. QED
      BY <1>1, ParsesStep
  <2> HIDE DEF p, q, r
  <2>4. QED
    BY <1>1, <2>1, <2>2, <2>3
<1> HIDE DEF p, q, r
<1> DEFINE T == {i \in 0 .. a : p[i] = q[i]}
<1>3. p[a] = q[a]
  <2>1. 0 \in T
    BY <1>1, <1>2
  <2>2. ASSUME NEW i \in 1 .. a, i - 1 \in T
        PROVE  i \in T
    <3>1. p[i] = ParseLine(p[i - 1], fh[i], opts) /\ q[i] = ParseLine(q[i - 1], f[i], opts)
      BY <1>1, <1>2
    <3>2. QED
      BY <1>1, <2>2, <3>1
  <2>3. \A i \in 0 .. a : i \in T
    <3> HIDE DEF T, a
    <3>1. QED
      BY <1>1, <2>1, <2>2, CountUp
  <2>4. QED
    BY <1>1, <2>3
<1> DEFINE U == {i \in 0 .. b : p[a + i] = r[i]}
<1>4. p[a + b] = r[b]
  <2>1. 0 \in U
    BY <1>1, <1>2, <1>3
  <2>2. ASSUME NEW i \in 1 .. b, i - 1 \in U
        PROVE  i \in U
    <3>1. a + i \in 1 .. a + b /\ (a + i) - 1 = a + (i - 1)
      BY <1>1
    <3>2. p[a + i] = ParseLine(p[(a + i) - 1], fh[a + i], opts)
      BY <1>2, <3>1
    <3>3. r[i] = ParseLine(r[i - 1], h[i], opts)
      BY <1>2
    <3>4. QED
      BY <1>1, <2>2, <3>1, <3>2, <3>3
  <2>3. \A i \in 0 .. b : i \in U
    <3> HIDE DEF U, b
    <3>1. QED
      BY <1>1, <2>1, <2>2, CountUp
  <2>4. QED
    BY <1>1, <2>3
<1>5. QED
  BY <1>1, <1>4 DEF EndOf, p, q, r, fh

\* What there is behind each of n parts of a file.
Passes(c, s, n, seqs, opts) ==
    /\ c[0] = s /\ c[n] = EndOf(s, FlattenSeq(seqs), opts)
    /\ \A i \in 1 .. n : c[i] = EndOf(c[i - 1], seqs[i], opts)

\* A file of many parts is read part by part.
LEMMA EndOfFlatten ==
    ASSUME NEW s, NEW S, NEW n \in Nat, NEW seqs \in [1 .. n -> Seq(S)], NEW opts
    PROVE  \E c : Passes(c, s, n, seqs, opts)
<1>1. PICK upTo : Flattens(upTo, S, n, seqs)
  BY FlattenSteps
<1> DEFINE c == [i \in 0 .. n |-> EndOf(s, upTo[i], opts)]
<1>2. \A i \in 0 .. n : upTo[i] \in Seq(S)
  <2>1. <<>> \in Seq(S)
    OBVIOUS
  <2>2. upTo[0] \in Seq(S)
    BY <1>1, <2>1 DEF Flattens
  <2>3. \A i \in 1 .. n : upTo[i] \in Seq(S)
    BY <1>1 DEF Flattens
  <2>4. \A i \in 0 .. n : i = 0 \/ i \in 1 .. n
    OBVIOUS
  <2>5. QED
    BY <2>2, <2>3, <2>4
<1>3. c[0] = s /\ c[n] = EndOf(s, FlattenSeq(seqs), opts)
  <2>1. upTo[0] = <<>> /\ upTo[n] = FlattenSeq(seqs)
    BY <1>1 DEF Flattens
  <2>2. c[0] = EndOf(s, upTo[0], opts) /\ c[n] = EndOf(s, upTo[n], opts)
    OBVIOUS
  <2>3. EndOf(s, upTo[0], opts) = EndOf(s, <<>>, opts)
    BY <2>1
  <2> HIDE DEF c
  <2>4. QED
    BY <2>1, <2>2, <2>3, EndOfShort
<1>4. ASSUME NEW i \in 1 .. n
      PROVE  c[i] = EndOf(c[i - 1], seqs[i], opts)
  <2>1. upTo[i - 1] \in Seq(S) /\ seqs[i] \in Seq(S)
    BY <1>2
  <2>2. upTo[i] = upTo[i - 1] \o seqs[i]
    BY <1>1 DEF Flattens
  <2>3. c[i] = EndOf(s, upTo[i], opts) /\ c[i - 1] = EndOf(s, upTo[i - 1], opts)
    OBVIOUS
  <2> HIDE DEF c
  <2>4. EndOf(s, upTo[i - 1] \o seqs[i], opts) = EndOf(EndOf(s, upTo[i - 1], opts), seqs[i], opts)
    BY <2>1, EndOfConcat
  <2>5. QED
    BY <2>2, <2>3, <2>4
<1> HIDE DEF c
<1>5. Passes(c, s, n, seqs, opts)
  BY <1>3, <1>4 DEF Passes
<1>6. QED
  BY <1>5, Zenon

-----------------------------------------------------------------------------
(* The line of an entry *)

\* Names with a tag of another locale.
RawNames == {Tagged(n, loc) : n \in PlainNames, loc \in {l \in Locale \ {"none"} : ~IsOwn(l)}}

\* A map that can be written: its entries are where a parser would put what their lines say.
Writable(m) ==
    /\ OnlyDirty(m, EntryKey)
    /\ \A k \in EntryKey : Has(m, k) /\ k.name # Marker =>
           /\ ~k.default /\ k.group # NoGroup
           /\ k.local => /\ ~m[k].deleted
                         /\ k.name \in RawNames \/ (k.name \in PlainNames /\ OwnTag # "none")
    /\ \A g \in Groups \ {DefaultGroup} : ~GroupIsImmutable(m, g)

\* The letters of a line's options, when there is no "d" among them, all count.
LEMMA SeenAll ==
    ASSUME NEW line, Len(line.options) \in Nat, DOMAIN line.options = 1 .. Len(line.options),
           \A i \in DOMAIN line.options : line.options[i] # "d"
    PROVE  /\ ~IsDeletion(line)
           /\ Seen(line) = {line.options[i] : i \in DOMAIN line.options}
BY DEF IsDeletion, Seen, Contains

\* Behind a "d" none counts.
LEMMA SeenNone ==
    ASSUME NEW line, Len(line.options) \in Nat, DOMAIN line.options = 1 .. Len(line.options),
           Len(line.options) > 0, line.options[1] = "d"
    PROVE  IsDeletion(line) /\ Seen(line) = {}
<1>1. IsDeletion(line)
  BY DEF IsDeletion, Contains
<1>2. \A i \in DOMAIN line.options : 1 \in 1 .. i
  OBVIOUS
<1>3. QED
  BY <1>1, <1>2 DEF Seen

\* A sequence with one more element in front.
LEMMA Prefixed ==
    ASSUME NEW S, NEW a \in S, NEW q \in Seq(S)
    PROVE  /\ Len(<<a>> \o q) = 1 + Len(q) /\ (<<a>> \o q)[1] = a
           /\ \A i \in 1 .. Len(q) : (<<a>> \o q)[1 + i] = q[i]
<1> DEFINE p == <<a>>
           x == p \o q
<1>1. p \in Seq(S) /\ Len(p) = 1 /\ p[1] = a /\ Len(q) \in Nat
  OBVIOUS
<1> HIDE DEF p
<1>2. /\ Len(x) = Len(p) + Len(q)
      /\ \A i \in 1 .. Len(p) + Len(q) : x[i] = IF i <= Len(p) THEN p[i] ELSE q[i - Len(p)]
  BY <1>1, ConcatProperties
<1> HIDE DEF x
<1>3. Len(x) = 1 + Len(q)
  BY <1>1, <1>2
<1>4. x[1] = a
  BY <1>1, <1>2
<1>5. ASSUME NEW i \in 1 .. Len(q)
      PROVE  x[1 + i] = q[i]
  BY <1>1, <1>2
<1>6. QED
  BY <1>3, <1>4, <1>5 DEF x, p

\* What the options of an entry's line mean to a parser.
LEMMA LineOptionsBack ==
    ASSUME NEW m, NEW k, IsKEntry(m[k])
    PROVE  LET line == EntryLine(m, k)
           IN  /\ m[k].deleted => IsDeletion(line) /\ Seen(line) = {}
               /\ ~m[k].deleted => /\ ~IsDeletion(line)
                                   /\ "i" \in Seen(line) <=> m[k].immutable
<1> DEFINE line == EntryLine(m, k)
           e == m[k]
<1>1. e.deleted \in BOOLEAN /\ e.immutable \in BOOLEAN /\ e.expand \in BOOLEAN
  BY DEF IsKEntry, Entry
<1>2. line.options = IF e.deleted THEN (IF e.immutable THEN <<"d", "i">> ELSE <<"d">>)
                     ELSE (IF e.immutable THEN <<"i">> ELSE <<>>)
                          \o (IF e.expand THEN <<"e">> ELSE <<>>)
  BY DEF EntryLine
<1> HIDE DEF line
<1>3. CASE e.deleted
  <2>1. line.options = <<"d", "i">> \/ line.options = <<"d">>
    BY <1>2, <1>3
  <2>2. /\ Len(line.options) \in Nat /\ DOMAIN line.options = 1 .. Len(line.options)
        /\ Len(line.options) > 0 /\ line.options[1] = "d"
    BY <2>1
  <2>3. QED
    BY <1>3, <2>2, SeenNone DEF line
<1>4. CASE ~e.deleted
  <2>1. CASE e.immutable
    <3>1. PICK q \in Seq(OptionLetters) : /\ line.options = <<"i">> \o q
                                          /\ q = <<"e">> \/ q = <<>>
      <4>1. <<"e">> \in Seq(OptionLetters) /\ <<>> \in Seq(OptionLetters)
        BY DEF OptionLetters
      <4>2. CASE e.expand
        BY <1>2, <1>4, <2>1, <4>1, <4>2
      <4>3. CASE ~e.expand
        BY <1>2, <1>4, <2>1, <4>1, <4>3
      <4>4. QED
        BY <4>2, <4>3
    <3>2. "i" \in OptionLetters /\ Len(q) \in Nat
      BY DEF OptionLetters
    <3>3. \A j \in 1 .. Len(q) : q[j] # "d"
      BY <3>1
    <3>4. /\ Len(line.options) = 1 + Len(q) /\ line.options[1] = "i"
          /\ \A i \in 1 .. Len(q) : line.options[1 + i] = q[i]
      BY <3>1, <3>2, Prefixed
    <3>5. line.options \in Seq(OptionLetters)
      <4>1. <<"i">> \in Seq(OptionLetters)
        BY DEF OptionLetters
      <4>2. QED
        BY <3>1, <4>1, ConcatProperties
    <3>6. Len(line.options) \in Nat /\ DOMAIN line.options = 1 .. Len(line.options)
      BY <3>5
    <3>7. ASSUME NEW i \in 1 .. Len(line.options)
          PROVE  line.options[i] # "d"
      <4>1. i = 1 \/ (i - 1 \in 1 .. Len(q) /\ 1 + (i - 1) = i)
        BY <3>2, <3>4
      <4>2. QED
        BY <3>3, <3>4, <4>1
    <3>8. QED
      BY <1>4, <2>1, <3>2, <3>4, <3>6, <3>7, SeenAll DEF line
  <2>2. CASE ~e.immutable
    <3>1. line.options = <<"e">> \/ line.options = <<>>
      BY <1>2, <1>4, <2>2
    <3>2. /\ Len(line.options) \in Nat /\ DOMAIN line.options = 1 .. Len(line.options)
          /\ \A i \in DOMAIN line.options : line.options[i] # "d" /\ line.options[i] # "i"
      BY <3>1
    <3>3. QED
      BY <1>4, <2>2, <3>2, SeenAll DEF line
  <2>3. QED
    BY <2>1, <2>2
<1>5. QED
  BY <1>1, <1>3, <1>4 DEF line

\* Which slot an entry's line is for, and what it gives it.
LEMMA LineSlotBack ==
    ASSUME NEW m, Writable(m), NEW k \in EntryKey, k.name # Marker, Has(m, k)
    PROVE  LET line == EntryLine(m, k)
           IN  /\ line.kind = "entry" /\ line.garbled = FALSE
               /\ line.value = IF m[k].deleted THEN NoValue ELSE m[k].value
               /\ line.locale # "none" <=> k.local
               /\ k.name = IF IsForeign(line) THEN Tagged(line.name, line.locale) ELSE line.name
<1> DEFINE line == EntryLine(m, k)
           raw == k.local /\ IsTagged(k.name)
<1>1. /\ line.kind = "entry" /\ line.garbled = FALSE
      /\ line.value = IF m[k].deleted THEN NoValue ELSE m[k].value
      /\ line.name = IF raw THEN k.name[1] ELSE k.name
      /\ line.locale = IF raw THEN k.name[2] ELSE IF k.local THEN OwnTag ELSE "none"
  BY DEF EntryLine
<1> HIDE DEF line
<1>2. k.local \in BOOLEAN
  BY DEF EntryKey
<1>3. CASE ~k.local
  <2>1. line.name = k.name /\ line.locale = "none"
    BY <1>1, <1>3
  <2>2. ~IsForeign(line)
    BY <2>1 DEF IsForeign
  <2>3. QED
    BY <1>1, <1>2, <1>3, <2>1, <2>2 DEF line
<1>4. CASE k.local /\ k.name \in RawNames
  <2>1. PICK n \in PlainNames, loc \in Locale \ {"none"} : ~IsOwn(loc) /\ k.name = Tagged(n, loc)
    BY <1>4 DEF RawNames
  <2>2. k.name = <<n, loc>> /\ k.name \notin PlainNames
    BY <2>1, IniAssumption DEF Tagged
  <2>3. line.name = n /\ line.locale = loc
    BY <1>1, <1>4, <2>2 DEF IsTagged
  <2>4. IsForeign(line)
    BY <2>1, <2>3 DEF IsForeign
  <2>5. QED
    BY <1>1, <1>4, <2>1, <2>3, <2>4 DEF line
<1>5. CASE k.local /\ k.name \in PlainNames /\ OwnTag # "none"
  <2>1. line.name = k.name /\ line.locale = OwnTag
    BY <1>1, <1>5 DEF IsTagged
  <2>2. ~IsForeign(line)
    BY <2>1 DEF IsForeign, IsOwn
  <2>3. QED
    BY <1>1, <1>5, <2>1, <2>2 DEF line
<1>6. k.local => k.name \in RawNames \/ (k.name \in PlainNames /\ OwnTag # "none")
  BY DEF Writable
<1>7. QED
  BY <1>2, <1>3, <1>4, <1>5, <1>6

-----------------------------------------------------------------------------
(* A line is read into a slot that holds nothing yet *)

\* A map with a new entry, and its group.
Filled(m, k, e) == [EnsureMarker(m, k.group) EXCEPT ![k] = e]

\* setEntry() for a key that is new, in a group that is not locked.
LEMMA SetFresh ==
    ASSUME NEW m, NEW k \in EntryKey, NEW v \in Values \cup {NoValue}, NEW o,
           k.default = FALSE, "Default" \notin o,
           "Localized" \in o <=> k.local, ~Has(m, k), ~GroupIsImmutable(m, k.group)
    PROVE  SetEntry(m, k.group, k.name, v, o) = Filled(m, k, StoredOver(FreshEntry, k, v, o))
<1> DEFINE g == k.group
           e == StoredOver(FreshEntry, k, v, o)
           out == Outcome(m, k, v, o)
           own == Assign(m, k, v, o)
<1>1. k = Slot(g, k.name, "Localized" \in o, "Default" \in o)
  <2>1. ("Default" \in o) = FALSE /\ ("Localized" \in o) = k.local
    BY DEF EntryKey
  <2>2. k = Slot(g, k.name, k.local, FALSE)
    BY DEF Slot, EntryKey
  <2>3. QED
    BY <2>1, <2>2
<1>2. SetEntry(m, g, k.name, v, o) = DropLocalized(own, k, out)
  <2> DEFINE j == Slot(g, k.name, "Localized" \in o, "Default" \in o)
  <2>1. SetEntry(m, g, k.name, v, o)
            = IF j.default /\ Outcome(m, j, v, o) \in {"inserted", "changed"}
              THEN DropLocalized(SetPlain(Assign(m, j, v, o), Slot(g, k.name, j.local, FALSE), v,
                                          o \ {"Default"}), j, Outcome(m, j, v, o))
              ELSE DropLocalized(Assign(m, j, v, o), j, Outcome(m, j, v, o))
    BY DEF SetEntry
  <2>2. j = k
    BY <1>1
  <2> HIDE DEF j
  <2>3. QED
    BY <2>1, <2>2
<1>3. Stored(m, k, v, o) = e
  BY DEF Stored, Found
<1> HIDE DEF e
<1>4. ~Refused(m, k)
  BY DEF Refused
<1>5. out \in {"inserted", "insertedDeleted"}
  BY <1>3, <1>4 DEF Outcome, OutcomeOf
<1>6. own = [EnsureMarker(m, g) EXCEPT ![k] = e]
  <2>1. own = AssignAs(m, k, e, out)
    BY <1>3 DEF Assign
  <2>2. AssignAs(m, k, e, out) = [EnsureMarker(m, k.group) EXCEPT ![k] = e]
    <3> HIDE DEF out
    <3>1. QED
      BY <1>5, Zenon DEF AssignAs
  <2>3. QED
    BY <2>1, <2>2
<1>7. DropLocalized(own, k, out) = own
  BY <1>5 DEF DropLocalized
<1>8. QED
  BY <1>2, <1>6, <1>7 DEF e, Filled

\* Where the parser is behind the header of group h, or above the first one.
AtGroup(c, h) ==
    /\ DOMAIN c = DOMAIN StartOfFile
    /\ c.group = h /\ c.fileImmutable = FALSE /\ c.groupImmutable = FALSE /\ c.skip = FALSE
    /\ c.immutableGroups = {} /\ c.errors = 0

\* What there is of entry w when its line was read.
ReadBack(e, w) ==
    /\ e.value = IF w.deleted THEN NoValue ELSE w.value
    /\ e.deleted = w.deleted
    /\ e.immutable = (w.immutable /\ ~w.deleted /\ ~KioskException)

\* Of the entries of M those in done were read into m.
IsRead(m, done, M) ==
    /\ OnlyDirty(m, {})
    /\ \A g \in Groups : ~GroupIsImmutable(m, g)
    /\ \A k \in EntryKey : k.name # Marker =>
           IF k \in done /\ Has(M, k) THEN Has(m, k) /\ ReadBack(m[k], M[k]) ELSE ~Has(m, k)

\* The line of an entry fills its slot.
LEMMA FillSlot ==
    ASSUME NEW M, NEW done, NEW m, IsRead(m, done, M), NEW k \in EntryKey, k.name # Marker,
           Has(M, k), k \notin done, k.default = FALSE,
           NEW v \in Values \cup {NoValue}, NEW o, "Default" \notin o, "Dirty" \notin o,
           "Localized" \in o <=> k.local,
           ReadBack(StoredOver(FreshEntry, k, v, o), M[k])
    PROVE  IsRead(SetEntry(m, k.group, k.name, v, o), done \cup {k}, M)
<1> DEFINE e == StoredOver(FreshEntry, k, v, o)
           n == SetEntry(m, k.group, k.name, v, o)
           j == MarkerOf(k.group)
<1>1. k.group \in Groups
  BY DEF EntryKey
<1>2. ~Has(m, k) /\ ~GroupIsImmutable(m, k.group)
  BY <1>1 DEF IsRead
<1>3. n = [EnsureMarker(m, k.group) EXCEPT ![k] = e]
  <2>1. n = Filled(m, k, e)
    BY <1>2, SetFresh
  <2> HIDE DEF n, e
  <2>2. QED
    BY <2>1 DEF Filled
<1>4. IsKEntry(e) /\ ~e.dirty
  BY FreshIsKEntry, StoredIsKEntry
<1>5. OnlyDirty(n, {})
  <2>1. OnlyDirty(m, {})
    BY DEF IsRead
  <2>2. "Dirty" \in o => SlotsFor(k.group, k.name) \subseteq {}
    OBVIOUS
  <2>3. QED
    BY <2>1, <2>2, SetEntryDirty
<1>6. e # NoEntry
  BY <1>4, SentinelAssumption DEF IsKEntry
<1> HIDE DEF n, e
<1>7. /\ DOMAIN m = EntryKey /\ j \in EntryKey /\ j.name = Marker
      /\ \A g \in Groups : MarkerOf(g) \in EntryKey /\ MarkerOf(g) # k
  <2>1. DOMAIN m = EntryKey
    BY DEF IsRead, OnlyDirty
  <2>2. ASSUME NEW g \in Groups
        PROVE  MarkerOf(g) \in EntryKey /\ MarkerOf(g).name = Marker
    BY DEF EntryKey, MarkerOf, Slot
  <2>3. QED
    BY <1>1, <2>1, <2>2
<1>8. \A i \in EntryKey : n[i] = IF i = k THEN e
                                 ELSE IF i = j /\ ~Has(m, j) THEN FreshEntry ELSE m[i]
  BY <1>3, <1>7 DEF EnsureMarker, j
<1>9. \A g \in Groups : ~GroupIsImmutable(n, g)
  <2>1. FreshEntry.immutable = FALSE
    BY DEF FreshEntry
  <2>2. \A g \in Groups : n[MarkerOf(g)] \in {FreshEntry, m[MarkerOf(g)]}
    BY <1>7, <1>8
  <2>3. QED
    BY <2>1, <2>2 DEF IsRead, GroupIsImmutable, IsImmutable, Has
<1>10. ASSUME NEW i \in EntryKey, i.name # Marker
       PROVE  IF i \in done \cup {k} /\ Has(M, i) THEN Has(n, i) /\ ReadBack(n[i], M[i])
              ELSE ~Has(n, i)
  <2>1. CASE i = k
    BY <1>6, <1>8, <2>1 DEF Has, e
  <2>2. CASE i # k
    <3>1. n[i] = m[i]
      BY <1>7, <1>8, <1>10, <2>2
    <3>2. QED
      BY <1>10, <2>2, <3>1 DEF IsRead, Has
  <2>3. QED
    BY <2>1, <2>2
<1>11. QED
  BY <1>5, <1>9, <1>10 DEF IsRead, n

\* What setEntry() makes of a new entry's options.
LEMMA FreshReadBack ==
    ASSUME NEW k, NEW v, NEW o, NEW w \in Entry,
           v = IF w.deleted THEN NoValue ELSE w.value,
           "Deleted" \in o <=> w.deleted,
           "Immutable" \in o <=> w.immutable /\ ~w.deleted /\ ~KioskException
    PROVE  ReadBack(StoredOver(FreshEntry, k, v, o), w)
<1> DEFINE e == StoredOver(FreshEntry, k, v, o)
<1>1. /\ e.value = v /\ e.deleted = (v = NoValue /\ (FALSE \/ "Deleted" \in o))
      /\ e.immutable = (FALSE \/ "Immutable" \in o)
  BY DEF StoredOver, FreshEntry
<1> HIDE DEF e
<1>2. w.deleted \in BOOLEAN /\ w.immutable \in BOOLEAN
  BY DEF Entry
<1>3. QED
  BY <1>1, <1>2, IniAssumption DEF ReadBack, e

\* The turn of the loop for the line of an entry.
LEMMA EntryTurn ==
    ASSUME NEW M, Writable(M), NEW k \in EntryKey, k.name # Marker, Has(M, k),
           NEW g \in BOOLEAN, NEW s, NEW done, IsRead(s.map, done, M),
           AtGroup(s.cursor, k.group), k \notin done
    PROVE  LET t == ParseLine(s, EntryLine(M, k), Merging(g))
           IN  IsRead(t.map, done \cup {k}, M) /\ AtGroup(t.cursor, k.group)
<1> DEFINE line == EntryLine(M, k)
           opts == Merging(g)
           c == s.cursor
           t == ParseLine(s, line, opts)
           o == LineOptions(c, line, opts)
<1>1. /\ c.group = k.group /\ c.errors = 0 /\ c.skip = FALSE /\ c.groupImmutable = FALSE
      /\ opts.default = FALSE /\ opts.global = g /\ opts.merging = TRUE
  BY DEF AtGroup, StartOfFile, Merging
<1>2. Reading(c) /\ ~Skipped(c, opts) /\ ~IsIgnored(c, line, opts)
  BY <1>1, IniAssumption DEF Reading, Skipped, IsIgnored
<1>3. M[k] \in Entry /\ k.default = FALSE /\ (k.local => ~M[k].deleted) /\ k.local \in BOOLEAN
  BY DEF Writable, OnlyDirty, IsKEntry, EntryKey
<1>4. /\ line.kind = "entry" /\ line.garbled = FALSE
      /\ line.value = IF M[k].deleted THEN NoValue ELSE M[k].value
      /\ line.locale # "none" <=> k.local
      /\ k.name = IF IsForeign(line) THEN Tagged(line.name, line.locale) ELSE line.name
  BY LineSlotBack
<1>5. /\ M[k].deleted => IsDeletion(line) /\ Seen(line) = {}
      /\ ~M[k].deleted => ~IsDeletion(line) /\ ("i" \in Seen(line) <=> M[k].immutable)
  BY <1>3, LineOptionsBack DEF IsKEntry
<1>6. /\ t.map = LineMap(s.map, c, line, opts) /\ t.cursor = LineCursor(s.map, c, line, opts)
  BY ParseLineGives
<1> HIDE DEF line, t, c, opts
<1>7. /\ "Default" \notin o /\ "Dirty" \notin o /\ "Localized" \notin o /\ "Deleted" \notin o
      /\ "Immutable" \in o <=> "i" \in Seen(line) /\ ~KioskException
  BY <1>1 DEF LineOptions, When
<1> HIDE DEF o
<1>8. t.cursor = c
  BY <1>2, <1>4, <1>6 DEF LineCursor
<1>9. CASE M[k].deleted
  <2> DEFINE q == o \cup {"Deleted"}
  <2>1. /\ "Default" \notin q /\ "Dirty" \notin q /\ ("Localized" \in q <=> k.local)
        /\ "Deleted" \in q <=> M[k].deleted
        /\ "Immutable" \in q <=> M[k].immutable /\ ~M[k].deleted /\ ~KioskException
    BY <1>3, <1>5, <1>7, <1>9
  <2>2. t.map = SetEntry(s.map, k.group, k.name, NoValue, q)
    <3>1. t.map = ParseDeletion(s.map, c, line, opts)
      BY <1>2, <1>4, <1>5, <1>6, <1>9 DEF LineMap
    <3>2. Tagged(line.name, line.locale) = k.name
      BY <1>3, <1>4, <1>9 DEF Tagged, IsForeign
    <3>3. QED
      BY <1>1, <3>1, <3>2 DEF ParseDeletion, o
  <2> HIDE DEF q
  <2>3. ReadBack(StoredOver(FreshEntry, k, NoValue, q), M[k])
    BY <1>3, <1>9, <2>1, FreshReadBack
  <2>4. IsRead(t.map, done \cup {k}, M)
    <3> DEFINE v == NoValue
    <3>1. v \in Values \cup {NoValue} /\ ReadBack(StoredOver(FreshEntry, k, v, q), M[k])
      BY <2>3
    <3> HIDE DEF v
    <3>2. IsRead(SetEntry(s.map, k.group, k.name, v, q), done \cup {k}, M)
      BY <1>3, <2>1, <3>1, FillSlot
    <3>3. QED
      BY <2>2, <3>2 DEF v
  <2>5. QED
    BY <1>8, <2>4 DEF t, c, opts, line
<1>10. CASE ~M[k].deleted
  <2> DEFINE q == o \cup When(opts.global, "Global") \cup When(line.locale # "none", "Localized")
                  \cup When(line.locale = "country", "LocalizedCountry")
             v == M[k].value
  <2>1. /\ "Default" \notin q /\ "Dirty" \notin q /\ ("Localized" \in q <=> k.local)
        /\ "Deleted" \in q <=> M[k].deleted
        /\ "Immutable" \in q <=> M[k].immutable /\ ~M[k].deleted /\ ~KioskException
    BY <1>4, <1>5, <1>7, <1>10 DEF When
  <2>2. t.map = SetEntry(s.map, k.group, k.name, v, q)
    <3>1. t.map = ParseValue(s.map, c, line, opts)
      BY <1>2, <1>4, <1>5, <1>6, <1>10 DEF LineMap
    <3>2. v = line.value
      BY <1>4, <1>10
    <3>3. QED
      BY <1>1, <1>4, <3>1, <3>2 DEF ParseValue, o
  <2>3. v \in Values \cup {NoValue}
    BY <1>3 DEF Entry
  <2> HIDE DEF q, v
  <2>4. ReadBack(StoredOver(FreshEntry, k, v, q), M[k])
    BY <1>3, <1>10, <2>1, FreshReadBack DEF v
  <2>5. IsRead(t.map, done \cup {k}, M)
    <3>1. IsRead(SetEntry(s.map, k.group, k.name, v, q), done \cup {k}, M)
      BY <1>3, <2>1, <2>3, <2>4, FillSlot
    <3>2. QED
      BY <2>2, <3>1
  <2>6. QED
    BY <1>8, <2>5 DEF t, c, opts, line
<1>11. QED
  BY <1>9, <1>10

\* The parser is among the entries of group h, and has read those of done.
AtLine(s, done, M, h) == IsRead(s.map, done, M) /\ AtGroup(s.cursor, h)

\* What a slot holds, or nothing, is read from what is written for it.
LEMMA SlotTurn ==
    ASSUME NEW M, Writable(M), NEW k \in EntryKey, k.name # Marker,
           NEW g \in BOOLEAN, NEW s, NEW done, AtLine(s, done, M, k.group), k \notin done
    PROVE  AtLine(EndOf(s, LineOf(M, k), Merging(g)), done \cup {k}, M, k.group)
<1>1. CASE Has(M, k)
  <2> DEFINE line == EntryLine(M, k)
             t == ParseLine(s, line, Merging(g))
  <2>1. LineOf(M, k) = <<line>>
    BY <1>1 DEF LineOf
  <2>2. IsRead(t.map, done \cup {k}, M) /\ AtGroup(t.cursor, k.group)
    BY <1>1, EntryTurn DEF AtLine
  <2> HIDE DEF line
  <2>3. EndOf(s, <<line>>, Merging(g)) = t
    BY EndOfShort
  <2> HIDE DEF t
  <2>4. QED
    BY <2>1, <2>2, <2>3 DEF AtLine
<1>2. CASE ~Has(M, k)
  <2>1. EndOf(s, LineOf(M, k), Merging(g)) = s
    BY <1>2, EndOfShort DEF LineOf
  <2>2. IsRead(s.map, done \cup {k}, M)
    BY <1>2 DEF AtLine, IsRead
  <2>3. QED
    BY <2>1, <2>2 DEF AtLine
<1>3. QED
  BY <1>1, <1>2

\* So are the slots of a key.
LEMMA KeyTurn ==
    ASSUME NEW M, Writable(M), NEW h \in Groups, NEW n \in Names,
           NEW g \in BOOLEAN, NEW s, NEW done, AtLine(s, done, M, h),
           SlotsFor(h, n) \cap done = {}
    PROVE  AtLine(EndOf(s, KeyLines(M, h, n), Merging(g)), done \cup SlotsFor(h, n), M, h)
<1> DEFINE S == WrittenLines(M)
           a == Slot(h, n, TRUE, FALSE)
           b == Slot(h, n, TRUE, TRUE)
           c == Slot(h, n, FALSE, FALSE)
           d == Slot(h, n, FALSE, TRUE)
           opts == Merging(g)
           s1 == EndOf(s, LineOf(M, a), opts)
           s2 == EndOf(s1, LineOf(M, b), opts)
           s3 == EndOf(s2, LineOf(M, c), opts)
           s4 == EndOf(s3, LineOf(M, d), opts)
<1>1. /\ SlotsFor(h, n) = {a, b, c, d}
      /\ a # b /\ a # c /\ a # d /\ b # c /\ b # d /\ c # d
  <2>1. \A x : x \in SlotsFor(h, n) <=> \E i, j \in BOOLEAN : x = Slot(h, n, i, j)
    BY DEF SlotsFor
  <2>2. \A x : x \in SlotsFor(h, n) <=> x \in {a, b, c, d}
    BY <2>1
  <2>3. /\ a.local /\ b.local /\ ~c.local /\ ~d.local
        /\ ~a.default /\ b.default /\ ~c.default /\ d.default
    BY DEF Slot
  <2> HIDE DEF a, b, c, d
  <2>4. QED
    BY <2>2, <2>3
<1>2. \A k \in {a, b, c, d} : k \in EntryKey /\ k.name # Marker /\ k.group = h
  <2>1. ASSUME NEW i \in BOOLEAN, NEW j \in BOOLEAN
        PROVE  LET k == Slot(h, n, i, j) IN k \in EntryKey /\ k.name # Marker /\ k.group = h
    BY SentinelAssumption DEF Slot, EntryKey
  <2>2. QED
    BY <2>1
<1>3. KeyLines(M, h, n) = LineOf(M, a) \o LineOf(M, b) \o LineOf(M, c) \o LineOf(M, d)
  BY DEF KeyLines
<1>4. \A k \in {a, b, c, d} : LineOf(M, k) \in Seq(S)
  BY <1>2, LineOfSeq
<1> HIDE DEF a, b, c, d, S
<1> DEFINE da == done \cup {a}
           db == da \cup {b}
           dc == db \cup {c}
<1>5. AtLine(s1, da, M, h) /\ b \notin da /\ c \notin db /\ d \notin dc
  BY <1>1, <1>2, SlotTurn
<1> HIDE DEF s1, da
<1>6. AtLine(s2, db, M, h)
  BY <1>2, <1>5, SlotTurn
<1> HIDE DEF s2, db
<1>7. AtLine(s3, dc, M, h)
  <2>1. c \in EntryKey /\ c.name # Marker /\ c.group = h /\ c \notin db
    BY <1>2, <1>5
  <2>2. QED
    BY <1>6, <2>1, SlotTurn
<1> HIDE DEF s3, dc
<1>8. AtLine(s4, dc \cup {d}, M, h)
  BY <1>2, <1>5, <1>7, SlotTurn
<1> HIDE DEF s4
<1>9. EndOf(s, KeyLines(M, h, n), opts) = s4
  <2> DEFINE la == LineOf(M, a)
             lb == LineOf(M, b)
             lc == LineOf(M, c)
             ld == LineOf(M, d)
  <2>1. la \in Seq(S) /\ lb \in Seq(S) /\ lc \in Seq(S) /\ ld \in Seq(S)
    BY <1>4
  <2>2. /\ s1 = EndOf(s, la, opts) /\ s2 = EndOf(s1, lb, opts)
        /\ s3 = EndOf(s2, lc, opts) /\ s4 = EndOf(s3, ld, opts)
    BY DEF s1, s2, s3, s4
  <2> HIDE DEF la, lb, lc, ld, opts
  <2> DEFINE lab == la \o lb
             labc == lab \o lc
  <2>3. lab \in Seq(S)
    BY <2>1, ConcatProperties
  <2>4. EndOf(s, lab, opts) = s2
    BY <2>1, <2>2, EndOfConcat
  <2> HIDE DEF lab
  <2>5. labc \in Seq(S)
    BY <2>1, <2>3, ConcatProperties
  <2>6. EndOf(s, labc, opts) = s3
    BY <2>1, <2>2, <2>3, <2>4, EndOfConcat
  <2> HIDE DEF labc
  <2>7. EndOf(s, labc \o ld, opts) = s4
    BY <2>1, <2>2, <2>5, <2>6, EndOfConcat
  <2>8. QED
    BY <1>3, <2>7 DEF la, lb, lc, ld, lab, labc
<1>10. dc \cup {d} = done \cup SlotsFor(h, n)
  BY <1>1 DEF da, db, dc
<1>11. QED
  BY <1>8, <1>9, <1>10

\* The slots of a group's entries.
EntriesOf(h) == {k \in EntryKey : k.group = h /\ k.name # Marker}

\* The slots of a key are those with its name.
LEMMA SlotsForIs ==
    ASSUME NEW h \in Groups, NEW n \in Names
    PROVE  SlotsFor(h, n) = {k \in EntryKey : k.group = h /\ k.name = n}
<1>1. ASSUME NEW k \in SlotsFor(h, n)
      PROVE  k \in EntryKey /\ k.group = h /\ k.name = n
  BY DEF SlotsFor, Slot, EntryKey
<1>2. ASSUME NEW k \in EntryKey, k.group = h, k.name = n
      PROVE  k \in SlotsFor(h, n)
  <2>1. k = Slot(h, n, k.local, k.default) /\ k.local \in BOOLEAN /\ k.default \in BOOLEAN
    BY <1>2 DEF Slot, EntryKey
  <2>2. QED
    BY <2>1 DEF SlotsFor
<1>3. QED
  BY <1>1, <1>2

\* A list has no element twice.
LEMMA ListsOnce ==
    ASSUME NEW S, NEW seq, Lists(seq, S), NEW i \in DOMAIN seq, NEW j \in DOMAIN seq,
           seq[i] = seq[j]
    PROVE  i = j
<1>1. seq[i] \in S
  BY DEF Lists
<1>2. PICK x \in DOMAIN seq : \A h \in DOMAIN seq : seq[h] = seq[i] <=> h = x
  BY <1>1 DEF Lists
<1>3. QED
  BY <1>2

\* The entries of a group are read from what is written for them.
LEMMA GroupTurn ==
    ASSUME NEW M, Writable(M), NEW h \in Groups, NEW g \in BOOLEAN, NEW s, NEW done,
           AtLine(s, done, M, h), EntriesOf(h) \cap done = {}
    PROVE  AtLine(EndOf(s, EntryLines(M, h), Merging(g)), done \cup EntriesOf(h), M, h)
<1> DEFINE S == WrittenLines(M)
           n == Len(NameOrder)
           lines == [i \in DOMAIN NameOrder |-> KeyLines(M, h, NameOrder[i])]
           upTo(i) == {k \in EntryKey : k.group = h /\ \E j \in 1 .. i : k.name = NameOrder[j]}
<1>1. n \in Nat /\ \A i \in 1 .. n : NameOrder[i] \in Names
  BY Orders
<1>2. lines \in [1 .. n -> Seq(S)] /\ \A i \in 1 .. n : lines[i] = KeyLines(M, h, NameOrder[i])
  BY Orders, KeyLinesSeq
<1>3. EntryLines(M, h) = FlattenSeq(lines)
  BY DEF EntryLines
<1>4. \A i \in 1 .. n : /\ upTo(i) = upTo(i - 1) \cup SlotsFor(h, NameOrder[i])
                        /\ SlotsFor(h, NameOrder[i]) \cap (done \cup upTo(i - 1)) = {}
  <2> SUFFICES ASSUME NEW i \in 1 .. n
               PROVE  /\ upTo(i) = upTo(i - 1) \cup SlotsFor(h, NameOrder[i])
                      /\ SlotsFor(h, NameOrder[i]) \cap (done \cup upTo(i - 1)) = {}
    OBVIOUS
  <2>1. SlotsFor(h, NameOrder[i]) = {k \in EntryKey : k.group = h /\ k.name = NameOrder[i]}
    BY <1>1, SlotsForIs
  <2>2. \A j \in 1 .. n : j \in 1 .. i <=> j \in 1 .. i - 1 \/ j = i
    BY <1>1
  <2>3. \A j \in 1 .. i : j \in 1 .. n
    BY <1>1
  <2>4. \A j \in 1 .. i - 1 : j \in 1 .. n /\ j # i
    BY <1>1
  <2>5. \A j \in 1 .. i - 1 : NameOrder[j] # NameOrder[i]
    <3>1. Lists(NameOrder, Names) /\ DOMAIN NameOrder = 1 .. n
      BY IniAssumption, Orders
    <3>2. QED
      BY <2>4, <3>1, ListsOnce
  <2>6. upTo(i) = upTo(i - 1) \cup SlotsFor(h, NameOrder[i])
    BY <2>1, <2>2, <2>3, <2>4
  <2>7. SlotsFor(h, NameOrder[i]) \subseteq EntriesOf(h)
    BY <1>1, <2>1, SentinelAssumption DEF EntriesOf
  <2>8. SlotsFor(h, NameOrder[i]) \cap upTo(i - 1) = {}
    BY <2>1, <2>5
  <2>9. QED
    BY <2>6, <2>7, <2>8
<1>5. upTo(0) = {} /\ upTo(n) = EntriesOf(h)
  <2>1. \A j : j \notin 1 .. 0
    OBVIOUS
  <2>2. upTo(0) = {}
    BY <2>1
  <2>3. \A x \in Names : \E j \in 1 .. n : NameOrder[j] = x
    BY IniAssumption, Orders DEF Lists
  <2>4. \A k \in EntryKey : k.name # Marker <=> k.name \in Names
    BY SentinelAssumption DEF EntryKey
  <2>5. QED
    BY <1>1, <2>2, <2>3, <2>4 DEF EntriesOf
<1> HIDE DEF lines, S, n, upTo
<1>6. PICK c : Passes(c, s, n, lines, Merging(g))
  BY <1>1, <1>2, EndOfFlatten
<1> DEFINE T == {i \in 0 .. n : AtLine(c[i], done \cup upTo(i), M, h)}
<1>7. 0 \in T
  <2>1. done \cup upTo(0) = done /\ c[0] = s /\ 0 \in 0 .. n
    BY <1>1, <1>5, <1>6 DEF Passes
  <2>2. QED
    BY <2>1
<1>8. ASSUME NEW i \in 1 .. n, i - 1 \in T
      PROVE  i \in T
  <2> DEFINE d == done \cup upTo(i - 1)
  <2>1. AtLine(c[i - 1], d, M, h) /\ NameOrder[i] \in Names /\ SlotsFor(h, NameOrder[i]) \cap d = {}
    BY <1>1, <1>4, <1>8
  <2>2. d \cup SlotsFor(h, NameOrder[i]) = done \cup upTo(i)
    BY <1>4
  <2>3. c[i] = EndOf(c[i - 1], KeyLines(M, h, NameOrder[i]), Merging(g))
    BY <1>2, <1>6 DEF Passes
  <2> HIDE DEF d
  <2>4. AtLine(c[i], d \cup SlotsFor(h, NameOrder[i]), M, h)
    BY <2>1, <2>3, KeyTurn
  <2>5. QED
    BY <1>1, <2>2, <2>4
<1>9. \A i \in 0 .. n : i \in T
  <2> HIDE DEF T
  <2>1. QED
    BY <1>1, <1>7, <1>8, CountUp
<1>10. AtLine(c[n], done \cup upTo(n), M, h)
  BY <1>1, <1>9
<1>11. QED
  BY <1>3, <1>5, <1>6, <1>10 DEF Passes

-----------------------------------------------------------------------------
(* The headers of the groups, and the whole file *)

\* What is written for the empty group, which has no entries.
LEMMA NoGroupLines ==
    ASSUME NEW M, \A k \in EntriesOf(NoGroup) : ~Has(M, k)
    PROVE  EntryLines(M, NoGroup) = <<>>
<1> DEFINE S == WrittenLines(M)
           n == Len(NameOrder)
           lines == [i \in DOMAIN NameOrder |-> KeyLines(M, NoGroup, NameOrder[i])]
<1>1. n \in Nat /\ NoGroup \in Groups
  BY Orders, IniAssumption
<1>2. lines \in [1 .. n -> Seq(S)]
  BY <1>1, Orders, KeyLinesSeq
<1>3. ASSUME NEW i \in 1 .. n
      PROVE  lines[i] = <<>>
  <2>1. lines[i] = KeyLines(M, NoGroup, NameOrder[i]) /\ NameOrder[i] \in Names
    BY Orders
  <2>2. \A l, d \in BOOLEAN : Slot(NoGroup, NameOrder[i], l, d) \in EntriesOf(NoGroup)
    BY <1>1, <2>1, SentinelAssumption DEF EntriesOf, EntryKey, Slot
  <2>3. \A l, d \in BOOLEAN : LineOf(M, Slot(NoGroup, NameOrder[i], l, d)) = <<>>
    BY <2>2 DEF LineOf
  <2>4. KeyLines(M, NoGroup, NameOrder[i]) = <<>> \o <<>> \o <<>> \o <<>>
    BY <2>3 DEF KeyLines
  <2>5. <<>> \o <<>> = <<>>
    OBVIOUS
  <2>6. QED
    BY <2>1, <2>4, <2>5
<1> HIDE DEF lines, S, n
<1>4. PICK upTo : Flattens(upTo, S, n, lines)
  BY <1>1, <1>2, FlattenSteps
<1> DEFINE T == {i \in 0 .. n : upTo[i] = <<>>}
<1>5. 0 \in T
  BY <1>1, <1>4 DEF Flattens
<1>6. ASSUME NEW i \in 1 .. n, i - 1 \in T
      PROVE  i \in T
  <2>1. upTo[i] = upTo[i - 1] \o lines[i] /\ upTo[i - 1] = <<>> /\ lines[i] = <<>>
    BY <1>3, <1>4, <1>6 DEF Flattens
  <2>2. <<>> \o <<>> = <<>>
    OBVIOUS
  <2>3. QED
    BY <1>1, <2>1, <2>2
<1>7. \A i \in 0 .. n : i \in T
  <2> HIDE DEF T
  <2>1. QED
    BY <1>1, <1>5, <1>6, CountUp
<1>8. upTo[n] = <<>> /\ upTo[n] = FlattenSeq(lines)
  BY <1>1, <1>4, <1>7 DEF Flattens
<1>9. QED
  BY <1>8 DEF EntryLines, lines

\* A set of numbers has a highest one.
LEMMA Highest ==
    ASSUME NEW n \in Nat, NEW P \in SUBSET (1 .. n), P # {}
    PROVE  \E j \in P : \A h \in P : h <= j
<1> DEFINE upTo(i) == {h \in P : h <= i}
           T == {i \in 0 .. n : upTo(i) # {} => \E j \in upTo(i) : \A h \in upTo(i) : h <= j}
<1>0. \A h \in P : ~(h <= 0) /\ h <= n
  OBVIOUS
<1>1. 0 \in T
  <2>1. upTo(0) = {}
    BY <1>0
  <2>2. 0 \in 0 .. n
    OBVIOUS
  <2> HIDE DEF upTo
  <2>3. QED
    BY <2>1, <2>2
<1>2. ASSUME NEW i \in 1 .. n, i - 1 \in T
      PROVE  i \in T
  <2>0. i \in 0 .. n
    OBVIOUS
  <2>1. CASE i \in P
    <3>1. i \in upTo(i) /\ \A h \in upTo(i) : h <= i
      BY <2>1
    <3> HIDE DEF upTo
    <3>2. QED
      BY <2>0, <3>1
  <2>2. CASE i \notin P
    <3>1. \A h \in P : h <= i <=> h <= i - 1
      BY <2>2
    <3>2. upTo(i) = upTo(i - 1)
      BY <3>1
    <3> HIDE DEF upTo
    <3>3. QED
      BY <1>2, <2>0, <3>2
  <2>3. QED
    BY <2>1, <2>2
<1>3. \A i \in 0 .. n : i \in T
  <2> HIDE DEF T
  <2>1. QED
    BY <1>1, <1>2, CountUp
<1>4. upTo(n) = P
  BY <1>0
<1> HIDE DEF upTo
<1>5. n \in T
  <2>1. n \in 0 .. n
    OBVIOUS
  <2>2. QED
    BY <1>3, <2>1, Zenon
<1>6. QED
  BY <1>4, <1>5

\* No header locks its group where no group is locked.
LEMMA NoHeaderLock ==
    ASSUME NEW M, \A h \in Groups \ {DefaultGroup} : ~GroupIsImmutable(M, h),
           NEW i \in 1 .. Len(GroupOrder)
    PROVE  HeaderLock(M, i) = FALSE
<1> DEFINE passed == {j \in 1 .. i : Has(M, MarkerOf(GroupOrder[j]))}
           top == CHOOSE j \in passed : \A h \in passed : h <= j
<1>1. CASE passed = {}
  BY <1>1 DEF HeaderLock
<1>2. CASE passed # {}
  <2>1. Len(GroupOrder) \in Nat /\ i \in Nat /\ \A j \in 1 .. i : j \in 1 .. Len(GroupOrder)
    BY Orders
  <2>2. \E j \in passed : \A h \in passed : h <= j
    BY <1>2, <2>1, Highest
  <2>3. top \in passed
    <3> HIDE DEF passed
    <3>1. QED
      BY <2>2
  <2>4. GroupOrder[top] \in Groups \ {DefaultGroup}
    <3> HIDE DEF top
    <3>1. QED
      BY <2>1, <2>3, Orders
  <2>5. ~GroupIsImmutable(M, GroupOrder[top])
    BY <2>4
  <2>6. QED
    BY <2>5 DEF HeaderLock
<1>3. QED
  BY <1>1, <1>2

\* The turn of the loop for the header of a group that is not locked.
LEMMA HeaderTurn ==
    ASSUME NEW M, NEW h \in Groups, NEW x \in Groups, NEW g \in BOOLEAN, NEW s, NEW done,
           AtLine(s, done, M, x)
    PROVE  AtLine(ParseLine(s, [kind |-> "group", group |-> h, immutable |-> FALSE], Merging(g)),
                  done, M, h)
<1> DEFINE line == [kind |-> "group", group |-> h, immutable |-> FALSE]
           opts == Merging(g)
           c == s.cursor
           t == ParseLine(s, line, opts)
<1>1. t.map = LineMap(s.map, c, line, opts) /\ t.cursor = LineCursor(s.map, c, line, opts)
  BY ParseLineGives
<1>2. line.kind = "group" /\ line.group = h /\ line.immutable = FALSE
  OBVIOUS
<1>3. AtGroup(c, x) /\ KioskException \in BOOLEAN
  BY IniAssumption DEF AtLine
<1>4. GroupIsImmutable(s.map, h) = FALSE
  BY DEF AtLine, IsRead, GroupIsImmutable, IsImmutable
<1> HIDE DEF line, t, opts, c
<1>5. Reading(c)
  BY <1>3, IniAssumption DEF Reading, AtGroup
<1>6. t.map = s.map
  BY <1>1, <1>2 DEF LineMap
<1>7. t.cursor = HeaderCursor(s.map, c, line, opts)
  BY <1>1, <1>2, <1>5 DEF LineCursor
<1>8. HeaderCursor(s.map, c, line, opts)
          = [c EXCEPT !.group = h, !.fileImmutable = FALSE, !.groupImmutable = FALSE,
                      !.skip = FALSE, !.immutableGroups = {}]
  BY <1>2, <1>3, <1>4 DEF HeaderCursor, AtGroup
<1>9. AtGroup(t.cursor, h)
  BY <1>3, <1>7, <1>8 DEF AtGroup, StartOfFile
<1>10. QED
  BY <1>6, <1>9 DEF AtLine, t, line, opts

\* The parser is somewhere in the file, and has read the entries of done.
AtSome(s, done, M) == \E x \in Groups : AtLine(s, done, M, x)

\* What is written for a group is read back.
LEMMA GroupLinesTurn ==
    ASSUME NEW M, Writable(M), NEW i \in 1 .. Len(GroupOrder), NEW g \in BOOLEAN, NEW s, NEW done,
           AtSome(s, done, M), EntriesOf(GroupOrder[i]) \cap done = {}
    PROVE  AtSome(EndOf(s, GroupLines(M, i), Merging(g)), done \cup EntriesOf(GroupOrder[i]), M)
<1> DEFINE h == GroupOrder[i]
           S == WrittenLines(M)
           opts == Merging(g)
           head == [kind |-> "group", group |-> h, immutable |-> FALSE]
           body == EntryLines(M, h)
<1>1. h \in Groups /\ body \in Seq(S)
  BY Orders, EntryLinesSeq
<1>2. PICK x \in Groups : AtLine(s, done, M, x)
  BY DEF AtSome
<1>3. HeaderLock(M, i) = FALSE
  BY NoHeaderLock DEF Writable
<1>4. ASSUME body = <<>>
      PROVE  IsRead(s.map, done \cup EntriesOf(h), M)
  <2> DEFINE t == ParseLine(s, head, opts)
             t2 == EndOf(t, body, opts)
  <2>1. AtLine(t, done, M, h)
    BY <1>1, <1>2, HeaderTurn
  <2> HIDE DEF t
  <2>2. AtLine(t2, done \cup EntriesOf(h), M, h)
    BY <1>1, <2>1, GroupTurn
  <2>3. t2 = t
    BY <1>4, EndOfShort
  <2>4. t.map = s.map
    <3>1. t.map = LineMap(s.map, s.cursor, head, opts)
      BY ParseLineGives DEF t
    <3>2. head.kind = "group"
      OBVIOUS
    <3> HIDE DEF head
    <3>3. QED
      BY <3>1, <3>2 DEF LineMap
  <2>5. QED
    BY <2>2, <2>3, <2>4 DEF AtLine
<1>5. CASE body = <<>> \/ h = NoGroup
  <2>1. body = <<>>
    <3>1. h = NoGroup => body = <<>>
      <4>1. \A k \in EntriesOf(NoGroup) : ~Has(M, k)
        BY DEF Writable, EntriesOf
      <4>2. QED
        BY <4>1, NoGroupLines
    <3>2. QED
      BY <1>5, <3>1
  <2>2. GroupLines(M, i) = <<>>
    BY <2>1 DEF GroupLines
  <2>3. EndOf(s, GroupLines(M, i), opts) = s
    BY <2>2, EndOfShort
  <2>4. AtLine(s, done \cup EntriesOf(h), M, x)
    BY <1>2, <1>4, <2>1 DEF AtLine
  <2>5. QED
    BY <2>3, <2>4 DEF AtSome
<1>6. CASE ~(body = <<>> \/ h = NoGroup)
  <2>1. GroupLines(M, i) = <<head>> \o body
    BY <1>3, <1>6 DEF GroupLines
  <2> DEFINE t == ParseLine(s, head, opts)
             t2 == EndOf(t, body, opts)
  <2>2. AtLine(t, done, M, h)
    BY <1>1, <1>2, HeaderTurn
  <2>3. head \in S
    BY <1>3, Orders DEF WrittenLines
  <2>4. EndOf(s, <<head>>, opts) = t
    <3> HIDE DEF head
    <3>1. QED
      BY EndOfShort
  <2> HIDE DEF t, head, S
  <2>5. AtLine(t2, done \cup EntriesOf(h), M, h)
    BY <1>1, <2>2, GroupTurn
  <2> HIDE DEF body
  <2>6. EndOf(s, <<head>> \o body, opts) = EndOf(EndOf(s, <<head>>, opts), body, opts)
    <3> DEFINE one == <<head>>
    <3>1. one \in Seq(S) /\ body \in Seq(S)
      BY <1>1, <2>3
    <3> HIDE DEF one, opts, h
    <3>2. EndOf(s, one \o body, opts) = EndOf(EndOf(s, one, opts), body, opts)
      BY <3>1, EndOfConcat
    <3>3. QED
      BY <3>2 DEF one
  <2>7. QED
    BY <1>1, <2>1, <2>4, <2>5, <2>6 DEF AtSome
<1>7. QED
  BY <1>5, <1>6

\* What writeEntries() writes of any map that can be written, parseConfig() reads back when it
\* merges: each entry is where it was, with its value, deletion and lock, and there is no other.
THEOREM ReadWritten ==
    ASSUME NEW M, Writable(M), NEW g \in BOOLEAN
    PROVE  IsRead(ParseConfig(EmptyMap, WriteEntries(M), Merging(g)).map, EntryKey, M)
<1> DEFINE S == WrittenLines(M)
           n == Len(GroupOrder)
           opts == Merging(g)
           groups == [i \in DOMAIN GroupOrder |-> GroupLines(M, i)]
           top == EntryLines(M, DefaultGroup)
           s0 == AtStart(EmptyMap)
           s1 == EndOf(s0, top, opts)
           s2 == EndOf(s1, FlattenSeq(groups), opts)
           upTo(i) == UNION {EntriesOf(GroupOrder[j]) : j \in 1 .. i}
           done(i) == EntriesOf(DefaultGroup) \cup upTo(i)
<1>1. /\ n \in Nat /\ \A i \in 1 .. n : GroupOrder[i] \in Groups \ {DefaultGroup}
      /\ DefaultGroup \in Groups
  BY Orders, IniAssumption
<1>2. /\ groups \in [1 .. n -> Seq(S)] /\ \A i \in 1 .. n : groups[i] = GroupLines(M, i)
      /\ top \in Seq(S)
  BY <1>1, Orders, GroupLinesSeq, EntryLinesSeq
<1>3. AtLine(s0, {}, M, DefaultGroup)
  <2>1. s0.map = EmptyMap /\ s0.cursor = StartOfFile
    BY DEF AtStart
  <2>2. AtGroup(StartOfFile, DefaultGroup)
    BY DEF AtGroup, StartOfFile
  <2>3. \A k \in EntryKey : ~Has(EmptyMap, k)
    BY DEF Has, EmptyMap
  <2>4. \A h \in Groups : MarkerOf(h) \in EntryKey
    BY DEF EntryKey, MarkerOf, Slot
  <2>5. IsRead(EmptyMap, {}, M)
    BY <2>3, <2>4, EmptyDirty DEF IsRead, GroupIsImmutable, IsImmutable
  <2>6. QED
    BY <2>1, <2>2, <2>5 DEF AtLine
<1> HIDE DEF s0
<1>4. AtSome(s1, EntriesOf(DefaultGroup), M)
  <2>1. AtLine(s1, {} \cup EntriesOf(DefaultGroup), M, DefaultGroup)
    BY <1>1, <1>3, GroupTurn
  <2>2. {} \cup EntriesOf(DefaultGroup) = EntriesOf(DefaultGroup)
    OBVIOUS
  <2> HIDE DEF s1
  <2>3. QED
    BY <1>1, <2>1, <2>2 DEF AtSome
<1> HIDE DEF s1
<1>5. WriteEntries(M) = top \o FlattenSeq(groups)
  BY DEF WriteEntries
<1>6. \A i \in 1 .. n : /\ done(i) = done(i - 1) \cup EntriesOf(GroupOrder[i])
                        /\ EntriesOf(GroupOrder[i]) \cap done(i - 1) = {}
  <2> SUFFICES ASSUME NEW i \in 1 .. n
               PROVE  /\ done(i) = done(i - 1) \cup EntriesOf(GroupOrder[i])
                      /\ EntriesOf(GroupOrder[i]) \cap done(i - 1) = {}
    OBVIOUS
  <2>1. \A j \in 1 .. n : j \in 1 .. i <=> j \in 1 .. i - 1 \/ j = i
    BY <1>1
  <2>2. /\ \A j \in 1 .. i : j \in 1 .. n
        /\ \A j \in 1 .. i - 1 : j \in 1 .. n /\ j # i
    BY <1>1
  <2>3. \A j \in 1 .. i - 1 : GroupOrder[j] # GroupOrder[i]
    <3>1. Lists(GroupOrder, Groups \ {DefaultGroup}) /\ DOMAIN GroupOrder = 1 .. n
      BY IniAssumption, Orders
    <3>2. QED
      BY <2>2, <3>1, ListsOnce
  <2>4. \A a, b \in Groups : a # b => EntriesOf(a) \cap EntriesOf(b) = {}
    BY DEF EntriesOf
  <2>5. upTo(i) = upTo(i - 1) \cup EntriesOf(GroupOrder[i])
    BY <2>1, <2>2
  <2>6. \A j \in 1 .. i - 1 : EntriesOf(GroupOrder[i]) \cap EntriesOf(GroupOrder[j]) = {}
    BY <1>1, <2>2, <2>3, <2>4
  <2>7. EntriesOf(GroupOrder[i]) \cap EntriesOf(DefaultGroup) = {}
    BY <1>1, <2>4
  <2>8. QED
    BY <2>5, <2>6, <2>7
<1>7. done(0) = EntriesOf(DefaultGroup) /\ done(n) = {k \in EntryKey : k.name # Marker}
  <2>1. \A j : j \notin 1 .. 0
    OBVIOUS
  <2>2. upTo(0) = {}
    BY <2>1
  <2>3. \A h \in Groups : h = DefaultGroup \/ \E j \in 1 .. n : GroupOrder[j] = h
    BY IniAssumption, Orders DEF Lists
  <2>4. \A k \in EntryKey : k.group \in Groups
    BY DEF EntryKey
  <2>5. QED
    BY <1>1, <2>2, <2>3, <2>4 DEF EntriesOf
<1> HIDE DEF groups, S, n, done, upTo
<1>8. PICK c : Passes(c, s1, n, groups, opts)
  BY <1>1, <1>2, EndOfFlatten
<1> DEFINE T == {i \in 0 .. n : AtSome(c[i], done(i), M)}
<1>9. 0 \in T
  <2>1. c[0] = s1 /\ 0 \in 0 .. n
    BY <1>1, <1>8 DEF Passes
  <2>2. QED
    BY <1>4, <1>7, <2>1
<1>10. ASSUME NEW i \in 1 .. n, i - 1 \in T
       PROVE  i \in T
  <2> DEFINE d == done(i - 1)
  <2>1. /\ AtSome(c[i - 1], d, M) /\ EntriesOf(GroupOrder[i]) \cap d = {}
        /\ i \in 1 .. Len(GroupOrder)
    BY <1>6, <1>10 DEF n
  <2>2. d \cup EntriesOf(GroupOrder[i]) = done(i)
    BY <1>6
  <2>3. c[i] = EndOf(c[i - 1], GroupLines(M, i), opts)
    BY <1>2, <1>8 DEF Passes
  <2> HIDE DEF d
  <2>4. AtSome(c[i], d \cup EntriesOf(GroupOrder[i]), M)
    BY <2>1, <2>3, GroupLinesTurn
  <2>5. QED
    BY <1>1, <2>2, <2>4
<1>11. \A i \in 0 .. n : i \in T
  <2> HIDE DEF T
  <2>1. QED
    BY <1>1, <1>9, <1>10, CountUp
<1>12. AtSome(s2, done(n), M)
  <2>1. c[n] = s2 /\ n \in 0 .. n
    BY <1>1, <1>8 DEF Passes
  <2>2. QED
    BY <1>11, <2>1
<1>13. EndOf(s0, WriteEntries(M), opts) = s2
  <2> DEFINE rest == FlattenSeq(groups)
  <2>1. rest \in Seq(S)
    BY <1>1, <1>2, FlattenIsSeq
  <2> HIDE DEF rest, top
  <2>2. EndOf(s0, top \o rest, opts) = EndOf(EndOf(s0, top, opts), rest, opts)
    BY <1>2, <2>1, EndOfConcat
  <2>3. QED
    BY <1>5, <2>2 DEF rest, s1
<1>14. ParseConfig(EmptyMap, WriteEntries(M), opts).map = LockGroups(s2.map, s2.cursor)
  <2>1. ParseConfig(EmptyMap, WriteEntries(M), opts) = AtEnd(s2)
    BY <1>13 DEF ParseConfig, EndOf, s0
  <2> HIDE DEF s2
  <2>2. QED
    BY <2>1 DEF AtEnd
<1> HIDE DEF s2
<1>15. LockGroups(s2.map, s2.cursor) = s2.map
  <2>1. s2.map = [k \in EntryKey |-> s2.map[k]] /\ s2.cursor.immutableGroups = {}
    BY <1>12 DEF AtSome, AtLine, IsRead, OnlyDirty, AtGroup
  <2>2. LockGroups(s2.map, s2.cursor) = [k \in DOMAIN s2.map |-> s2.map[k]]
    BY <2>1 DEF LockGroups
  <2>3. QED
    BY <2>1, <2>2
<1>16. IsRead(s2.map, EntryKey, M)
  <2>1. IsRead(s2.map, done(n), M)
    BY <1>12 DEF AtSome, AtLine
  <2>2. QED
    BY <1>7, <2>1 DEF IsRead
<1>17. QED
  BY <1>14, <1>15, <1>16

\* n has what m has, or nothing, and e in slot k.
KeptBut(n, m, k, e) ==
    \A i \in EntryKey : i.name # Marker => n[i] \in {m[i], NoEntry} \/ (i = k /\ n[i] = e)

\* setEntry() keeps the entries of other slots, or removes them.
LEMMA SetEntryGives ==
    ASSUME NEW m, OnlyDirty(m, EntryKey), NEW k \in EntryKey, NEW v \in Values \cup {NoValue},
           NEW o,
           k.default = FALSE, "Default" \notin o, "Localized" \in o <=> k.local
    PROVE  KeptBut(SetEntry(m, k.group, k.name, v, o), m, k, Stored(m, k, v, o))
<1> SUFFICES ASSUME NEW i \in EntryKey, i.name # Marker
             PROVE  \/ SetEntry(m, k.group, k.name, v, o)[i] \in {m[i], NoEntry}
                    \/ i = k /\ SetEntry(m, k.group, k.name, v, o)[i] = Stored(m, k, v, o)
  BY DEF KeptBut
<1> DEFINE j == Slot(k.group, k.name, "Localized" \in o, "Default" \in o)
           e == Stored(m, j, v, o)
           out == Outcome(m, j, v, o)
           own == Assign(m, j, v, o)
           n == SetEntry(m, k.group, k.name, v, o)
<1>1. j = k
  <2>1. ("Default" \in o) = FALSE /\ ("Localized" \in o) = k.local
    BY DEF EntryKey
  <2>2. k = Slot(k.group, k.name, k.local, FALSE)
    BY DEF Slot, EntryKey
  <2>3. QED
    BY <2>1, <2>2
<1>2. n = DropLocalized(own, j, out)
  <2>1. j.default = FALSE
    BY <1>1
  <2>2. QED
    BY <2>1 DEF SetEntry
<1>3. EnsureMarker(m, j.group)[i] = m[i] /\ DOMAIN EnsureMarker(m, j.group) = EntryKey
  BY DEF EnsureMarker, OnlyDirty, MarkerOf, Slot
<1>4. own \in {m, [m EXCEPT ![j] = e], [EnsureMarker(m, j.group) EXCEPT ![j] = e]}
  BY AssignAsGives DEF Assign
<1>5. DOMAIN m = EntryKey
  BY DEF OnlyDirty
<1>6. e = Stored(m, k, v, o)
  BY <1>1
<1> HIDE DEF own, e, out, j, n
<1>7. DOMAIN own = EntryKey /\ (own[i] = m[i] \/ (i = j /\ own[i] = e))
  BY <1>3, <1>4, <1>5
<1>8. n[i] \in {own[i], NoEntry}
  BY <1>2, <1>7 DEF DropLocalized
<1>9. QED
  BY <1>1, <1>6, <1>7, <1>8 DEF n
=============================================================================
