---------------------------- MODULE KConfigProofs ----------------------------
(***************************************************************************)
(* Proofs about KConfig, for any groups, names and values, any files and   *)
(* any calls.                                                              *)
(***************************************************************************)
EXTENDS KConfig, KConfigIniProofs

-----------------------------------------------------------------------------
(* What is read from files *)

\* What is read behind a file is what the file makes of what was read behind the one before.
LEMMA StagesStep ==
    ASSUME NEW s, NEW seq, NEW opts, Len(seq) \in Nat
    PROVE  /\ Stages(s, seq, opts)[0] = s
           /\ \A i \in 1 .. Len(seq) :
                  Stages(s, seq, opts)[i] = ReadFile(Stages(s, seq, opts)[i - 1], seq[i], opts)
<1> DEFINE Turn(g, i) == IF i = 0 THEN s ELSE ReadFile(g[i - 1], seq[i], opts)
           IsRun(g, n) == g = [i \in 0 .. n |-> Turn(g, i)]
           T == {n \in 0 .. Len(seq) : \E g : IsRun(g, n)}
           p == Stages(s, seq, opts)
<1>1. 0 \in T
  <2> DEFINE g == [i \in 0 .. 0 |-> s]
  <2>1. IsRun(g, 0)
    OBVIOUS
  <2>2. \E q : IsRun(q, 0)
    <3> HIDE DEF IsRun
    <3> QED
      BY <2>1, Zenon
  <2>3. QED
    BY <2>2
<1>2. ASSUME NEW n \in 1 .. Len(seq), n - 1 \in T
      PROVE  n \in T
  <2>1. PICK g : IsRun(g, n - 1)
    BY <1>2
  <2> DEFINE h == [i \in 0 .. n |-> IF i = n THEN ReadFile(g[n - 1], seq[n], opts) ELSE g[i]]
  <2>2. h = [i \in 0 .. n |-> Turn(h, i)]
    <3> SUFFICES ASSUME NEW i \in 0 .. n PROVE h[i] = Turn(h, i)
      OBVIOUS
    <3>1. CASE i = n
      <4>1. h[n] = ReadFile(g[n - 1], seq[n], opts) /\ h[n - 1] = g[n - 1]
        OBVIOUS
      <4>2. QED
        BY <3>1, <4>1
    <3>2. CASE i # n
      <4>1. h[i] = g[i] /\ g[i] = Turn(g, i)
        BY <2>1, <3>2
      <4>2. i # 0 => h[i - 1] = g[i - 1]
        BY <3>2
      <4>3. QED
        BY <4>1, <4>2
    <3>3. QED
      BY <3>1, <3>2
  <2>3. \E q : IsRun(q, n)
    <3>1. IsRun(h, n)
      BY <2>2
    <3> HIDE DEF IsRun, h
    <3>2. QED
      BY <3>1, Zenon
  <2>4. QED
    BY <2>3
<1>3. Len(seq) \in T
  <2> HIDE DEF T
  <2>1. \A i \in 0 .. Len(seq) : i \in T
    BY <1>1, <1>2, CountUp
  <2>2. QED
    BY <2>1
<1>4. IsRun(p, Len(seq))
  <2>1. PICK g : IsRun(g, Len(seq))
    BY <1>3
  <2>2. p = CHOOSE q : IsRun(q, Len(seq))
    BY DEF Stages
  <2> HIDE DEF IsRun, p
  <2>3. QED
    BY <2>1, <2>2, Zenon
<1> HIDE DEF p
<1>5. p[0] = s
  BY <1>4
<1>6. ASSUME NEW i \in 1 .. Len(seq)
      PROVE  p[i] = ReadFile(p[i - 1], seq[i], opts)
  BY <1>4
<1>7. QED
  BY <1>5, <1>6 DEF p

\* A loop over files makes no entry dirty.
LEMMA ReadDirty ==
    ASSUME NEW keys, NEW s, OnlyDirty(s.map, keys), NEW seq \in Seq(Seq(Line)), NEW opts
    PROVE  OnlyDirty(ReadFiles(s, seq, opts).map, keys)
<1> DEFINE p == Stages(s, seq, opts)
           T == {i \in 0 .. Len(seq) : OnlyDirty(p[i].map, keys)}
<1>0. Len(seq) \in Nat /\ \A i \in 1 .. Len(seq) : IsFile(seq[i])
  BY LinesAreFile
<1>1. 0 \in T
  BY <1>0, StagesStep
<1>2. ASSUME NEW i \in 1 .. Len(seq), i - 1 \in T
      PROVE  i \in T
  <2>1. p[i] = ReadFile(p[i - 1], seq[i], opts)
    BY <1>0, StagesStep
  <2> HIDE DEF p
  <2>2. p[i].map \in {p[i - 1].map, ParseConfig(p[i - 1].map, seq[i], opts).map}
    BY <2>1 DEF ReadFile, Parsed
  <2>3. QED
    BY <1>0, <1>2, <2>2, ParseDirty
<1> HIDE DEF p
<1>3. \A i \in 0 .. Len(seq) : i \in T
  <2> HIDE DEF T
  <2>1. QED
    BY <1>0, <1>1, <1>2, CountUp
<1>4. QED
  BY <1>0, <1>3 DEF ReadFiles, p

\* An object that has just read its files has nothing to write.
LEMMA RereadDirty ==
    ASSUME NEW keys, setup \in Setups, NEW fl, NEW extra \in Seq(Seq(Line)),
           NEW local, IsFile(local), NEW global, IsFile(global)
    PROVE  OnlyDirty(Reread(fl, extra, local, global).map, keys)
<1> DEFINE g == ReadSystemGlobals(fl)
           y == ReadSystem(fl, g)
           u == ReadUserGlobals(fl, global, y)
           x == ReadFiles(u, IF fl = {} THEN <<>> ELSE extra, Defaults(FALSE))
<1>0. <<>> \in Seq(Seq(Line))
  OBVIOUS
<1>1. \A flag : /\ WhenSet(fl, flag, setup.systemGlobals) \in Seq(Seq(Line))
                /\ WhenSet(fl, flag, setup.systemFiles) \in Seq(Seq(Line))
  BY <1>0, ConfigAssumption DEF WhenSet
<1>2. OnlyDirty(g.map, keys)
  <2> DEFINE s == [map |-> EmptyMap, immutable |-> FALSE]
             seq == WhenSet(fl, "IncludeGlobals", setup.systemGlobals)
  <2>1. OnlyDirty(s.map, keys) /\ seq \in Seq(Seq(Line))
    BY <1>1, EmptyDirty
  <2>2. g = ReadFiles(s, seq, Defaults(TRUE))
    BY DEF ReadSystemGlobals
  <2> HIDE DEF s, seq, g
  <2>3. QED
    BY <2>1, <2>2, ReadDirty
<1> HIDE DEF g
<1>3. OnlyDirty(y.own.map, keys)
  <2> DEFINE s == [g EXCEPT !.immutable = FALSE]
             seq == WhenSet(fl, "CascadeConfig", setup.systemFiles)
  <2>1. s.map = g.map /\ seq \in Seq(Seq(Line))
    BY <1>1
  <2>2. y.own = ReadFiles(s, seq, Defaults(FALSE))
    BY DEF ReadSystem
  <2> HIDE DEF s, seq, y
  <2>3. QED
    BY <1>2, <2>1, <2>2, ReadDirty
<1> HIDE DEF y
<1>4. OnlyDirty(u.map, keys)
  <2> DEFINE o == y.own
             n == ParseConfig(o.map, global, Own(TRUE)).map
  <2>1. OnlyDirty(n, keys)
    BY <1>3, ParseDirty
  <2>2. u = [o EXCEPT !.map = n] \/ u = o
    BY DEF ReadUserGlobals
  <2>3. [o EXCEPT !.map = n].map \in {n, o.map}
    <3> HIDE DEF n, o
    <3> QED OBVIOUS
  <2> HIDE DEF n
  <2>4. QED
    BY <1>3, <2>1, <2>2, <2>3
<1> HIDE DEF u
<1>5. OnlyDirty(x.map, keys)
  <2> DEFINE seq == IF fl = {} THEN <<>> ELSE extra
  <2>1. seq \in Seq(Seq(Line)) /\ x = ReadFiles(u, seq, Defaults(FALSE))
    BY <1>0
  <2> HIDE DEF seq, x
  <2>2. QED
    BY <1>4, <2>1, ReadDirty
<1> HIDE DEF x
<1>6. OnlyDirty(ParseConfig(x.map, local, Own(FALSE)).map, keys)
  BY <1>5, ParseDirty
<1>7. Reread(fl, extra, local, global) = ReadFile(x, local, Own(FALSE))
  BY DEF Reread, x, u, y, g
<1>8. ReadFile(x, local, Own(FALSE)).map
          \in {x.map, ParseConfig(x.map, local, Own(FALSE)).map}
  BY DEF ReadFile, Parsed
<1>9. QED
  BY <1>5, <1>6, <1>7, <1>8

\* The state of a sync between its files.
IsSync(s) ==
    /\ DOMAIN s = {"map", "dirty", "local", "global", "ok"}
    /\ OnlyDirty(s.map, EntryKey) /\ s.dirty \in BOOLEAN /\ s.ok \in BOOLEAN
    /\ IsFile(s.local) /\ IsFile(s.global)

\* Nothing in m is dirty that was not in n, and what is goes into other files than those of g.
FewerDirty(m, n) == \A k \in EntryKey : Has(m, k) /\ m[k].dirty => m[k] = n[k]
CleanFor(m, g) == \A k \in EntryKey : Has(m, k) /\ m[k].dirty => m[k].global # g

\* A file is only written when it can be merged with, and when it is written, nothing is dirty
\* that had to be.
LEMMA SyncFileGives ==
    ASSUME NEW s, IsSync(s), NEW f \in {"local", "global"}, NEW todo \in BOOLEAN,
           NEW fails \in BOOLEAN
    PROVE  LET r == SyncFile(s, f, todo, fails)
           IN  /\ IsSync(r) /\ FewerDirty(r.map, s.map)
               /\ ~r.dirty => ~s.dirty
               /\ ~r.dirty /\ todo /\ f = "global" => CleanFor(r.map, TRUE)
               /\ ~r.dirty /\ todo /\ f = "local" => CleanFor(r.map, FALSE)
               /\ f # "local" => r.local = s.local
               /\ f # "global" => r.global = s.global
               /\ r.local # s.local => ParseConfig(EmptyMap, s.local, Merging(FALSE)).info = "Ok"
               /\ r.global # s.global => ParseConfig(EmptyMap, s.global, Merging(TRUE)).info = "Ok"
<1> DEFINE g == f = "global"
           file == s[f]
           disk == ParseConfig(EmptyMap, file, Merging(g))
           w == WriteConfig(s.map, file, g)
           ok == w.ok /\ ~fails
           r == SyncFile(s, f, todo, fails)
           after == AfterWrite(s.map, g)
<1>1. w = MergeWith(s.map, file, disk, g)
  BY DEF WriteConfig, Merging
<1>2. /\ OnlyDirty(after, EntryKey) /\ FewerDirty(after, s.map) /\ CleanFor(after, g)
  <2>1. g \in BOOLEAN /\ OnlyDirty(s.map, EntryKey)
    BY DEF IsSync
  <2> HIDE DEF g
  <2>2. QED
    BY <2>1, AfterWriteDirty DEF FewerDirty, CleanFor
<1>3. /\ w.ok \in BOOLEAN
      /\ w.ok => /\ disk.info = "Ok" /\ w.map = after
                 /\ w.file = WriteEntries(Merge(s.map, disk.map, g))
      /\ ~w.ok => w.map = s.map
  <2>1. CASE disk.info = "Ok"
    <3>1. w = [ok |-> TRUE, map |-> after, file |-> WriteEntries(Merge(s.map, disk.map, g))]
      BY <1>1, <2>1 DEF MergeWith
    <3> HIDE DEF w, after, disk
    <3>2. QED
      BY <2>1, <3>1
  <2>2. CASE disk.info # "Ok"
    <3>1. w = [ok |-> FALSE, map |-> s.map, file |-> file]
      BY <1>1, <2>2 DEF MergeWith
    <3> HIDE DEF w
    <3>2. QED
      BY <3>1
  <2>3. QED
    BY <2>1, <2>2
<1>4. w.ok => IsFile(w.file)
  <2>1. IsFile(file) /\ OnlyDirty(s.map, EntryKey)
    BY DEF IsSync
  <2>2. OnlyDirty(disk.map, EntryKey)
    BY <2>1, EmptyDirty, ParseDirty
  <2> HIDE DEF disk, w, g
  <2>3. OnlyDirty(Merge(s.map, disk.map, g), EntryKey)
    BY <2>1, <2>2, MergeDirty
  <2>4. QED
    BY <1>3, <2>3, WrittenIsFile
<1>5. /\ OnlyDirty(w.map, EntryKey) /\ FewerDirty(w.map, s.map)
      /\ w.ok => CleanFor(w.map, g)
  BY <1>2, <1>3 DEF IsSync, FewerDirty
<1>6. ~todo => r = s
  BY DEF SyncFile
<1>7. todo => r = [s EXCEPT !.map = w.map, !.dirty = @ \/ ~ok, !.ok = @ /\ ok,
                            ![f] = IF ok THEN w.file ELSE @]
  BY DEF SyncFile, WrittenTo
<1> HIDE DEF w, r, disk, after
<1>8. CASE ~todo
  BY <1>6, <1>8 DEF FewerDirty, r
<1>9. CASE todo
  <2>1. /\ DOMAIN r = DOMAIN s
        /\ r.map = w.map /\ r.dirty = (s.dirty \/ ~ok) /\ r.ok = (s.ok /\ ok)
    BY <1>7, <1>9 DEF IsSync
  <2>2. /\ r.local = IF f = "local" /\ ok THEN w.file ELSE s.local
        /\ r.global = IF f = "global" /\ ok THEN w.file ELSE s.global
    BY <1>7, <1>9 DEF IsSync
  <2>3. IsSync(r)
    BY <1>3, <1>4, <1>5, <2>1, <2>2 DEF IsSync
  <2>4. ~r.dirty => ~s.dirty /\ w.ok
    BY <2>1 DEF IsSync
  <2>5. r.local # s.local \/ r.global # s.global => disk.info = "Ok"
    BY <1>3, <2>2
  <2>6. /\ r.local # s.local => disk = ParseConfig(EmptyMap, s.local, Merging(FALSE))
        /\ r.global # s.global => disk = ParseConfig(EmptyMap, s.global, Merging(TRUE))
    <3>1. /\ r.local # s.local => file = s.local /\ g = FALSE
          /\ r.global # s.global => file = s.global /\ g = TRUE
      BY <2>2
    <3> HIDE DEF file, g
    <3>2. QED
      BY <3>1 DEF disk
  <2>7. /\ f # "local" => r.local = s.local
        /\ f # "global" => r.global = s.global
    BY <2>2
  <2>8. /\ ~r.dirty /\ f = "global" => CleanFor(r.map, TRUE)
        /\ ~r.dirty /\ f = "local" => CleanFor(r.map, FALSE)
    <3>1. (f = "global" => g = TRUE) /\ (f = "local" => g = FALSE)
      OBVIOUS
    <3> HIDE DEF g
    <3>2. QED
      BY <1>5, <2>1, <2>4, <3>1
  <2>9. FewerDirty(r.map, s.map)
    BY <1>5, <2>1
  <2>10. QED
    BY <2>3, <2>4, <2>5, <2>6, <2>7, <2>8, <2>9 DEF r
<1>10. QED
  BY <1>8, <1>9

\* What is dirty in m waits for nothing, or isDirty() does not tell of it anyway.
NonePending(m, fl) ==
    \A k \in EntryKey :
        Has(m, k) /\ m[k].dirty => m[k].deleted \/ (m[k].global /\ "IncludeGlobals" \notin fl)

ObjectOk ==
    /\ OnlyDirty(entryMap, EntryKey) /\ bDirty \in BOOLEAN
    /\ setup \in Setups /\ extraFiles \in Seq(Seq(Line))
    /\ IsFile(localFile) /\ IsFile(globalFile)

\* A sync, whatever goes wrong in it, leaves bDirty set if anything waits that waited before, and
\* writes only files it can be merged with.
LEMMA SyncGives ==
    ASSUME ObjectOk, NEW t
    PROVE  LET s == SyncEffect(t)
           IN  /\ IsSync(s)
               /\ PendingIsDirty => (~s.dirty => NonePending(s.map, flags))
               /\ s.local # localFile =>
                      ParseConfig(EmptyMap, localFile, Merging(FALSE)).info = "Ok"
               /\ s.global # globalFile =>
                      ParseConfig(EmptyMap, globalFile, Merging(TRUE)).info = "Ok"
<1> DEFINE now == [map |-> entryMap, dirty |-> bDirty, local |-> localFile,
                   global |-> globalFile, ok |-> FALSE]
           clean == [now EXCEPT !.dirty = FALSE, !.ok = TRUE]
           wg == "IncludeGlobals" \in flags /\ Pending(entryMap, TRUE)
           wl == Pending(entryMap, FALSE)
           s1 == SyncFile(clean, "global", wg, "globalWrite" \in t)
           s2 == SyncFile(s1, "local", wl, "localWrite" \in t)
           s == SyncEffect(t)
<1>1. IsSync(now) /\ IsSync(clean)
  BY DEF ObjectOk, IsSync
<1>2. s = now \/ s = [now EXCEPT !.ok = TRUE] \/ s = GiveUp(now) \/ s = s2
  <2>1. s = now \/ s = [now EXCEPT !.ok = TRUE] \/ s = SyncBoth(now, t, wg, wl)
    BY Zenon DEF SyncEffect
  <2>2. SyncBoth(now, t, wg, wl) = GiveUp(now) \/ SyncBoth(now, t, wg, wl) = s2
    BY Zenon DEF SyncBoth
  <2>3. QED
    BY <2>1, <2>2
<1>3. CASE s = now \/ s = [now EXCEPT !.ok = TRUE]
  <2>1. /\ s.map = entryMap /\ s.dirty = bDirty /\ s.local = localFile
        /\ s.global = globalFile /\ s.ok \in BOOLEAN
        /\ DOMAIN s = {"map", "dirty", "local", "global", "ok"}
    <3> DEFINE P(r) == /\ r.map = entryMap /\ r.dirty = bDirty /\ r.local = localFile
                       /\ r.global = globalFile /\ r.ok \in BOOLEAN
                       /\ DOMAIN r = {"map", "dirty", "local", "global", "ok"}
    <3>1. P(now)
      OBVIOUS
    <3>2. P([now EXCEPT !.ok = TRUE])
      OBVIOUS
    <3>3. P(s)
      <4> HIDE DEF P, now
      <4>1. QED
        BY <1>3, <3>1, <3>2
    <3>4. QED
      BY <3>3
  <2> HIDE DEF s
  <2>2. IsSync(s)
    BY <2>1 DEF IsSync, ObjectOk
  <2>3. PendingIsDirty => (~s.dirty => NonePending(s.map, flags))
    BY <2>1 DEF PendingIsDirty, NonePending
  <2>4. QED
    BY <2>1, <2>2, <2>3 DEF s
<1>4. CASE s = GiveUp(now)
  BY <1>1, <1>4 DEF GiveUp, IsSync
<1>5. CASE s = s2
  <2>0. /\ clean.map = entryMap /\ clean.local = localFile /\ clean.global = globalFile
        /\ wg \in BOOLEAN /\ wl \in BOOLEAN
        /\ ("globalWrite" \in t) \in BOOLEAN /\ ("localWrite" \in t) \in BOOLEAN
    BY DEF Pending
  <2> HIDE DEF clean, now, wg, wl
  <2>1. /\ IsSync(s1) /\ FewerDirty(s1.map, entryMap)
        /\ ~s1.dirty /\ wg => CleanFor(s1.map, TRUE)
        /\ s1.local = localFile
        /\ s1.global # globalFile =>
               ParseConfig(EmptyMap, globalFile, Merging(TRUE)).info = "Ok"
    <3> DEFINE fails == "globalWrite" \in t
    <3>1. IsSync(clean) /\ wg \in BOOLEAN /\ fails \in BOOLEAN
      BY <1>1, <2>0
    <3> HIDE DEF fails
    <3>2. s1 = SyncFile(clean, "global", wg, fails)
      BY DEF fails
    <3> HIDE DEF s1
    <3>3. /\ IsSync(s1) /\ FewerDirty(s1.map, clean.map)
          /\ ~s1.dirty /\ wg => CleanFor(s1.map, TRUE)
          /\ s1.local = clean.local
          /\ s1.global # clean.global =>
                 ParseConfig(EmptyMap, clean.global, Merging(TRUE)).info = "Ok"
      BY <3>1, <3>2, SyncFileGives
    <3>4. QED
      BY <2>0, <3>3
  <2> HIDE DEF s1
  <2>2. /\ IsSync(s2) /\ FewerDirty(s2.map, s1.map)
        /\ ~s2.dirty => ~s1.dirty
        /\ ~s2.dirty /\ wl => CleanFor(s2.map, FALSE)
        /\ s2.global = s1.global
        /\ s2.local # s1.local => ParseConfig(EmptyMap, s1.local, Merging(FALSE)).info = "Ok"
    <3> DEFINE fails == "localWrite" \in t
    <3>1. IsSync(s1) /\ wl \in BOOLEAN /\ fails \in BOOLEAN
      BY <2>0, <2>1
    <3> HIDE DEF fails
    <3>2. s2 = SyncFile(s1, "local", wl, fails)
      BY DEF fails
    <3> HIDE DEF s2
    <3>3. QED
      BY <3>1, <3>2, SyncFileGives
  <2> HIDE DEF s2
  <2>3. ASSUME ~s2.dirty
        PROVE  NonePending(s2.map, flags)
    <3> SUFFICES ASSUME NEW k \in EntryKey, Has(s2.map, k), s2.map[k].dirty
                 PROVE  s2.map[k].global /\ "IncludeGlobals" \notin flags
      BY DEF NonePending
    <3> DEFINE e == entryMap[k]
    <3>1. s2.map[k] = s1.map[k] /\ Has(s1.map, k) /\ s1.map[k].dirty
      BY <2>2 DEF FewerDirty, Has
    <3>2. s1.map[k] = e /\ Has(entryMap, k) /\ e.dirty /\ e.global \in BOOLEAN
      BY <2>1, <3>1 DEF FewerDirty, Has, ObjectOk, OnlyDirty, IsKEntry, Entry
    <3>3. e.global = FALSE => wl
      BY <3>2 DEF wl, Pending
    <3>4. e.global = TRUE /\ "IncludeGlobals" \in flags => wg
      BY <3>2 DEF wg, Pending
    <3>5. wl => e.global # FALSE
      BY <2>2, <2>3, <3>1, <3>2 DEF CleanFor
    <3>6. wg => e.global # TRUE
      BY <2>1, <2>2, <2>3, <3>1, <3>2 DEF CleanFor
    <3>7. QED
      BY <3>1, <3>2, <3>3, <3>4, <3>5, <3>6
  <2>4. QED
    BY <1>5, <2>1, <2>2, <2>3
<1>6. QED
  BY <1>2, <1>3, <1>4, <1>5

-----------------------------------------------------------------------------
(* What the calls leave dirty *)

\* A call for which isDirty() does not change leaves nothing that waits but what did before.
LEMMA QuietSet ==
    ASSUME NEW m, OnlyDirty(m, EntryKey), NEW g \in Groups, NEW n \in Names, NEW v, NEW o,
           "Default" \notin o, ~SetEntryDirties(m, g, n, v, o), NEW k \in EntryKey
    PROVE  LET m2 == SetEntry(m, g, n, v, o)
           IN  m2[k] = m[k] \/ ~Has(m2, k) \/ m2[k] = FreshEntry \/ m2[k].deleted
<1> DEFINE j == Slot(g, n, "Localized" \in o, "Default" \in o)
           e == Stored(m, j, v, o)
           out == Outcome(m, j, v, o)
           own == Assign(m, j, v, o)
           m2 == SetEntry(m, g, n, v, o)
<1>1. ~j.default
  BY DEF Slot
<1>2. m2 = DropLocalized(own, j, out)
  BY <1>1 DEF SetEntry
<1>3. out \notin {"inserted", "changed"}
  BY DEF SetEntryDirties
<1>4. out = "insertedDeleted" => e.deleted
  BY DEF Outcome, OutcomeOf
<1>5. CASE out = "insertedDeleted"
  <2>1. own = [EnsureMarker(m, j.group) EXCEPT ![j] = e]
    BY <1>5, Zenon DEF Assign, AssignAs
  <2>2. m2 = own
    BY <1>2, <1>5 DEF DropLocalized
  <2>3. /\ EnsureMarker(m, j.group)[k] \in {m[k], FreshEntry}
        /\ DOMAIN EnsureMarker(m, j.group) = EntryKey
    BY DEF EnsureMarker, OnlyDirty
  <2> HIDE DEF e, own, m2, j, out
  <2>4. k # j => m2[k] = EnsureMarker(m, j.group)[k]
    BY <2>1, <2>2, <2>3
  <2>5. k = j => m2[k] = e
    BY <2>1, <2>2, <2>3
  <2>6. QED
    BY <1>4, <1>5, <2>3, <2>4, <2>5 DEF m2
<1>6. CASE out # "insertedDeleted"
  <2>1. own = m
    BY <1>3, <1>6 DEF Assign, AssignAs
  <2> HIDE DEF own, j, out, e
  <2>2. QED
    BY <1>2, <2>1 DEF DropLocalized, OnlyDirty, Has
<1>7. QED
  BY <1>5, <1>6

\* putData() makes no entry of another key dirty, and leaves bDirty set if one waits that did not.
LEMMA PutQuiet ==
    ASSUME NEW m, OnlyDirty(m, EntryKey), NEW g \in Groups, NEW n \in Names, NEW v,
           NEW o \in AppOptions, "Dirty" \in o, ~PutDirties(m, g, n, v, o),
           NEW fl, NonePending(m, fl)
    PROVE  NonePending(PutMap(m, g, n, v, o), fl)
<1> DEFINE p == PutOptions(v, o)
           m2 == SetEntry(m, g, n, v, p)
<1>1. "Default" \notin p /\ ~SetEntryDirties(m, g, n, v, p)
  BY DEF PutDirties, PutOptions, AppOptions, When
<1> HIDE DEF p
<1>2. \A k \in EntryKey : m2[k] = m[k] \/ ~Has(m2, k) \/ m2[k] = FreshEntry \/ m2[k].deleted
  BY <1>1, QuietSet
<1> HIDE DEF m2
<1>3. NonePending(m2, fl)
  BY <1>2, FreshIsKEntry DEF NonePending, Has
<1>4. QED
  BY <1>3 DEF PutMap, m2, p

\* putData() leaves a map of entries.
LEMMA PutDirty ==
    ASSUME NEW m, OnlyDirty(m, EntryKey), NEW g, NEW n, NEW v \in Values \cup {NoValue}, NEW o,
           \A l, d \in BOOLEAN : Slot(g, n, l, d) \in EntryKey
    PROVE  OnlyDirty(PutMap(m, g, n, v, o), EntryKey)
BY SetEntryDirty DEF PutMap, SlotsFor

\* deleteGroupImpl() leaves a map of entries.
LEMMA DeleteGroupDirty ==
    ASSUME NEW m, OnlyDirty(m, EntryKey), NEW i, NEW g, NEW o
    PROVE  OnlyDirty(DeleteGroupMap(m, i, g, o), EntryKey)
<1> DEFINE del(k) == SetEntry(m, k.group, k.name, NoValue, o \cup {"Deleted"})
           m2 == DeleteGroupMap(m, i, g, o)
<1>1. ASSUME NEW k \in EntryKey
      PROVE  OnlyDirty(del(k), EntryKey)
  <2>1. SlotsFor(k.group, k.name) \subseteq EntryKey
    BY DEF SlotsFor, Slot, EntryKey
  <2>2. QED
    BY <2>1, SetEntryDirty
<1>2. m2 = [k \in EntryKey |-> m2[k]] /\ \A k \in EntryKey : m2[k] \in {del(k)[k], m[k]}
  BY DEF DeleteGroupMap
<1> HIDE DEF m2
<1>3. \A k \in EntryKey : Has(del(k), k) => IsKEntry(del(k)[k])
  BY <1>1 DEF OnlyDirty
<1> HIDE DEF del
<1>4. QED
  BY <1>2, <1>3 DEF OnlyDirty, Has, m2

\* revertEntry() leaves a map of entries.
LEMMA RevertDirty ==
    ASSUME NEW m, OnlyDirty(m, EntryKey), NEW g, NEW n, NEW o
    PROVE  OnlyDirty(RevertEntry(m, g, n, o), EntryKey)
<1> DEFINE k == Slot(g, n, FALSE, FALSE)
           d == Slot(g, n, FALSE, TRUE)
           base == IF Has(m, d) THEN m[d] ELSE [m[k] EXCEPT !.value = NoValue]
           e == [base EXCEPT !.notify = base.notify \/ "Notify" \in o,
                             !.dirty = TRUE, !.reverted = TRUE]
<1>1. CASE ~RevertDirties(m, g, n)
  BY <1>1 DEF RevertEntry
<1>2. CASE RevertDirties(m, g, n)
  <2>1. Has(m, k) /\ RevertEntry(m, g, n, o) = [m EXCEPT ![k] = e]
    BY <1>2 DEF RevertEntry, RevertDirties
  <2>2. k \in EntryKey => IsKEntry(e)
    <3> SUFFICES ASSUME k \in EntryKey PROVE IsKEntry(e)
      OBVIOUS
    <3>1. d \in EntryKey
      BY DEF Slot, EntryKey
    <3>2. IsKEntry(base)
      <4>1. IsKEntry(m[k]) /\ (Has(m, d) => IsKEntry(m[d]))
        BY <2>1, <3>1 DEF OnlyDirty
      <4>2. ASSUME NEW old, IsKEntry(old)
            PROVE  IsKEntry([old EXCEPT !.value = NoValue])
        BY <4>2 DEF IsKEntry, Entry
      <4> HIDE DEF k, d
      <4>3. QED
        BY <4>1, <4>2
    <3> HIDE DEF base
    <3>3. QED
      BY <3>2 DEF IsKEntry, Entry
  <2> HIDE DEF e, k
  <2>3. OnlyDirty([m EXCEPT ![k] = e], EntryKey)
    BY <2>2 DEF OnlyDirty, Has
  <2>4. QED
    BY <2>1, <2>3
<1>3. QED
  BY <1>1, <1>2

\* markAsClean() leaves a map of entries of which none is dirty.
LEMMA CleanDirty ==
    ASSUME NEW m, OnlyDirty(m, EntryKey)
    PROVE  OnlyDirty(CleanEntries(m), {})
<1>1. CleanEntries(m) = [k \in EntryKey |-> IF Has(m, k) THEN [m[k] EXCEPT !.dirty = FALSE,
                                                                           !.notify = FALSE]
                                            ELSE NoEntry]
  BY DEF CleanEntries, OnlyDirty
<1>2. ASSUME NEW e, IsKEntry(e)
      PROVE  /\ IsKEntry([e EXCEPT !.dirty = FALSE, !.notify = FALSE])
             /\ ~[e EXCEPT !.dirty = FALSE, !.notify = FALSE].dirty
  BY <1>2 DEF IsKEntry, Entry
<1>3. QED
  BY <1>1, <1>2 DEF OnlyDirty, Has

-----------------------------------------------------------------------------
(* Every step *)

\* The calls that write: the rest of an application's calls.
AppCall ==
    \E key \in Touched, o \in setup.writeOptions :
        \/ \E v \in Values : WriteEntry(key[1], key[2], v, o)
        \/ DeleteEntry(key[1], key[2], o)
        \/ RevertToDefault(key[1], key[2], o)
        \/ DeleteGroup(key[1], o)

\* The steps that sync, with what comes of it.
SyncStep(t) ==
    \/ Sync(t)
    \/ Reparse(t)
    \/ \E file \in setup.extraFiles : AddConfigSources(file, t)

\* A key that is touched is one of a slot.
LEMMA TouchedType ==
    ASSUME NEW key \in Touched
    PROVE  /\ key[1] \in Groups /\ key[2] \in Names
           /\ \A l, d \in BOOLEAN : Slot(key[1], key[2], l, d) \in EntryKey
BY ConfigAssumption, IniAssumption DEF Slot, EntryKey

\* Each call is one of these to memory: a write, or a revert, or a deletion of a group.
LEMMA AppCallGives ==
    ASSUME ObjectOk, AppCall
    PROVE  /\ OnlyDirty(entryMap', EntryKey) /\ bDirty' \in BOOLEAN
           /\ UNCHANGED <<setup, extraFiles, files, theirs>>
           /\ (\A o \in setup.writeOptions : "Dirty" \in o) =>
                  \A fl : bDirty' \/ (bDirty = FALSE /\ (NonePending(entryMap, fl)
                                                            => NonePending(entryMap', fl)))
<1>1. PICK key \in Touched, o \in setup.writeOptions :
          \/ \E v \in Values : WriteEntry(key[1], key[2], v, o)
          \/ DeleteEntry(key[1], key[2], o)
          \/ RevertToDefault(key[1], key[2], o)
          \/ DeleteGroup(key[1], o)
  BY DEF AppCall
<1> DEFINE g == key[1]
           n == key[2]
<1>2. /\ g \in Groups /\ n \in Names /\ \A l, d \in BOOLEAN : Slot(g, n, l, d) \in EntryKey
      /\ o \in AppOptions
      /\ OnlyDirty(entryMap, EntryKey) /\ bDirty \in BOOLEAN
  BY TouchedType, ConfigAssumption DEF ObjectOk
<1>3. UNCHANGED <<setup, extraFiles, files, theirs>>
  BY <1>1 DEF WriteEntry, DeleteEntry, PutData, RevertToDefault, DeleteGroup, Call
<1> HIDE DEF g, n
<1>4. ASSUME NEW v \in Values \cup {NoValue}, PutData(g, n, v, o)
      PROVE  /\ OnlyDirty(entryMap', EntryKey) /\ bDirty' \in BOOLEAN
             /\ "Dirty" \in o =>
                    \A fl : bDirty' \/ (bDirty = FALSE /\ (NonePending(entryMap, fl)
                                                              => NonePending(entryMap', fl)))
  <2>1. /\ entryMap' = PutMap(entryMap, g, n, v, o)
        /\ bDirty' = (bDirty \/ PutDirties(entryMap, g, n, v, o))
    BY <1>4 DEF PutData
  <2>2. PutDirties(entryMap, g, n, v, o) \in BOOLEAN
    BY DEF PutDirties
  <2>3. OnlyDirty(entryMap', EntryKey)
    BY <1>2, <2>1, PutDirty
  <2>4. ASSUME "Dirty" \in o, NEW fl, ~bDirty', NonePending(entryMap, fl)
        PROVE  NonePending(entryMap', fl)
    BY <1>2, <2>1, <2>4, PutQuiet
  <2>5. QED
    BY <1>2, <2>1, <2>2, <2>3, <2>4
<1>5. ASSUME RevertToDefault(g, n, o)
      PROVE  /\ OnlyDirty(entryMap', EntryKey) /\ bDirty' \in BOOLEAN
             /\ bDirty' \/ (bDirty = FALSE /\ entryMap' = entryMap)
  <2>1. /\ entryMap' = RevertEntry(entryMap, g, n, o)
        /\ bDirty' = (bDirty \/ RevertDirties(entryMap, g, n))
    BY <1>5 DEF RevertToDefault
  <2>2. RevertDirties(entryMap, g, n) \in BOOLEAN
    BY <1>2 DEF RevertDirties
  <2>3. ~RevertDirties(entryMap, g, n) => RevertEntry(entryMap, g, n, o) = entryMap
    BY DEF RevertEntry
  <2>4. QED
    BY <1>2, <2>1, <2>2, <2>3, RevertDirty
<1>6. ASSUME DeleteGroup(g, o)
      PROVE  /\ OnlyDirty(entryMap', EntryKey) /\ bDirty' \in BOOLEAN
             /\ bDirty' \/ (bDirty = FALSE /\ entryMap' = entryMap)
  <2>1. /\ entryMap' = DeleteGroupMap(entryMap, bFileImmutable, g, o)
        /\ bDirty' = (bDirty \/ DeleteGroupDirties(entryMap, bFileImmutable, g))
    BY <1>6 DEF DeleteGroup
  <2>2. DeleteGroupDirties(entryMap, bFileImmutable, g) \in BOOLEAN
    BY DEF DeleteGroupDirties
  <2>3. ASSUME ~DeleteGroupDirties(entryMap, bFileImmutable, g)
        PROVE  DeleteGroupMap(entryMap, bFileImmutable, g, o) = entryMap
    <3>1. Deletable(entryMap, bFileImmutable, g) = {}
      BY <2>3 DEF DeleteGroupDirties
    <3>2. DeleteGroupMap(entryMap, bFileImmutable, g, o) = [k \in EntryKey |-> entryMap[k]]
      BY <3>1 DEF DeleteGroupMap
    <3>3. QED
      BY <1>2, <3>2 DEF OnlyDirty
  <2>4. QED
    BY <1>2, <2>1, <2>2, <2>3, DeleteGroupDirty
<1>7. QED
  <2>1. CASE \E v \in Values : WriteEntry(g, n, v, o)
    BY <1>3, <1>4, <2>1 DEF WriteEntry
  <2>2. CASE DeleteEntry(g, n, o)
    BY <1>3, <1>4, <2>2 DEF DeleteEntry
  <2>3. CASE RevertToDefault(g, n, o)
    BY <1>3, <1>5, <2>3
  <2>4. CASE DeleteGroup(g, o)
    BY <1>3, <1>6, <2>4
  <2>5. QED
    BY <1>1, <2>1, <2>2, <2>3, <2>4 DEF g, n

\* A step that syncs leaves the files, and bDirty, of the sync, and its map or one that was read
\* from those files.
LEMMA SyncStepGives ==
    ASSUME ObjectOk, NEW t, SyncStep(t)
    PROVE  LET s == SyncEffect(t)
           IN  /\ localFile' = s.local /\ globalFile' = s.global /\ bDirty' = s.dirty
               /\ entryMap' = s.map \/ OnlyDirty(entryMap', {})
               /\ extraFiles' \in Seq(Seq(Line))
               /\ UNCHANGED <<setup, theirs>>
<1> DEFINE s == SyncEffect(t)
<1>1. IsSync(s)
  BY SyncGives
<1> HIDE DEF s
<1>2. IsFile(s.local) /\ IsFile(s.global)
  BY <1>1 DEF IsSync
<1>3. CASE Sync(t)
  BY <1>3 DEF Sync, SyncFiles, ObjectOk, s
<1>4. CASE Reparse(t)
  <2>1. /\ localFile' = s.local /\ globalFile' = s.global /\ bDirty' = s.dirty
        /\ entryMap' = Reread(flags, extraFiles, s.local, s.global).map
        /\ UNCHANGED <<setup, extraFiles, theirs>>
    BY <1>4 DEF Reparse, SyncFiles, Load, s
  <2>2. OnlyDirty(entryMap', {})
    BY <1>2, <2>1, RereadDirty DEF ObjectOk
  <2>3. QED
    BY <2>1, <2>2 DEF ObjectOk, s
<1>5. CASE \E file \in setup.extraFiles : AddConfigSources(file, t)
  <2>1. PICK file \in setup.extraFiles : AddConfigSources(file, t)
    BY <1>5
  <2>2. /\ localFile' = s.local /\ globalFile' = s.global /\ bDirty' = s.dirty
        /\ extraFiles' = Append(extraFiles, file)
        /\ entryMap' = Reread(flags, extraFiles', s.local, s.global).map
        /\ UNCHANGED <<setup, theirs>>
    BY <2>1 DEF AddConfigSources, SyncFiles, Load, s
  <2>3. extraFiles' \in Seq(Seq(Line))
    <3>1. file \in Seq(Line) /\ extraFiles \in Seq(Seq(Line))
      BY ConfigAssumption DEF ObjectOk
    <3>2. QED
      BY <2>2, <3>1
  <2>4. OnlyDirty(entryMap', {})
    BY <1>2, <2>2, <2>3, RereadDirty DEF ObjectOk
  <2>5. QED
    BY <2>2, <2>3, <2>4 DEF s
<1>6. QED
  BY <1>3, <1>4, <1>5 DEF SyncStep

\* Memory, files and flags are of their kinds.
LEMMA ObjectInvariant == Spec => []ObjectOk
<1>1. Init => ObjectOk
  <2> SUFFICES ASSUME Init PROVE ObjectOk
    OBVIOUS
  <2>1. /\ setup \in Setups /\ extraFiles = <<>> /\ bDirty = FALSE
        /\ localFile \in setup.localFiles /\ globalFile \in setup.globalFiles
        /\ entryMap = Reread(flags, <<>>, localFile, globalFile).map
    BY DEF Init
  <2>2. localFile \in Seq(Line) /\ globalFile \in Seq(Line)
    BY <2>1, ConfigAssumption
  <2>3. IsFile(localFile) /\ IsFile(globalFile)
    BY <2>2, LinesAreFile
  <2>4. <<>> \in Seq(Seq(Line))
    OBVIOUS
  <2>5. OnlyDirty(entryMap, EntryKey)
    BY <2>1, <2>3, <2>4, RereadDirty
  <2>6. QED
    BY <2>1, <2>3, <2>4, <2>5 DEF ObjectOk
<1>2. ASSUME ObjectOk, [Next]_vars
      PROVE  ObjectOk'
  <2>1. CASE AppCall
    <3>1. /\ OnlyDirty(entryMap', EntryKey) /\ bDirty' \in BOOLEAN
          /\ UNCHANGED <<setup, extraFiles, files, theirs>>
      BY <1>2, <2>1, AppCallGives
    <3>2. QED
      BY <1>2, <3>1 DEF ObjectOk, files
  <2>2. CASE MarkAsClean
    <3>1. OnlyDirty(entryMap', {})
      BY <1>2, <2>2, CleanDirty DEF MarkAsClean, ObjectOk
    <3>2. OnlyDirty(entryMap', EntryKey)
      BY <3>1 DEF OnlyDirty
    <3>3. QED
      BY <1>2, <2>2, <3>2 DEF MarkAsClean, Call, ObjectOk, files
  <2>3. CASE \E t : SyncStep(t)
    <3>1. PICK t : SyncStep(t)
      BY <2>3
    <3> DEFINE s == SyncEffect(t)
    <3>2. IsSync(s)
      BY <1>2, SyncGives
    <3>3. /\ localFile' = s.local /\ globalFile' = s.global /\ bDirty' = s.dirty
          /\ entryMap' = s.map \/ OnlyDirty(entryMap', {})
          /\ extraFiles' \in Seq(Seq(Line))
          /\ UNCHANGED <<setup, theirs>>
      BY <1>2, <3>1, SyncStepGives
    <3> HIDE DEF s
    <3>4. OnlyDirty(entryMap', EntryKey)
      BY <3>2, <3>3 DEF IsSync, OnlyDirty
    <3>5. QED
      BY <1>2, <3>2, <3>3, <3>4 DEF ObjectOk, IsSync
  <2>4. CASE OtherProgram
    <3>1. /\ localFile' \in setup.localFiles \cup {localFile}
          /\ globalFile' \in setup.globalFiles \cup {globalFile}
          /\ UNCHANGED <<object, setup, extraFiles>>
      BY <2>4 DEF OtherProgram
    <3>2. \A file \in setup.localFiles \cup setup.globalFiles : file \in Seq(Line)
      BY <1>2, ConfigAssumption DEF ObjectOk
    <3>3. \A file \in Seq(Line) : IsFile(file)
      BY LinesAreFile
    <3>4. IsFile(localFile') /\ IsFile(globalFile')
      BY <1>2, <3>1, <3>2, <3>3 DEF ObjectOk
    <3>5. QED
      BY <1>2, <3>1, <3>4 DEF ObjectOk, object
  <2>5. CASE UNCHANGED vars
    BY <1>2, <2>5 DEF ObjectOk, vars, object, files
  <2>6. QED
    BY <1>2, <2>1, <2>2, <2>3, <2>4, <2>5 DEF Next, AppCall, SyncStep
<1>3. QED
  BY <1>1, <1>2, PTL DEF Spec

-----------------------------------------------------------------------------
(* What waits is told of *)

\* The application calls with Persistent.  A value that is written without it over a deletion that
\* waits is dirty from then on, and bDirty does not tell of it: the deletion of a key that was not
\* there did not set it.
Persistent == \A o \in setup.writeOptions : "Dirty" \in o

\* A change that waits for a sync is one isDirty() tells of, as long as the application calls with
\* Persistent: through every call, every sync that goes wrong at any point, and every parse.
THEOREM PendingAlwaysTold == Spec => [](Persistent => PendingIsDirty)
<1> DEFINE Inv == Persistent => PendingIsDirty
<1>1. PendingIsDirty <=> (~bDirty => NonePending(entryMap, flags))
  BY DEF PendingIsDirty, NonePending
<1>2. Init => Inv
  <2> SUFFICES ASSUME Init PROVE PendingIsDirty
    OBVIOUS
  <2>1. /\ setup \in Setups /\ localFile \in setup.localFiles /\ globalFile \in setup.globalFiles
        /\ entryMap = Reread(flags, <<>>, localFile, globalFile).map
    BY DEF Init
  <2>2. localFile \in Seq(Line) /\ globalFile \in Seq(Line)
    BY <2>1, ConfigAssumption
  <2>3. IsFile(localFile) /\ IsFile(globalFile)
    BY <2>2, LinesAreFile
  <2>4. <<>> \in Seq(Seq(Line))
    OBVIOUS
  <2>5. OnlyDirty(entryMap, {})
    BY <2>1, <2>3, <2>4, RereadDirty
  <2>6. QED
    BY <1>1, <2>5 DEF OnlyDirty, NonePending
<1>3. ASSUME ObjectOk, Inv, [Next]_vars
      PROVE  Inv'
  <2>0. Persistent' => Persistent
    <3>1. UNCHANGED setup
      BY <1>3 DEF Next, WriteEntry, DeleteEntry, PutData, RevertToDefault, DeleteGroup, MarkAsClean,
                  Call, Sync, Reparse, AddConfigSources, OtherProgram, vars
    <3>2. QED
      BY <3>1 DEF Persistent
  <2> SUFFICES ASSUME Persistent, ~bDirty' PROVE NonePending(entryMap', flags')
    BY <2>0 DEF PendingIsDirty, NonePending
  <2>1. ~bDirty => NonePending(entryMap, flags)
    BY <1>1, <1>3
  <2>2. CASE AppCall
    <3>1. UNCHANGED setup
      BY <1>3, <2>2, AppCallGives
    <3>2. bDirty = FALSE /\ (NonePending(entryMap, flags) => NonePending(entryMap', flags))
      BY <1>3, <2>2, AppCallGives DEF Persistent
    <3>3. QED
      BY <2>1, <3>1, <3>2 DEF flags
  <2>3. CASE MarkAsClean
    <3>1. OnlyDirty(entryMap', {})
      BY <1>3, <2>3, CleanDirty DEF MarkAsClean, ObjectOk
    <3>2. QED
      BY <3>1 DEF OnlyDirty, NonePending
  <2>4. CASE \E t : SyncStep(t)
    <3>1. PICK t : SyncStep(t)
      BY <2>4
    <3> DEFINE s == SyncEffect(t)
    <3>2. ~s.dirty => NonePending(s.map, flags)
      BY <1>3, SyncGives
    <3>3. /\ bDirty' = s.dirty /\ UNCHANGED setup
          /\ entryMap' = s.map \/ OnlyDirty(entryMap', {})
      BY <1>3, <3>1, SyncStepGives
    <3> HIDE DEF s
    <3>4. CASE entryMap' = s.map
      BY <3>2, <3>3, <3>4 DEF flags
    <3>5. CASE OnlyDirty(entryMap', {})
      BY <3>5 DEF OnlyDirty, NonePending
    <3>6. QED
      BY <3>3, <3>4, <3>5
  <2>5. CASE OtherProgram \/ UNCHANGED vars
    <3>1. UNCHANGED <<object, setup>>
      BY <2>5 DEF OtherProgram, vars
    <3>2. QED
      BY <2>1, <3>1 DEF object, flags
  <2>6. QED
    BY <1>3, <2>2, <2>3, <2>4, <2>5 DEF Next, AppCall, SyncStep
<1>4. QED
  BY <1>2, <1>3, ObjectInvariant, PTL DEF Spec

-----------------------------------------------------------------------------
(* What a call changes is told of *)

\* What a key reads as depends on two of its slots.
LEMMA ReadsFrom ==
    ASSUME NEW m, NEW m2, NEW t,
           m2[Slot(t[1], t[2], TRUE, FALSE)] = m[Slot(t[1], t[2], TRUE, FALSE)],
           m2[Slot(t[1], t[2], FALSE, FALSE)] = m[Slot(t[1], t[2], FALSE, FALSE)]
    PROVE  Reads(m2, t) = Reads(m, t)
BY DEF Reads, GetEntry, FindEntry, Has

\* The value that an unlocalized call writes without dirtying anything reads as it did.
LEMMA QuietReads ==
    ASSUME NEW m, OnlyDirty(m, EntryKey), NEW g \in Groups, NEW n \in Names, NEW v, NEW o,
           "Default" \notin o, "Localized" \notin o, ~SetEntryDirties(m, g, n, v, o)
    PROVE  Reads(SetEntry(m, g, n, v, o), <<g, n>>) = Reads(m, <<g, n>>)
<1> DEFINE j == Slot(g, n, "Localized" \in o, "Default" \in o)
           j0 == Slot(g, n, FALSE, FALSE)
           jl == Slot(g, n, TRUE, FALSE)
           e == Stored(m, j, v, o)
           out == Outcome(m, j, v, o)
           own == Assign(m, j, v, o)
           m2 == SetEntry(m, g, n, v, o)
           t == <<g, n>>
<1>1. /\ j = j0 /\ j0 # jl /\ j0 \in EntryKey /\ jl \in EntryKey
      /\ ~j.default /\ ~j.local /\ j.group = g /\ j.name = n
      /\ MarkerOf(g) # j0 /\ MarkerOf(g) # jl
  <2>1. ("Localized" \in o) = FALSE /\ ("Default" \in o) = FALSE
    OBVIOUS
  <2>2. j = j0
    BY <2>1
  <2>3. /\ j0.group = g /\ j0.name = n /\ ~j0.local /\ ~j0.default
        /\ jl.local /\ jl.name = n /\ MarkerOf(g).name = Marker
    BY DEF Slot, MarkerOf
  <2>4. j0 \in EntryKey /\ jl \in EntryKey
    BY DEF Slot, EntryKey
  <2> HIDE DEF j, j0, jl
  <2>5. QED
    BY <2>2, <2>3, <2>4, SentinelAssumption
<1>2. m2 = DropLocalized(own, j, out)
  BY <1>1 DEF SetEntry
<1>3. out \notin {"inserted", "changed"}
  BY DEF SetEntryDirties
<1>4. CASE out = "insertedDeleted"
  <2>1. e.deleted /\ ~Has(m, j)
    BY <1>4 DEF Outcome, OutcomeOf
  <2>2. own = [EnsureMarker(m, g) EXCEPT ![j] = e]
    BY <1>1, <1>4, Zenon DEF Assign, AssignAs
  <2>3. m2 = own
    BY <1>2, <1>4 DEF DropLocalized
  <2>4. EnsureMarker(m, g)[jl] = m[jl] /\ DOMAIN EnsureMarker(m, g) = EntryKey
    BY <1>1 DEF EnsureMarker, OnlyDirty
  <2> HIDE DEF e, own, m2, j, j0, jl
  <2>5. m2[j0] = e /\ m2[jl] = m[jl]
    BY <1>1, <2>2, <2>3, <2>4
  <2>6. ~Has(m, j0)
    BY <1>1, <2>1
  <2>7. Reads(m, t) = IF Has(m, jl) THEN IF m[jl].deleted THEN NoValue ELSE m[jl].value
                      ELSE NoValue
    BY <2>6 DEF Reads, GetEntry, FindEntry, j0, jl, Has
  <2>8. Reads(m2, t) = IF Has(m2, jl) THEN IF m2[jl].deleted THEN NoValue ELSE m2[jl].value
                       ELSE NoValue
    BY <2>1, <2>5 DEF Reads, GetEntry, FindEntry, j0, jl, Has
  <2>9. QED
    BY <2>5, <2>7, <2>8 DEF Has, m2
<1>5. CASE out = "unchanged"
  <2>1. own = m
    BY <1>5 DEF Assign, AssignAs
  <2>2. ~Has(m, jl)
    BY <1>1, <1>5 DEF SetEntryDirties
  <2>3. m2[jl] = NoEntry /\ m2[j0] = m[j0]
    BY <1>1, <1>2, <1>5, <2>1 DEF DropLocalized, OnlyDirty, Slot
  <2> HIDE DEF m2
  <2>4. Reads(m2, t) = Reads(m, t)
    BY <2>2, <2>3, ReadsFrom DEF Has
  <2>5. QED
    BY <2>4 DEF m2
<1>6. CASE out \notin {"inserted", "changed", "insertedDeleted", "unchanged"}
  <2>1. own = m
    BY <1>6 DEF Assign, AssignAs
  <2>2. m2 = m
    BY <1>2, <1>6, <2>1 DEF DropLocalized
  <2>3. QED
    BY <2>2
<1>7. QED
  BY <1>3, <1>4, <1>5, <1>6

\* A call that changes what a key reads as leaves something for sync() to store, whatever memory
\* and files hold and whatever was called before.
THEOREM ChangeAlwaysDirty == Spec => ChangeIsDirty
<1> DEFINE Step == calls' # calls /\ Unlocalized =>
                       \A t \in Touched \ apart' :
                           Reads(entryMap', t) # Reads(entryMap, t) => bDirty'
<1>1. ASSUME ObjectOk, [Next]_vars
      PROVE  Step
  <2> SUFFICES ASSUME calls' # calls, Unlocalized, NEW t \in Touched, t \notin apart', ~bDirty'
               PROVE  Reads(entryMap', t) = Reads(entryMap, t)
    OBVIOUS
  <2>0. /\ OnlyDirty(entryMap, EntryKey) /\ t[1] \in Groups /\ t[2] \in Names
        /\ t = <<t[1], t[2]>>
    BY <1>1, TouchedType, ConfigAssumption DEF ObjectOk
  <2>1. CASE AppCall
    <3>1. PICK key \in Touched, o \in setup.writeOptions :
              \/ \E v \in Values : WriteEntry(key[1], key[2], v, o)
              \/ DeleteEntry(key[1], key[2], o)
              \/ RevertToDefault(key[1], key[2], o)
              \/ DeleteGroup(key[1], o)
      BY <2>1 DEF AppCall
    <3> DEFINE g == key[1]
               n == key[2]
    <3>2. /\ g \in Groups /\ n \in Names /\ key = <<g, n>>
          /\ o \in AppOptions /\ "Localized" \notin o
      BY <1>1, TouchedType, ConfigAssumption DEF ObjectOk, Unlocalized
    <3> HIDE DEF g, n
    <3>3. ASSUME NEW v, PutData(g, n, v, o)
          PROVE  Reads(entryMap', t) = Reads(entryMap, t)
      <4> DEFINE p == PutOptions(v, o)
      <4>1. "Default" \notin p /\ "Localized" \notin p
        BY <3>2 DEF PutOptions, AppOptions, When
      <4>2. entryMap' = SetEntry(entryMap, g, n, v, p)
        BY <3>3 DEF PutData, PutMap
      <4>3. CASE t = key
        <5>1. "Dirty" \in o
          BY <3>2, <3>3, <4>3 DEF PutData, Parted
        <5>2. ~SetEntryDirties(entryMap, g, n, v, p)
          BY <3>3, <5>1 DEF PutData, PutDirties
        <5> HIDE DEF p
        <5>3. QED
          BY <2>0, <3>2, <4>1, <4>2, <4>3, <5>2, QuietReads
      <4>4. CASE t # key
        <5>1. ~(t[1] = g /\ t[2] = n)
          BY <2>0, <3>2, <4>4
        <5>2. \A l \in BOOLEAN : /\ Slot(t[1], t[2], l, FALSE) \in EntryKey
                                 /\ Slot(t[1], t[2], l, FALSE).name = t[2]
                                 /\ Slot(t[1], t[2], l, FALSE).group = t[1]
                                 /\ t[2] # Marker
          BY <2>0, SentinelAssumption DEF Slot, EntryKey
        <5> HIDE DEF p
        <5>3. ASSUME NEW l \in BOOLEAN
              PROVE  entryMap'[Slot(t[1], t[2], l, FALSE)] = entryMap[Slot(t[1], t[2], l, FALSE)]
          <6> DEFINE k == Slot(t[1], t[2], l, FALSE)
          <6>1. k \in EntryKey /\ k.name # Marker /\ ~(k.group = g /\ k.name = n)
            BY <5>1, <5>2
          <6> HIDE DEF k
          <6>2. SetEntry(entryMap, g, n, v, p)[k] = entryMap[k]
            BY <2>0, <3>2, <4>1, <6>1, SetEntryApart
          <6>3. QED
            BY <4>2, <6>2 DEF k
        <5>4. QED
          BY <5>3, ReadsFrom
      <4>5. QED
        BY <4>3, <4>4
    <3>4. CASE RevertToDefault(g, n, o)
      <4>1. entryMap' = entryMap
        BY <3>4 DEF RevertToDefault, RevertEntry
      <4>2. QED
        BY <4>1
    <3>5. CASE DeleteGroup(g, o)
      <4>1. Deletable(entryMap, bFileImmutable, g) = {}
        BY <3>5 DEF DeleteGroup, DeleteGroupDirties
      <4>2. entryMap' = [k \in EntryKey |-> entryMap[k]]
        BY <3>5, <4>1 DEF DeleteGroup, DeleteGroupMap
      <4>3. QED
        BY <2>0, <4>2 DEF OnlyDirty
    <3>6. QED
      BY <3>1, <3>3, <3>4, <3>5 DEF WriteEntry, DeleteEntry, g, n
  <2>2. CASE MarkAsClean
    BY <2>2 DEF MarkAsClean
  <2>3. CASE (\E u : SyncStep(u)) \/ OtherProgram \/ UNCHANGED vars
    BY <2>3 DEF SyncStep, Sync, Reparse, AddConfigSources, OtherProgram, vars, bounds
  <2>4. QED
    BY <1>1, <2>1, <2>2, <2>3 DEF Next, AppCall, SyncStep
<1>2. QED
  BY <1>1, ObjectInvariant, PTL DEF Spec, ChangeIsDirty

-----------------------------------------------------------------------------
(* Immutable files                                                         *)
(*                                                                         *)
(* An object that loads a file and one that merges it read the same map    *)
(* only in part, but go through it in the same way.                        *)

\* The lines that count as errors are not of other locales.  Else a merge counts errors where a
\* load skips lines, and may stop before a lock that the load sees.
LegibleFile(file) ==
    \A i \in 1 .. Len(file) : file[i].kind = "entry" /\ file[i].garbled => ~IsForeign(file[i])

\* A parser that skips no group.
IsAtRest(c) == DOMAIN c = DOMAIN StartOfFile /\ c.skip = FALSE

\* A load and a merge take a line in the same way.
LEMMA SameTurn ==
    ASSUME NEW m, NoneLocked(m), NEW n, NoneLocked(n), NEW c, IsAtRest(c),
           NEW line \in Line, line.kind = "entry" /\ line.garbled => ~IsForeign(line),
           NEW g
    PROVE  /\ LineCursor(m, c, line, Own(g)) = LineCursor(n, c, line, Merging(g))
           /\ IsAtRest(LineCursor(m, c, line, Own(g)))
<1>1. ~Skipped(c, Own(g)) /\ ~Skipped(c, Merging(g))
  BY DEF Skipped, IsAtRest
<1>2. Own(g).default = FALSE /\ Merging(g).default = FALSE /\ Merging(g).merging = TRUE
  BY DEF Own, Merging
<1>3. CASE line.kind = "group"
  <2>1. GroupIsImmutable(m, line.group) = FALSE /\ GroupIsImmutable(n, line.group) = FALSE
    <3>1. line.group \in Groups
      BY <1>3 DEF Line, GroupLine, EntryText
    <3>2. GroupIsImmutable(m, line.group) \in BOOLEAN /\ GroupIsImmutable(n, line.group) \in BOOLEAN
      BY DEF GroupIsImmutable, IsImmutable
    <3>3. QED
      BY <3>1, <3>2 DEF NoneLocked
  <2> DEFINE locks == line.immutable /\ ~KioskException
             own == c.fileImmutable \/ (locks /\ line.group # NoGroup)
             Under(skip, default) ==
                 [c EXCEPT !.group = line.group,
                           !.fileImmutable = c.fileImmutable \/ (locks /\ line.group = NoGroup),
                           !.groupImmutable = own,
                           !.skip = skip,
                           !.immutableGroups = IF own /\ (~skip \/ default)
                                               THEN c.immutableGroups \cup {line.group}
                                               ELSE c.immutableGroups]
  <2>2. \A x, o : LineCursor(x, c, line, o) =
            IF ~Reading(c) THEN c ELSE Under(GroupIsImmutable(x, line.group), o.default)
    BY <1>3 DEF LineCursor, HeaderCursor
  <2>3. IsAtRest(Under(FALSE, FALSE))
    BY DEF IsAtRest, StartOfFile
  <2> HIDE DEF Under
  <2>4. QED
    BY <1>2, <2>1, <2>2, <2>3
<1>4. CASE line.kind # "group"
  <2>1. line.kind = "entry" /\ line.garbled =>
            (IsIgnored(c, line, Own(g)) <=> IsIgnored(c, line, Merging(g)))
    BY <1>1, <1>2 DEF IsIgnored
  <2> DEFINE Bad(o) == \/ line.kind = "bad" /\ ~Skipped(c, o)
                       \/ /\ line.kind = "entry" /\ line.garbled
                          /\ ~IsDeletion(line) /\ ~IsIgnored(c, line, o)
  <2>2. Bad(Own(g)) <=> Bad(Merging(g))
    BY <1>1, <2>1
  <2>3. \A o, x : LineCursor(x, c, line, o) =
            IF ~Reading(c) THEN c
            ELSE IF line.kind = "badHeader" THEN [c EXCEPT !.groupImmutable = c.fileImmutable]
            ELSE IF Bad(o) THEN [c EXCEPT !.errors = c.errors + 1] ELSE c
    BY <1>4 DEF LineCursor
  <2> HIDE DEF Bad
  <2>4. LineCursor(m, c, line, Own(g)) = LineCursor(n, c, line, Merging(g))
    BY <2>2, <2>3
  <2>5. /\ IsAtRest([c EXCEPT !.groupImmutable = c.fileImmutable])
        /\ IsAtRest([c EXCEPT !.errors = c.errors + 1])
    BY DEF IsAtRest, StartOfFile
  <2>6. QED
    BY <2>3, <2>4, <2>5
<1>5. QED
  BY <1>3, <1>4

\* So whether a file is immutable is the same to a load and to a merge.
LEMMA SameInfo ==
    ASSUME NEW file \in Seq(Line), LegibleFile(file), NEW g
    PROVE  ParseConfig(EmptyMap, file, Own(g)).info = ParseConfig(EmptyMap, file, Merging(g)).info
<1> DEFINE p == Parses(AtStart(EmptyMap), file, Own(g))
           q == Parses(AtStart(EmptyMap), file, Merging(g))
           T == {i \in 0 .. Len(file) : /\ NoneLocked(p[i].map) /\ NoneLocked(q[i].map)
                                        /\ p[i].cursor = q[i].cursor /\ IsAtRest(p[i].cursor)}
<1>1. Len(file) \in Nat
  OBVIOUS
<1>2. /\ p[0] = [map |-> EmptyMap, cursor |-> StartOfFile]
      /\ q[0] = [map |-> EmptyMap, cursor |-> StartOfFile]
  BY <1>1, ParsesStep DEF AtStart
<1>3. \A i \in 1 .. Len(file) : /\ p[i] = ParseLine(p[i - 1], file[i], Own(g))
                                /\ q[i] = ParseLine(q[i - 1], file[i], Merging(g))
  BY <1>1, ParsesStep
<1>4. ParseConfig(EmptyMap, file, Own(g)).info = ParseResult(p[Len(file)].cursor)
  BY DEF ParseConfig, AtEnd
<1>5. ParseConfig(EmptyMap, file, Merging(g)).info = ParseResult(q[Len(file)].cursor)
  BY DEF ParseConfig, AtEnd
<1> HIDE DEF p, q
<1>6. 0 \in T
  <2>1. NoneLocked(EmptyMap)
    BY DEF NoneLocked, EmptyMap, GroupIsImmutable, IsImmutable, Has, MarkerOf, Slot, EntryKey
  <2>2. IsAtRest(StartOfFile)
    BY DEF IsAtRest, StartOfFile
  <2>3. QED
    BY <1>1, <1>2, <2>1, <2>2
<1>7. ASSUME NEW i \in 1 .. Len(file), i - 1 \in T
      PROVE  i \in T
  <2> DEFINE m == p[i - 1].map
             n == q[i - 1].map
             c == p[i - 1].cursor
  <2>1. NoneLocked(m) /\ NoneLocked(n) /\ q[i - 1].cursor = c /\ IsAtRest(c)
    BY <1>7
  <2>2. file[i] \in Line /\ (file[i].kind = "entry" /\ file[i].garbled => ~IsForeign(file[i]))
    BY DEF LegibleFile
  <2>3. /\ p[i] = ParseLine(p[i - 1], file[i], Own(g))
        /\ q[i] = ParseLine(q[i - 1], file[i], Merging(g))
    BY <1>3
  <2>4. /\ p[i].map = LineMap(m, c, file[i], Own(g))
        /\ p[i].cursor = LineCursor(m, c, file[i], Own(g))
        /\ q[i].map = LineMap(n, c, file[i], Merging(g))
        /\ q[i].cursor = LineCursor(n, c, file[i], Merging(g))
    BY <2>1, <2>3, ParseLineGives
  <2> HIDE DEF m, n, c
  <2>5. NoneLocked(p[i].map) /\ NoneLocked(q[i].map)
    BY <2>1, <2>2, <2>4, LineNoneLocked
  <2>6. p[i].cursor = q[i].cursor /\ IsAtRest(p[i].cursor)
    <3>1. /\ LineCursor(m, c, file[i], Own(g)) = LineCursor(n, c, file[i], Merging(g))
          /\ IsAtRest(LineCursor(m, c, file[i], Own(g)))
      BY <2>1, <2>2, SameTurn
    <3>2. QED
      BY <2>4, <3>1
  <2>7. QED
    BY <2>5, <2>6
<1>8. \A i \in 0 .. Len(file) : i \in T
  <2> HIDE DEF T
  <2>1. QED
    BY <1>1, <1>6, <1>7, CountUp
<1>9. QED
  BY <1>1, <1>4, <1>5, <1>8

TheirFiles ==
    /\ DOMAIN theirs = {"local", "global"}
    /\ theirs.local \in setup.localFiles /\ theirs.global \in setup.globalFiles

\* The files of other programs are legible.
Legible == \A file \in setup.localFiles \cup setup.globalFiles : LegibleFile(file)

\* A file that the user or another program made immutable is not written any more, whatever the
\* application calls, and however long the object has been open.
THEOREM ImmutableFilesKept == Spec => [](Legible => ImmutableFileKept)
<1> DEFINE Inv == TheirFiles /\ (Legible => ImmutableFileKept)
<1>1. Init => Inv
  BY DEF Init, TheirFiles, ImmutableFileKept
<1>2. ASSUME ObjectOk, Inv, [Next]_vars
      PROVE  Inv'
  <2>1. UNCHANGED setup
    BY <1>2 DEF Next, WriteEntry, DeleteEntry, PutData, RevertToDefault, DeleteGroup, MarkAsClean,
                Call, Sync, Reparse, AddConfigSources, OtherProgram, vars
  <2>2. Legible' => Legible
    BY <2>1 DEF Legible
  <2>3. CASE UNCHANGED <<files, theirs>>
    BY <1>2, <2>1, <2>2, <2>3 DEF files, TheirFiles, ImmutableFileKept
  <2>4. CASE AppCall \/ MarkAsClean \/ UNCHANGED vars
    <3>1. UNCHANGED <<files, theirs>>
      <4>1. CASE AppCall
        BY <1>2, <4>1, AppCallGives DEF files
      <4>2. CASE MarkAsClean
        BY <4>2 DEF MarkAsClean, Call
      <4>3. CASE UNCHANGED vars
        BY <4>3 DEF vars, files, history
      <4>4. QED
        BY <2>4, <4>1, <4>2, <4>3
    <3>2. QED
      BY <2>3, <3>1
  <2>5. CASE \E t : SyncStep(t)
    <3>1. PICK t : SyncStep(t)
      BY <2>5
    <3>2. /\ UNCHANGED theirs
          /\ localFile' # localFile =>
                 ParseConfig(EmptyMap, localFile, Merging(FALSE)).info = "Ok"
          /\ globalFile' # globalFile =>
                 ParseConfig(EmptyMap, globalFile, Merging(TRUE)).info = "Ok"
      BY <1>2, <3>1, SyncGives, SyncStepGives
    <3>3. TheirFiles'
      BY <1>2, <2>1, <3>2 DEF TheirFiles
    <3> SUFFICES ASSUME Legible PROVE ImmutableFileKept'
      BY <2>2, <3>3
    <3>4. /\ theirs.local \in Seq(Line) /\ LegibleFile(theirs.local)
          /\ theirs.global \in Seq(Line) /\ LegibleFile(theirs.global)
      BY <1>2, ConfigAssumption DEF ObjectOk, TheirFiles, Legible
    <3>5. ASSUME ParseConfig(EmptyMap, theirs.local, Own(FALSE)).info = "Immutable"
          PROVE  localFile' = theirs.local
      <4>1. localFile = theirs.local
        BY <1>2, <3>5 DEF ImmutableFileKept
      <4>2. ParseConfig(EmptyMap, theirs.local, Merging(FALSE)).info = "Immutable"
        BY <3>4, <3>5, SameInfo
      <4>3. QED
        BY <3>2, <4>1, <4>2
    <3>6. ASSUME ParseConfig(EmptyMap, theirs.global, Own(TRUE)).info = "Immutable"
          PROVE  globalFile' = theirs.global
      <4>1. globalFile = theirs.global
        BY <1>2, <3>6 DEF ImmutableFileKept
      <4>2. ParseConfig(EmptyMap, theirs.global, Merging(TRUE)).info = "Immutable"
        BY <3>4, <3>6, SameInfo
      <4>3. QED
        BY <3>2, <4>1, <4>2
    <3>7. QED
      BY <3>2, <3>5, <3>6 DEF ImmutableFileKept
  <2>6. CASE OtherProgram
    <3>1. \/ /\ localFile' \in setup.localFiles /\ UNCHANGED globalFile
             /\ theirs' = [theirs EXCEPT !.local = localFile']
          \/ /\ globalFile' \in setup.globalFiles /\ UNCHANGED localFile
             /\ theirs' = [theirs EXCEPT !.global = globalFile']
      BY <2>6 DEF OtherProgram
    <3>2. TheirFiles'
      BY <1>2, <2>1, <3>1 DEF TheirFiles
    <3>3. \/ UNCHANGED globalFile /\ theirs'.local = localFile' /\ theirs'.global = theirs.global
          \/ UNCHANGED localFile /\ theirs'.global = globalFile' /\ theirs'.local = theirs.local
      BY <1>2, <3>1 DEF TheirFiles
    <3>4. Legible => ImmutableFileKept'
      BY <1>2, <3>3 DEF ImmutableFileKept
    <3>5. QED
      BY <2>2, <3>2, <3>4
  <2>7. QED
    BY <1>2, <2>4, <2>5, <2>6 DEF Next, AppCall, SyncStep
<1>3. QED
  BY <1>1, <1>2, ObjectInvariant, PTL DEF Spec

-----------------------------------------------------------------------------
(* What is in a file, whatever its lines are                               *)

LocalName(n) == n \in RawNames \/ (n \in PlainNames /\ OwnTag # "none")

\* What every entry is that was read to be merged with.
DiskEntry(k, e) ==
    /\ k.default = FALSE
    /\ e.deleted => e.value = NoValue /\ ~k.local
    /\ k.local => LocalName(k.name)
    /\ e.immutable => ~KioskException

IsDisk(m) ==
    /\ OnlyDirty(m, {})
    /\ \A k \in EntryKey : Has(m, k) /\ k.name # Marker => DiskEntry(k, m[k])

\* A line that is read leaves entries like these.
LEMMA SetDisk ==
    ASSUME NEW m, IsDisk(m), NEW k \in EntryKey, k.name # Marker, k.default = FALSE,
           NEW v \in Values \cup {NoValue}, NEW o, "Default" \notin o, "Dirty" \notin o,
           "Localized" \in o <=> k.local, "Deleted" \in o => ~k.local,
           k.local => LocalName(k.name), "Immutable" \in o => ~KioskException
    PROVE  IsDisk(SetEntry(m, k.group, k.name, v, o))
<1> DEFINE n == SetEntry(m, k.group, k.name, v, o)
           e == Stored(m, k, v, o)
<1>0. OnlyDirty(m, {}) /\ OnlyDirty(m, EntryKey)
  BY DEF IsDisk, OnlyDirty
<1>1. OnlyDirty(n, {})
  BY <1>0, SetEntryDirty
<1>2. DiskEntry(k, e)
  <2> DEFINE old == Found(m, k)
  <2>1. /\ e.value = v /\ e.deleted = (v = NoValue /\ (old.deleted \/ "Deleted" \in o))
        /\ e.immutable = (old.immutable \/ "Immutable" \in o)
    BY DEF Stored, StoredOver
  <2>2. (old.deleted => ~k.local) /\ (old.immutable => ~KioskException)
    <3>1. CASE Has(m, k)
      BY <3>1 DEF IsDisk, DiskEntry, Found
    <3>2. CASE ~Has(m, k)
      BY <3>2 DEF Found, FreshEntry
    <3>3. QED
      BY <3>1, <3>2
  <2> HIDE DEF e, old
  <2>3. QED
    BY <2>1, <2>2 DEF DiskEntry
<1>4. KeptBut(n, m, k, e)
  BY <1>0, SetEntryGives
<1> HIDE DEF e, n
<1>3. ASSUME NEW i \in EntryKey, i.name # Marker, Has(n, i)
      PROVE  DiskEntry(i, n[i])
  <2>1. n[i] \in {m[i], NoEntry} \/ (i = k /\ n[i] = e)
    BY <1>3, <1>4 DEF KeptBut
  <2>2. QED
    BY <1>2, <1>3, <2>1 DEF Has, IsDisk
<1>5. QED
  BY <1>1, <1>3 DEF IsDisk, n

\* The parser when it reads to merge.
MergeCursor(c) ==
    /\ DOMAIN c = DOMAIN StartOfFile /\ c.group \in Groups
    /\ c.groupImmutable \in BOOLEAN /\ c.fileImmutable \in BOOLEAN
    /\ c.groupImmutable \/ c.fileImmutable => ~KioskException

\* A line that is read to merge leaves entries like these.
LEMMA LineDisk ==
    ASSUME NEW m, IsDisk(m), NEW c, MergeCursor(c), NEW line \in Line, NEW g
    PROVE  IsDisk(LineMap(m, c, line, Merging(g)))
<1> DEFINE opts == Merging(g)
           o == LineOptions(c, line, opts)
<1>0. opts.default = FALSE /\ opts.merging = TRUE
  BY DEF Merging
<1> HIDE DEF opts
<1>1. /\ "Default" \notin o /\ "Dirty" \notin o /\ "Localized" \notin o /\ "Deleted" \notin o
      /\ "Immutable" \in o => ~KioskException
  BY <1>0 DEF LineOptions, When, MergeCursor
<1> HIDE DEF o
<1> SUFFICES ASSUME line.kind = "entry" PROVE IsDisk(LineMap(m, c, line, opts))
  BY DEF LineMap, opts
<1>2. /\ line.name \in Names /\ line.locale \in Locale /\ line.value \in Values \cup {NoValue}
      /\ Tagged(line.name, line.locale) \in Names
      /\ line.locale # "none" => line.name \in PlainNames
  BY DEF Line, GroupLine, EntryText
<1>3. IsDisk(ParseDeletion(m, c, line, opts))
  <2> DEFINE q == o \cup {"Deleted"}
             k == Slot(c.group, Tagged(line.name, line.locale), FALSE, FALSE)
             v == NoValue
  <2>1. /\ k \in EntryKey /\ k.name # Marker /\ k.default = FALSE /\ k.local = FALSE
        /\ k.group = c.group /\ k.name = Tagged(line.name, line.locale)
    BY <1>2, SentinelAssumption DEF EntryKey, Slot, MergeCursor
  <2>2. /\ "Default" \notin q /\ "Dirty" \notin q /\ "Localized" \notin q
        /\ "Immutable" \in q => ~KioskException
        /\ v \in Values \cup {NoValue}
    BY <1>1
  <2>3. ParseDeletion(m, c, line, opts) = SetEntry(m, k.group, k.name, v, q)
    BY <2>1 DEF ParseDeletion, o
  <2> HIDE DEF q, k, v
  <2>4. IsDisk(SetEntry(m, k.group, k.name, v, q))
    BY <2>1, <2>2, SetDisk
  <2>5. QED
    BY <2>3, <2>4
<1>4. IsDisk(ParseValue(m, c, line, opts))
  <2> DEFINE q == o \cup When(opts.global, "Global") \cup When(line.locale # "none", "Localized")
                  \cup When(line.locale = "country", "LocalizedCountry")
             name == IF IsForeign(line) THEN Tagged(line.name, line.locale) ELSE line.name
             k == Slot(c.group, name, line.locale # "none", FALSE)
             v == line.value
  <2>1. name \in Names /\ (line.locale # "none" => LocalName(name))
    <3>1. CASE IsForeign(line)
      <4>1. line.locale # "none" /\ ~IsOwn(line.locale) /\ line.locale \in Locale \ {"none"}
        BY <1>2, <3>1 DEF IsForeign
      <4>2. Tagged(line.name, line.locale) \in RawNames
        BY <1>2, <4>1 DEF RawNames
      <4>3. QED
        BY <1>2, <3>1, <4>2 DEF LocalName
    <3>2. CASE ~IsForeign(line)
      <4>1. line.locale # "none" => OwnTag # "none"
        BY <3>2 DEF IsForeign, IsOwn
      <4>2. QED
        BY <1>2, <3>2, <4>1 DEF LocalName
    <3>3. QED
      BY <3>1, <3>2
  <2>2. /\ k \in EntryKey /\ k.name # Marker /\ k.default = FALSE
        /\ k.local = (line.locale # "none") /\ k.group = c.group /\ k.name = name
    <3> HIDE DEF name
    <3>1. QED
      BY <2>1, SentinelAssumption DEF EntryKey, Slot, MergeCursor
  <2>3. /\ "Default" \notin q /\ "Dirty" \notin q /\ "Deleted" \notin q
        /\ "Localized" \in q <=> line.locale # "none"
        /\ "Immutable" \in q => ~KioskException
        /\ v \in Values \cup {NoValue}
    BY <1>1, <1>2 DEF When
  <2>4. ParseValue(m, c, line, opts) = SetEntry(m, k.group, k.name, v, q)
    <3> HIDE DEF k
    <3>1. QED
      BY <2>2 DEF ParseValue, o
  <2> HIDE DEF q, k, v, name
  <2>5. IsDisk(SetEntry(m, k.group, k.name, v, q))
    BY <2>1, <2>2, <2>3, SetDisk
  <2>6. QED
    BY <2>4, <2>5
<1>5. QED
  BY <1>3, <1>4 DEF LineMap

\* It leaves a parser like this.
LEMMA LineMergeCursor ==
    ASSUME NEW m, NEW c, MergeCursor(c), NEW line \in Line, NEW opts
    PROVE  MergeCursor(LineCursor(m, c, line, opts))
<1> DEFINE t == LineCursor(m, c, line, opts)
<1>1. CASE t = c
  BY <1>1
<1>2. CASE t = HeaderCursor(m, c, line, opts) /\ line.kind = "group"
  <2> DEFINE locks == line.immutable /\ ~KioskException
             own == c.fileImmutable \/ (locks /\ line.group # NoGroup)
             all == c.fileImmutable \/ (locks /\ line.group = NoGroup)
             skip == GroupIsImmutable(m, line.group)
             set == IF own /\ (~skip \/ opts.default) THEN c.immutableGroups \cup {line.group}
                    ELSE c.immutableGroups
  <2>1. line.group \in Groups /\ line.immutable \in BOOLEAN
    BY <1>2 DEF Line, GroupLine, EntryText
  <2>2. t = [c EXCEPT !.group = line.group, !.fileImmutable = all, !.groupImmutable = own,
                      !.skip = skip, !.immutableGroups = set]
    BY <1>2 DEF HeaderCursor
  <2>3. own \in BOOLEAN /\ all \in BOOLEAN /\ (own \/ all => ~KioskException)
    BY <2>1 DEF MergeCursor
  <2>4. /\ DOMAIN c = DOMAIN StartOfFile
        /\ {"group", "groupImmutable", "fileImmutable"} \subseteq DOMAIN c
    BY DEF MergeCursor, StartOfFile
  <2> HIDE DEF own, all, skip, set, t
  <2>5. DOMAIN t = DOMAIN c
    BY <2>2
  <2>6. t.group = line.group /\ t.groupImmutable = own /\ t.fileImmutable = all
    BY <2>2, <2>4
  <2>7. MergeCursor(t)
    BY <2>1, <2>3, <2>4, <2>5, <2>6 DEF MergeCursor
  <2>8. QED
    BY <2>7 DEF t
<1>3. CASE t = [c EXCEPT !.groupImmutable = c.fileImmutable]
  BY <1>3 DEF MergeCursor, StartOfFile
<1>4. CASE t = [c EXCEPT !.errors = c.errors + 1]
  BY <1>4 DEF MergeCursor, StartOfFile
<1>5. \/ t = c \/ (t = HeaderCursor(m, c, line, opts) /\ line.kind = "group")
      \/ t = [c EXCEPT !.groupImmutable = c.fileImmutable]
      \/ t = [c EXCEPT !.errors = c.errors + 1]
  BY DEF LineCursor
<1>6. QED
  BY <1>1, <1>2, <1>3, <1>4, <1>5

\* What is in a file.
LEMMA DiskIs ==
    ASSUME NEW file \in Seq(Line), NEW g
    PROVE  IsDisk(Disk(file, g))
<1> DEFINE opts == Merging(g)
           p == Parses(AtStart(EmptyMap), file, opts)
           n == Len(file)
           T == {i \in 0 .. n : IsDisk(p[i].map) /\ MergeCursor(p[i].cursor)}
<1>1. n \in Nat /\ \A i \in 1 .. n : file[i] \in Line
  OBVIOUS
<1>2. /\ p[0] = [map |-> EmptyMap, cursor |-> StartOfFile]
      /\ \A i \in 1 .. n : p[i] = ParseLine(p[i - 1], file[i], opts)
  BY <1>1, ParsesStep DEF AtStart
<1> HIDE DEF p, n
<1>3. 0 \in T
  <2>1. IsDisk(EmptyMap)
    BY EmptyDirty DEF IsDisk, EmptyMap, Has
  <2>2. MergeCursor(StartOfFile)
    BY IniAssumption DEF MergeCursor, StartOfFile
  <2>3. p[0].map = EmptyMap /\ p[0].cursor = StartOfFile
    BY <1>2
  <2>4. QED
    BY <1>1, <2>1, <2>2, <2>3
<1>4. ASSUME NEW i \in 1 .. n, i - 1 \in T
      PROVE  i \in T
  <2> DEFINE s == p[i - 1]
  <2>1. IsDisk(s.map) /\ MergeCursor(s.cursor) /\ file[i] \in Line
    BY <1>1, <1>4
  <2>2. /\ p[i].map = LineMap(s.map, s.cursor, file[i], opts)
        /\ p[i].cursor = LineCursor(s.map, s.cursor, file[i], opts)
    <3>1. p[i] = ParseLine(s, file[i], opts)
      BY <1>2
    <3> HIDE DEF s, opts
    <3>2. QED
      BY <3>1, ParseLineGives
  <2> HIDE DEF s
  <2>3. IsDisk(p[i].map)
    BY <2>1, <2>2, LineDisk
  <2>4. MergeCursor(p[i].cursor)
    BY <2>1, <2>2, LineMergeCursor
  <2>5. QED
    BY <1>1, <2>3, <2>4
<1>5. IsDisk(p[n].map)
  <2>1. \A i \in 0 .. n : i \in T
    <3> HIDE DEF T
    <3>1. QED
      BY <1>1, <1>3, <1>4, CountUp
  <2>2. QED
    BY <1>1, <2>1
<1>6. Disk(file, g) = LockGroups(p[n].map, p[n].cursor)
  <2>1. Disk(file, g) = AtEnd(p[n]).map
    BY DEF Disk, ParseConfig, Merging, p, n
  <2>2. QED
    BY <2>1 DEF AtEnd
<1>7. ASSUME NEW m, IsDisk(m), NEW c
      PROVE  IsDisk(LockGroups(m, c))
  <2>1. OnlyDirty(m, {})
    BY <1>7 DEF IsDisk
  <2>2. IsKEntry(LockedMarker) /\ ~LockedMarker.dirty
    BY SentinelAssumption DEF LockedMarker, FreshEntry, IsKEntry, Entry
  <2>3. OnlyDirty(LockGroups(m, c), {})
    BY <2>1, <2>2 DEF LockGroups, OnlyDirty, Has
  <2>4. \A k \in EntryKey : k.name # Marker => LockGroups(m, c)[k] = m[k]
    BY <2>1 DEF LockGroups, OnlyDirty, MarkerOf, Slot
  <2>5. QED
    BY <1>7, <2>3, <2>4 DEF IsDisk, Has
<1>8. QED
  BY <1>5, <1>6, <1>7

-----------------------------------------------------------------------------
(* What a sync leaves of the entries the application did not call for      *)

\* A file that can be merged with holds entries whose lines say all there is to them.
DiskOk(D) ==
    /\ Writable(D)
    /\ \A k \in EntryKey : Has(D, k) /\ k.name # Marker =>
           /\ D[k].deleted => D[k].value = NoValue /\ ~D[k].immutable
           /\ D[k].immutable => ~KioskException

FileOk(file, g) == ParseConfig(EmptyMap, file, Merging(g)).info = "Ok" => DiskOk(Disk(file, g))

\* What calls for the keys in O may have made dirty.
OurSlots(O) == {k \in EntryKey : /\ <<k.group, k.name>> \in O /\ k.name # Marker
                                 /\ k.group # NoGroup /\ ~k.local /\ ~k.default}

LocksNoGroup(m) == \A g \in Groups \ {DefaultGroup} : ~GroupIsImmutable(m, g)

MemoryOk(em, O) == OnlyDirty(em, OurSlots(O)) /\ LocksNoGroup(em)

\* What may become of a file when the application called for the keys in O.
KeptFile(old, new, g, O) ==
    FileOk(old, g) =>
        /\ FileOk(new, g)
        /\ \A k \in EntryKey : k.name # Marker /\ <<k.group, k.name>> \notin O =>
               SameText(Disk(new, g), Disk(old, g), k)

\* A file that is not written keeps everything.
LEMMA SameFile ==
    ASSUME NEW file, NEW g, NEW O
    PROVE  KeptFile(file, file, g, O)
BY DEF KeptFile, SameText

\* What is merged can be written.
LEMMA MergeWritable ==
    ASSUME NEW O, NEW em, MemoryOk(em, O), NEW D, DiskOk(D), NEW g \in BOOLEAN
    PROVE  /\ Writable(Merge(em, D, g))
           /\ \A k \in EntryKey : k.name # Marker /\ <<k.group, k.name>> \notin O =>
                  Merge(em, D, g)[k] = D[k]
<1> DEFINE M == Merge(em, D, g)
<1>1. OnlyDirty(em, OurSlots(O)) /\ OnlyDirty(em, EntryKey) /\ OnlyDirty(D, EntryKey)
  BY DEF MemoryOk, OnlyDirty, DiskOk, Writable, OurSlots
<1>2. OnlyDirty(M, EntryKey)
  BY <1>1, MergeDirty
<1>3. M = [k \in EntryKey |-> IF ~ToWrite(em, k, g) THEN D[k]
                              ELSE IF Erases(em, k) THEN NoEntry ELSE Written(em[k])]
  BY <1>1 DEF Merge, OnlyDirty
<1> HIDE DEF M
<1>4. ASSUME NEW k \in EntryKey, k.name # Marker, ToWrite(em, k, g)
      PROVE  k \in OurSlots(O)
  BY <1>1, <1>4 DEF ToWrite, OnlyDirty, Has
<1>5. \A k \in EntryKey : k.name # Marker /\ k \notin OurSlots(O) => M[k] = D[k]
  BY <1>3, <1>4
<1>6. ASSUME NEW k \in EntryKey, Has(M, k), k.name # Marker
      PROVE  /\ ~k.default /\ k.group # NoGroup
             /\ k.local => /\ ~M[k].deleted
                           /\ k.name \in RawNames \/ (k.name \in PlainNames /\ OwnTag # "none")
  <2>1. CASE k \in OurSlots(O)
    BY <2>1 DEF OurSlots
  <2>2. CASE k \notin OurSlots(O)
    BY <1>5, <1>6, <2>2 DEF DiskOk, Writable, Has
  <2>3. QED
    BY <2>1, <2>2
<1>7. ASSUME NEW h \in Groups \ {DefaultGroup}
      PROVE  ~GroupIsImmutable(M, h)
  <2> DEFINE k == MarkerOf(h)
  <2>1. k \in EntryKey
    BY DEF MarkerOf, Slot, EntryKey
  <2>2. ~IsImmutable(D, k) /\ ~IsImmutable(em, k)
    BY DEF DiskOk, Writable, MemoryOk, LocksNoGroup, GroupIsImmutable
  <2> HIDE DEF k
  <2>3. ToWrite(em, k, g) => IsKEntry(em[k]) /\ Has(em, k)
    BY <1>1, <2>1 DEF ToWrite, OnlyDirty
  <2>4. ToWrite(em, k, g) => Written(em[k]).immutable = em[k].immutable
    BY <2>3 DEF Written, IsKEntry, Entry
  <2>5. ~IsImmutable(M, k)
    BY <1>3, <2>1, <2>2, <2>3, <2>4 DEF IsImmutable, Has
  <2>6. QED
    BY <2>5 DEF GroupIsImmutable, k
<1>8. Writable(M)
  BY <1>2, <1>6, <1>7 DEF Writable
<1>9. QED
  BY <1>5, <1>8 DEF M, OurSlots

\* A file that is written keeps them.
LEMMA WriteKeeps ==
    ASSUME NEW O, NEW em, MemoryOk(em, O), NEW old, NEW g \in BOOLEAN,
           ParseConfig(EmptyMap, old, Merging(g)).info = "Ok"
    PROVE  KeptFile(old, WriteEntries(Merge(em, Disk(old, g), g)), g, O)
<1> SUFFICES ASSUME FileOk(old, g)
             PROVE  KeptFile(old, WriteEntries(Merge(em, Disk(old, g), g)), g, O)
  BY DEF KeptFile
<1> DEFINE D == Disk(old, g)
           M == Merge(em, D, g)
           new == WriteEntries(M)
           N == Disk(new, g)
<1>1. DiskOk(D)
  BY DEF FileOk
<1> HIDE DEF D
<1>2. /\ Writable(M)
      /\ \A k \in EntryKey : k.name # Marker /\ <<k.group, k.name>> \notin O => M[k] = D[k]
  BY <1>1, MergeWritable
<1> HIDE DEF M
<1>3. IsRead(N, EntryKey, M)
  <2>1. N = ParseConfig(EmptyMap, new, Merging(g)).map
    BY DEF Disk, Merging
  <2>2. QED
    BY <1>2, <2>1, ReadWritten
<1> HIDE DEF N
<1>4. \A k \in EntryKey : k.name # Marker =>
          (Has(N, k) <=> Has(M, k)) /\ (Has(M, k) => ReadBack(N[k], M[k]))
  BY <1>3 DEF IsRead
<1>5. DiskOk(N)
  <2>1. OnlyDirty(N, EntryKey) /\ \A h \in Groups \ {DefaultGroup} : ~GroupIsImmutable(N, h)
    BY <1>3 DEF IsRead, OnlyDirty
  <2>2. ASSUME NEW k \in EntryKey, Has(N, k), k.name # Marker
        PROVE  /\ ~k.default /\ k.group # NoGroup
               /\ k.local => /\ ~N[k].deleted
                             /\ k.name \in RawNames \/ (k.name \in PlainNames /\ OwnTag # "none")
               /\ N[k].deleted => N[k].value = NoValue /\ ~N[k].immutable
               /\ N[k].immutable => ~KioskException
    <3>1. Has(M, k) /\ ReadBack(N[k], M[k])
      BY <1>4, <2>2
    <3>2. /\ ~k.default /\ k.group # NoGroup
          /\ k.local => /\ ~M[k].deleted
                        /\ k.name \in RawNames \/ (k.name \in PlainNames /\ OwnTag # "none")
      BY <1>2, <2>2, <3>1 DEF Writable
    <3>3. QED
      BY <3>1, <3>2 DEF ReadBack
  <2>3. Writable(N)
    BY <2>1, <2>2 DEF Writable
  <2>4. QED
    BY <2>2, <2>3 DEF DiskOk
<1>6. ASSUME NEW k \in EntryKey, k.name # Marker, <<k.group, k.name>> \notin O
      PROVE  SameText(N, D, k)
  <2>1. M[k] = D[k]
    BY <1>2, <1>6
  <2>2. CASE ~Has(D, k)
    BY <1>4, <1>6, <2>1, <2>2 DEF SameText, Has
  <2>3. CASE Has(D, k)
    <3>1. Has(N, k) /\ ReadBack(N[k], D[k])
      BY <1>4, <1>6, <2>1, <2>3 DEF Has
    <3>2. /\ D[k].deleted => D[k].value = NoValue /\ ~D[k].immutable
          /\ D[k].immutable => ~KioskException
          /\ D[k].immutable \in BOOLEAN
      BY <1>1, <1>6, <2>3 DEF DiskOk, Writable, OnlyDirty, IsKEntry, Entry
    <3>3. QED
      BY <2>3, <3>1, <3>2 DEF SameText, ReadBack
  <2>4. QED
    BY <2>2, <2>3
<1>7. FileOk(new, g)
  BY <1>5 DEF FileOk, N
<1>8. QED
  BY <1>6, <1>7 DEF KeptFile, N, D, M

\* A file that was read from lines is one of those when it locks no group and has no entry in
\* NoGroup, whose header is not written, and none that is both deleted and immutable, whose lock is
\* not read again.
Plainly(file, g) ==
    ParseConfig(EmptyMap, file, Merging(g)).info = "Ok" =>
        /\ LocksNoGroup(Disk(file, g))
        /\ \A k \in EntryKey : Has(Disk(file, g), k) /\ k.name # Marker =>
               k.group # NoGroup /\ ~(Disk(file, g)[k].deleted /\ Disk(file, g)[k].immutable)

\* What is in such a file can be written again as it is.
LEMMA PlainlyOk ==
    ASSUME NEW file \in Seq(Line), NEW g, Plainly(file, g)
    PROVE  FileOk(file, g)
<1> DEFINE D == Disk(file, g)
<1> SUFFICES ASSUME ParseConfig(EmptyMap, file, Merging(g)).info = "Ok"
             PROVE  DiskOk(D)
  BY DEF FileOk
<1>1. IsDisk(D)
  BY DiskIs
<1>2. /\ LocksNoGroup(D)
      /\ \A k \in EntryKey : Has(D, k) /\ k.name # Marker =>
             k.group # NoGroup /\ ~(D[k].deleted /\ D[k].immutable)
  BY DEF Plainly
<1> HIDE DEF D
<1>3. OnlyDirty(D, EntryKey)
  BY <1>1 DEF IsDisk, OnlyDirty
<1>4. ASSUME NEW k \in EntryKey, Has(D, k), k.name # Marker
      PROVE  /\ ~k.default /\ k.group # NoGroup
             /\ k.local => /\ ~D[k].deleted
                           /\ k.name \in RawNames \/ (k.name \in PlainNames /\ OwnTag # "none")
             /\ D[k].deleted => D[k].value = NoValue /\ ~D[k].immutable
             /\ D[k].immutable => ~KioskException
  BY <1>1, <1>2, <1>4 DEF IsDisk, DiskEntry, LocalName
<1>5. Writable(D)
  BY <1>2, <1>3, <1>4 DEF Writable, LocksNoGroup
<1>6. QED
  BY <1>4, <1>5 DEF DiskOk

\* writeConfig() of one file keeps them, and memory is as before for the next one.
LEMMA SyncFileKeeps ==
    ASSUME NEW O, NEW s, IsSync(s), MemoryOk(s.map, O), NEW f \in {"local", "global"},
           NEW todo \in BOOLEAN, NEW fails \in BOOLEAN
    PROVE  LET r == SyncFile(s, f, todo, fails)
           IN  /\ IsSync(r) /\ MemoryOk(r.map, O)
               /\ KeptFile(s.local, r.local, FALSE, O) /\ KeptFile(s.global, r.global, TRUE, O)
<1> DEFINE g == f = "global"
           file == s[f]
           disk == ParseConfig(EmptyMap, file, Merging(g))
           w == WriteConfig(s.map, file, g)
           ok == w.ok /\ ~fails
           r == SyncFile(s, f, todo, fails)
           after == AfterWrite(s.map, g)
           new == WriteEntries(Merge(s.map, Disk(file, g), g))
<1>1. w = MergeWith(s.map, file, disk, g)
  BY DEF WriteConfig, Merging
<1>2. IsSync(r) /\ FewerDirty(r.map, s.map)
  BY SyncFileGives
<1>3. /\ w.ok => disk.info = "Ok" /\ w.map = after /\ w.file = new
      /\ ~w.ok => w.map = s.map
  <2>0. disk.map = Disk(file, g)
    BY DEF Disk, Merging
  <2>1. CASE disk.info = "Ok"
    <3>1. w = [ok |-> TRUE, map |-> after, file |-> WriteEntries(Merge(s.map, disk.map, g))]
      BY <1>1, <2>1 DEF MergeWith
    <3> HIDE DEF w, after, disk
    <3>2. QED
      BY <2>0, <2>1, <3>1
  <2>2. CASE disk.info # "Ok"
    <3>1. w = [ok |-> FALSE, map |-> s.map, file |-> file]
      BY <1>1, <2>2 DEF MergeWith
    <3> HIDE DEF w
    <3>2. QED
      BY <3>1
  <2>3. QED
    BY <2>1, <2>2
<1>4. ~todo => r = s
  BY DEF SyncFile
<1>5. todo => r = [s EXCEPT !.map = w.map, !.dirty = @ \/ ~ok, !.ok = @ /\ ok,
                            ![f] = IF ok THEN w.file ELSE @]
  BY DEF SyncFile, WrittenTo
<1>6. disk.info = "Ok" => KeptFile(file, new, g, O)
  <2>1. g \in BOOLEAN
    OBVIOUS
  <2> HIDE DEF g, file
  <2>2. QED
    BY <2>1, WriteKeeps
<1>7. \A h \in Groups : GroupIsImmutable(after, h) <=> GroupIsImmutable(s.map, h)
  <2> SUFFICES ASSUME NEW h \in Groups
               PROVE  GroupIsImmutable(after, h) <=> GroupIsImmutable(s.map, h)
    OBVIOUS
  <2> DEFINE k == MarkerOf(h)
             e == s.map[k]
  <2>1. k \in EntryKey /\ DOMAIN s.map = EntryKey
    BY DEF MarkerOf, Slot, EntryKey, IsSync, OnlyDirty
  <2>2. after[k] = IF ToWrite(s.map, k, g) THEN [Written(e) EXCEPT !.dirty = FALSE] ELSE e
    BY <2>1 DEF AfterWrite
  <2>3. ToWrite(s.map, k, g) => IsKEntry(e) /\ e # NoEntry
    BY <2>1 DEF ToWrite, IsSync, OnlyDirty, Has
  <2> HIDE DEF k, after, g
  <2>4. ASSUME ToWrite(s.map, k, g)
        PROVE  IsKEntry(after[k]) /\ (after[k].immutable <=> e.immutable)
    <3> HIDE DEF e
    <3>1. IsKEntry(Written(e)) /\ (Written(e).immutable <=> e.immutable)
      BY <2>3, <2>4 DEF Written, IsKEntry, Entry
    <3> DEFINE x == Written(e)
    <3>2. after[k] = [x EXCEPT !.dirty = FALSE]
      BY <2>2, <2>4
    <3> HIDE DEF x
    <3>3. QED
      BY <3>1, <3>2 DEF IsKEntry, Entry, x
  <2>5. NoEntry \notin Entry
    BY SentinelAssumption
  <2>6. IsImmutable(after, k) <=> IsImmutable(s.map, k)
    BY <2>2, <2>3, <2>4, <2>5 DEF IsImmutable, Has, IsKEntry
  <2>7. QED
    BY <2>6 DEF GroupIsImmutable, k
<1> HIDE DEF w, r, disk, after, new
<1>8. todo => r.map = w.map
  BY <1>5 DEF IsSync
<1>9. MemoryOk(r.map, O)
  <2>1. OnlyDirty(r.map, OurSlots(O))
    BY <1>2 DEF IsSync, FewerDirty, MemoryOk, OnlyDirty, Has
  <2>2. r.map = s.map \/ r.map = after
    BY <1>3, <1>4, <1>8
  <2>3. LocksNoGroup(r.map)
    BY <1>7, <2>2 DEF MemoryOk, LocksNoGroup
  <2>4. QED
    BY <2>1, <2>3 DEF MemoryOk
<1>10. /\ r.local # s.local => f = "local" /\ ok /\ r.local = w.file
       /\ r.global # s.global => f = "global" /\ ok /\ r.global = w.file
  BY <1>4, <1>5 DEF IsSync
<1>11. KeptFile(s.local, r.local, FALSE, O)
  <2>1. CASE r.local = s.local
    BY <2>1, SameFile
  <2>2. CASE r.local # s.local
    <3>1. g = FALSE /\ file = s.local /\ r.local = new /\ disk.info = "Ok"
      BY <1>3, <1>10, <2>2
    <3> HIDE DEF g, file
    <3>2. QED
      BY <1>6, <3>1
  <2>3. QED
    BY <2>1, <2>2
<1>12. KeptFile(s.global, r.global, TRUE, O)
  <2>1. CASE r.global = s.global
    BY <2>1, SameFile
  <2>2. CASE r.global # s.global
    <3>1. g = TRUE /\ file = s.global /\ r.global = new /\ disk.info = "Ok"
      BY <1>3, <1>10, <2>2
    <3> HIDE DEF g, file
    <3>2. QED
      BY <1>6, <3>1
  <2>3. QED
    BY <2>1, <2>2
<1>13. QED
  BY <1>2, <1>9, <1>11, <1>12 DEF r

\* sync() keeps them, whatever goes wrong in it.
LEMMA SyncKeeps ==
    ASSUME ObjectOk, NEW O, MemoryOk(entryMap, O), NEW t
    PROVE  LET s == SyncEffect(t)
           IN  /\ MemoryOk(s.map, O)
               /\ KeptFile(localFile, s.local, FALSE, O) /\ KeptFile(globalFile, s.global, TRUE, O)
<1> DEFINE now == [map |-> entryMap, dirty |-> bDirty, local |-> localFile,
                   global |-> globalFile, ok |-> FALSE]
           clean == [now EXCEPT !.dirty = FALSE, !.ok = TRUE]
           wg == "IncludeGlobals" \in flags /\ Pending(entryMap, TRUE)
           wl == Pending(entryMap, FALSE)
           s1 == SyncFile(clean, "global", wg, "globalWrite" \in t)
           s2 == SyncFile(s1, "local", wl, "localWrite" \in t)
           s == SyncEffect(t)
<1>1. IsSync(clean)
  BY DEF ObjectOk, IsSync
<1>2. s = now \/ s = [now EXCEPT !.ok = TRUE] \/ s = GiveUp(now) \/ s = s2
  <2>1. s = now \/ s = [now EXCEPT !.ok = TRUE] \/ s = SyncBoth(now, t, wg, wl)
    BY Zenon DEF SyncEffect
  <2>2. SyncBoth(now, t, wg, wl) = GiveUp(now) \/ SyncBoth(now, t, wg, wl) = s2
    BY Zenon DEF SyncBoth
  <2>3. QED
    BY <2>1, <2>2
<1>3. CASE s # s2
  <2>1. s.map = entryMap /\ s.local = localFile /\ s.global = globalFile
    <3> DEFINE P(r) == r.map = entryMap /\ r.local = localFile /\ r.global = globalFile
    <3>1. P(now) /\ P([now EXCEPT !.ok = TRUE]) /\ P(GiveUp(now))
      BY DEF GiveUp
    <3>2. P(s)
      <4> HIDE DEF P, now, s2, s
      <4>1. QED
        BY <1>2, <1>3, <3>1
    <3>3. QED
      BY <3>2
  <2> HIDE DEF s
  <2>2. QED
    BY <2>1, SameFile DEF s
<1>4. CASE s = s2
  <2>0. /\ clean.map = entryMap /\ clean.local = localFile /\ clean.global = globalFile
        /\ wg \in BOOLEAN /\ wl \in BOOLEAN
        /\ ("globalWrite" \in t) \in BOOLEAN /\ ("localWrite" \in t) \in BOOLEAN
    BY DEF Pending
  <2> HIDE DEF clean, now, wg, wl
  <2>1. /\ IsSync(s1) /\ MemoryOk(s1.map, O)
        /\ KeptFile(localFile, s1.local, FALSE, O) /\ KeptFile(globalFile, s1.global, TRUE, O)
    BY <1>1, <2>0, SyncFileKeeps
  <2> HIDE DEF s1
  <2>2. /\ MemoryOk(s2.map, O)
        /\ KeptFile(s1.local, s2.local, FALSE, O) /\ KeptFile(s1.global, s2.global, TRUE, O)
    BY <2>0, <2>1, SyncFileKeeps
  <2> HIDE DEF s2
  <2>3. ASSUME NEW a, NEW b, NEW c, NEW g, KeptFile(a, b, g, O), KeptFile(b, c, g, O)
        PROVE  KeptFile(a, c, g, O)
    <3> SUFFICES ASSUME FileOk(a, g)
                 PROVE  /\ FileOk(c, g)
                        /\ \A k \in EntryKey : k.name # Marker /\ <<k.group, k.name>> \notin O =>
                               SameText(Disk(c, g), Disk(a, g), k)
      BY DEF KeptFile
    <3>1. FileOk(b, g) /\ FileOk(c, g)
      BY <2>3 DEF KeptFile
    <3>2. ASSUME NEW k \in EntryKey, k.name # Marker, <<k.group, k.name>> \notin O
          PROVE  SameText(Disk(c, g), Disk(a, g), k)
      <4>1. SameText(Disk(c, g), Disk(b, g), k) /\ SameText(Disk(b, g), Disk(a, g), k)
        BY <2>3, <3>1, <3>2 DEF KeptFile
      <4>2. QED
        BY <4>1 DEF SameText
    <3>3. QED
      BY <3>1, <3>2
  <2>4. QED
    BY <1>4, <2>1, <2>2, <2>3
<1>5. QED
  BY <1>3, <1>4

-----------------------------------------------------------------------------
(* What the application's calls make dirty *)

\* One slot, unless it is for a default.
LEMMA SetOne ==
    ASSUME NEW keys, NEW m, OnlyDirty(m, keys), NEW g, NEW n, NEW v \in Values \cup {NoValue},
           NEW o, "Default" \notin o, "Dirty" \in o => Slot(g, n, "Localized" \in o, FALSE) \in keys
    PROVE  OnlyDirty(SetEntry(m, g, n, v, o), keys)
<1> DEFINE k == Slot(g, n, "Localized" \in o, "Default" \in o)
           out == Outcome(m, k, v, o)
           own == Assign(m, k, v, o)
<1>1. ("Default" \in o) = FALSE
  OBVIOUS
<1>2. k.default = FALSE /\ k = Slot(g, n, "Localized" \in o, FALSE)
  BY <1>1 DEF Slot
<1>3. SetEntry(m, g, n, v, o) = DropLocalized(own, k, out)
  BY <1>2 DEF SetEntry
<1>4. "Dirty" \in o => k \in keys
  BY <1>2
<1> HIDE DEF k, out
<1>5. OnlyDirty(own, keys)
  BY <1>4, AssignDirty
<1> HIDE DEF own
<1>6. OnlyDirty(DropLocalized(own, k, out), keys)
  BY <1>5, DropDirty
<1>7. QED
  BY <1>3, <1>6

\* The slots of more keys are more slots.
LEMMA MoreOurs ==
    ASSUME NEW O, NEW chosen, NEW m, OnlyDirty(m, OurSlots(O))
    PROVE  /\ OurSlots(O) \subseteq OurSlots(O \cup chosen)
           /\ OnlyDirty(m, OurSlots(O \cup chosen))
BY DEF OurSlots, OnlyDirty

\* The application's calls make the slots dirty of the keys they are for.
LEMMA AppCallOurs ==
    ASSUME ObjectOk, AppCall, Unlocalized, OnlyDirty(entryMap, OurSlots(ours))
    PROVE  ours \subseteq ours' /\ OnlyDirty(entryMap', OurSlots(ours'))
<1>1. PICK key \in Touched, o \in setup.writeOptions :
          \/ \E v \in Values : WriteEntry(key[1], key[2], v, o)
          \/ DeleteEntry(key[1], key[2], o)
          \/ RevertToDefault(key[1], key[2], o)
          \/ DeleteGroup(key[1], o)
  BY DEF AppCall
<1> DEFINE g == key[1]
           n == key[2]
<1>2. /\ g \in Groups \ {NoGroup} /\ n \in Names /\ n # Marker
      /\ \A l, d \in BOOLEAN : Slot(g, n, l, d) \in EntryKey
      /\ "Localized" \notin o /\ "Default" \notin o
  <2>1. key \in (Groups \ {NoGroup}) \X PlainNames
    BY ConfigAssumption
  <2>2. g \in Groups \ {NoGroup} /\ n \in Names /\ n # Marker
    BY <2>1, IniAssumption, SentinelAssumption
  <2>3. o \in AppOptions
    BY ConfigAssumption DEF ObjectOk
  <2>4. "Localized" \notin o /\ "Default" \notin o
    BY <2>3 DEF Unlocalized, AppOptions
  <2>5. QED
    BY <2>2, <2>4, TouchedType
<1> HIDE DEF g, n
<1>3. Slot(g, n, FALSE, FALSE) \in OurSlots(ours \cup {<<g, n>>})
  BY <1>2 DEF OurSlots, Slot
<1>4. ASSUME NEW v \in Values \cup {NoValue}, PutData(g, n, v, o)
      PROVE  ours \subseteq ours' /\ OnlyDirty(entryMap', OurSlots(ours'))
  <2> DEFINE p == PutOptions(v, o)
             keys == OurSlots(ours \cup {<<g, n>>})
  <2>1. ours' = ours \cup {<<g, n>>} /\ entryMap' = SetEntry(entryMap, g, n, v, p)
    BY <1>4 DEF PutData, Call, PutMap
  <2>2. ("Localized" \in p) = FALSE /\ "Default" \notin p
    BY <1>2 DEF PutOptions, When
  <2> HIDE DEF p
  <2>3. OnlyDirty(entryMap, keys) /\ Slot(g, n, "Localized" \in p, FALSE) \in keys
    BY <1>3, <2>2, MoreOurs
  <2> HIDE DEF keys
  <2>4. OnlyDirty(SetEntry(entryMap, g, n, v, p), keys)
    BY <2>2, <2>3, SetOne
  <2>5. QED
    BY <2>1, <2>4 DEF keys
<1>5. CASE RevertToDefault(g, n, o)
  <2> DEFINE k == Slot(g, n, FALSE, FALSE)
             keys == OurSlots(ours \cup {<<g, n>>})
             m == RevertEntry(entryMap, g, n, o)
  <2>1. ours' = ours \cup {<<g, n>>} /\ entryMap' = m
    BY <1>5 DEF RevertToDefault, Call
  <2>2. OnlyDirty(entryMap, keys) /\ k \in keys
    BY <1>3, MoreOurs
  <2>3. OnlyDirty(m, EntryKey)
    BY RevertDirty DEF ObjectOk
  <2>4. \A i \in EntryKey : i # k => m[i] = entryMap[i]
    BY DEF RevertEntry, ObjectOk, OnlyDirty
  <2> HIDE DEF k, keys, m
  <2>5. OnlyDirty(m, keys)
    BY <2>2, <2>3, <2>4 DEF OnlyDirty, Has
  <2>6. QED
    BY <2>1, <2>5 DEF keys
<1>6. CASE DeleteGroup(g, o)
  <2> DEFINE dead == Deletable(entryMap, bFileImmutable, g)
             O == ours \cup {<<k.group, k.name>> : k \in dead}
             keys == OurSlots(O)
             q == o \cup {"Deleted"}
             del(k) == SetEntry(entryMap, k.group, k.name, NoValue, q)
             m == DeleteGroupMap(entryMap, bFileImmutable, g, o)
  <2>1. ours' = O /\ entryMap' = m
    BY <1>6 DEF DeleteGroup, Call
  <2>2. OnlyDirty(entryMap, keys)
    BY MoreOurs
  <2>3. ASSUME NEW k \in dead
        PROVE  OnlyDirty(del(k), keys)
    <3>1. k \in EntryKey /\ k.group \in SubGroups[g] /\ k.name \in Names
      BY DEF Deletable, KeyList
    <3>2. k.group # NoGroup /\ k.name # Marker
      BY <1>2, <3>1, CallsAssumption, SentinelAssumption
    <3>3. Slot(k.group, k.name, FALSE, FALSE) \in keys
      BY <3>1, <3>2 DEF OurSlots, Slot, EntryKey
    <3>4. ("Localized" \in q) = FALSE /\ "Default" \notin q
      BY <1>2
    <3>5. Slot(k.group, k.name, "Localized" \in q, FALSE) \in keys
      BY <3>3, <3>4
    <3> HIDE DEF keys, q, dead
    <3>6. QED
      BY <2>2, <3>4, <3>5, SetOne
  <2>4. /\ m = [k \in EntryKey |-> m[k]]
        /\ \A k \in EntryKey : m[k] = IF k \in dead THEN del(k)[k] ELSE entryMap[k]
    BY DEF DeleteGroupMap
  <2> HIDE DEF m, dead, keys, O
  <2>5. \A k \in EntryKey : k \in dead /\ Has(del(k), k) =>
            IsKEntry(del(k)[k]) /\ (del(k)[k].dirty => k \in keys)
    BY <2>3 DEF OnlyDirty
  <2> HIDE DEF del
  <2>6. OnlyDirty(m, keys)
    BY <2>2, <2>4, <2>5 DEF OnlyDirty, Has
  <2>7. QED
    BY <2>1, <2>6 DEF keys, O
<1>7. QED
  <2>1. CASE \E v \in Values : WriteEntry(g, n, v, o)
    BY <1>4, <2>1 DEF WriteEntry
  <2>2. CASE DeleteEntry(g, n, o)
    BY <1>4, <2>2 DEF DeleteEntry
  <2>3. QED
    BY <1>1, <1>5, <1>6, <2>1, <2>2 DEF g, n

-----------------------------------------------------------------------------
(* The keys of other programs *)

\* The files that the user and other programs leave are read back as they are written.
PlainFiles ==
    /\ \A file \in setup.localFiles : Plainly(file, FALSE)
    /\ \A file \in setup.globalFiles : Plainly(file, TRUE)

\* What the next sync needs to keep them.
KeepsOthers ==
    /\ TheirFiles /\ OnlyDirty(entryMap, OurSlots(ours))
    /\ FileOk(localFile, FALSE) /\ FileOk(globalFile, TRUE)
    /\ OthersKept

\* A key of a file that the application did not ask to change stays as another program left it,
\* whatever the application calls and whatever goes wrong in a sync: while the application makes no
\* localized calls, other programs' files are plain, and memory has no locked group, whose header
\* would be written as locked.
THEOREM OthersMerged ==
    Spec => ([](Unlocalized /\ PlainFiles /\ LocksNoGroup(entryMap)) => []OthersKept)
<1> DEFINE H == Unlocalized /\ PlainFiles /\ LocksNoGroup(entryMap)
<1>1. ASSUME ObjectOk, H, Init
      PROVE  KeepsOthers
  <2>1. TheirFiles /\ theirs.local = localFile /\ theirs.global = globalFile
    BY <1>1 DEF Init, TheirFiles
  <2>2. localFile \in Seq(Line) /\ globalFile \in Seq(Line)
    BY <1>1, <2>1, ConfigAssumption DEF ObjectOk, TheirFiles
  <2>3. Plainly(localFile, FALSE) /\ Plainly(globalFile, TRUE)
    BY <1>1, <2>1 DEF PlainFiles, TheirFiles
  <2>4. FileOk(localFile, FALSE) /\ FileOk(globalFile, TRUE)
    BY <2>2, <2>3, PlainlyOk
  <2>5. OnlyDirty(entryMap, OurSlots(ours))
    <3>1. /\ entryMap = Reread(flags, <<>>, localFile, globalFile).map
          /\ <<>> \in Seq(Seq(Line)) /\ IsFile(localFile) /\ IsFile(globalFile)
          /\ setup \in Setups
      BY <1>1 DEF Init, ObjectOk
    <3>2. OnlyDirty(entryMap, {})
      BY <3>1, RereadDirty
    <3>3. QED
      BY <3>2 DEF OnlyDirty
  <2>6. OthersKept
    BY <2>1 DEF OthersKept, SameText
  <2>7. QED
    BY <2>1, <2>4, <2>5, <2>6 DEF KeepsOthers
<1>2. ASSUME ObjectOk, KeepsOthers, H, [Next]_vars
      PROVE  KeepsOthers'
  <2>1. UNCHANGED setup
    BY <1>2 DEF Next, WriteEntry, DeleteEntry, PutData, RevertToDefault, DeleteGroup, MarkAsClean,
                Call, Sync, Reparse, AddConfigSources, OtherProgram, vars
  <2>2. ASSUME UNCHANGED <<files, theirs>>, ours \subseteq ours',
               OnlyDirty(entryMap', OurSlots(ours'))
        PROVE  KeepsOthers'
    BY <1>2, <2>1, <2>2 DEF KeepsOthers, TheirFiles, OthersKept, files
  <2>3. CASE AppCall
    BY <1>2, <2>2, <2>3, AppCallGives, AppCallOurs DEF KeepsOthers
  <2>4. CASE MarkAsClean
    <3>1. UNCHANGED <<files, theirs>> /\ ours' = ours
      BY <2>4 DEF MarkAsClean, Call
    <3>2. OnlyDirty(entryMap', {})
      BY <1>2, <2>4, CleanDirty DEF MarkAsClean, ObjectOk
    <3>3. OnlyDirty(entryMap', OurSlots(ours'))
      BY <3>2 DEF OnlyDirty
    <3>4. QED
      BY <2>2, <3>1, <3>3
  <2>5. CASE UNCHANGED vars
    BY <1>2, <2>5 DEF KeepsOthers, TheirFiles, OthersKept, vars, files, object, history
  <2>6. CASE \E t : SyncStep(t)
    <3>1. PICK t : SyncStep(t)
      BY <2>6
    <3> DEFINE s == SyncEffect(t)
    <3>2. MemoryOk(entryMap, ours)
      BY <1>2 DEF KeepsOthers, MemoryOk
    <3>3. /\ MemoryOk(s.map, ours)
          /\ KeptFile(localFile, s.local, FALSE, ours)
          /\ KeptFile(globalFile, s.global, TRUE, ours)
      BY <1>2, <3>2, SyncKeeps
    <3>4. /\ localFile' = s.local /\ globalFile' = s.global
          /\ entryMap' = s.map \/ OnlyDirty(entryMap', {})
          /\ UNCHANGED theirs
      BY <1>2, <3>1, SyncStepGives
    <3>5. ours' = ours
      BY <3>1 DEF SyncStep, Sync, Reparse, AddConfigSources
    <3> HIDE DEF s
    <3>6. OnlyDirty(entryMap', OurSlots(ours))
      BY <3>3, <3>4 DEF MemoryOk, OnlyDirty
    <3>7. FileOk(localFile', FALSE) /\ FileOk(globalFile', TRUE)
      BY <1>2, <3>3, <3>4 DEF KeepsOthers, KeptFile
    <3>8. ASSUME NEW k \in EntryKey, k.name # Marker, <<k.group, k.name>> \notin ours
          PROVE  /\ SameText(Disk(localFile', FALSE), Disk(theirs.local, FALSE), k)
                 /\ SameText(Disk(globalFile', TRUE), Disk(theirs.global, TRUE), k)
      <4>1. /\ SameText(Disk(localFile', FALSE), Disk(localFile, FALSE), k)
            /\ SameText(Disk(globalFile', TRUE), Disk(globalFile, TRUE), k)
        BY <1>2, <3>3, <3>4, <3>8 DEF KeepsOthers, KeptFile
      <4>2. /\ SameText(Disk(localFile, FALSE), Disk(theirs.local, FALSE), k)
            /\ SameText(Disk(globalFile, TRUE), Disk(theirs.global, TRUE), k)
        BY <1>2, <3>8 DEF KeepsOthers, OthersKept
      <4>3. QED
        BY <4>1, <4>2 DEF SameText
    <3>9. OthersKept'
      BY <3>4, <3>5, <3>8 DEF OthersKept
    <3>10. QED
      BY <1>2, <2>1, <3>4, <3>5, <3>6, <3>7, <3>9 DEF KeepsOthers, TheirFiles
  <2>7. CASE OtherProgram
    <3>1. \/ /\ localFile' \in setup.localFiles /\ UNCHANGED globalFile
             /\ theirs' = [theirs EXCEPT !.local = localFile']
          \/ /\ globalFile' \in setup.globalFiles /\ UNCHANGED localFile
             /\ theirs' = [theirs EXCEPT !.global = globalFile']
      BY <2>7 DEF OtherProgram
    <3>2. UNCHANGED <<entryMap, ours>>
      BY <2>7 DEF OtherProgram, object
    <3>3. TheirFiles'
      BY <1>2, <2>1, <3>1 DEF KeepsOthers, TheirFiles
    <3>4. \/ UNCHANGED globalFile /\ theirs'.local = localFile' /\ theirs'.global = theirs.global
          \/ UNCHANGED localFile /\ theirs'.global = globalFile' /\ theirs'.local = theirs.local
      BY <1>2, <3>1 DEF KeepsOthers, TheirFiles
    <3>5. \A file \in Seq(Line) : /\ Plainly(file, FALSE) => FileOk(file, FALSE)
                                  /\ Plainly(file, TRUE) => FileOk(file, TRUE)
      BY PlainlyOk
    <3>6. /\ setup.localFiles \cup setup.globalFiles \subseteq Seq(Line)
      BY <1>2, ConfigAssumption DEF ObjectOk
    <3>7. FileOk(localFile', FALSE) /\ FileOk(globalFile', TRUE)
      BY <1>2, <3>1, <3>5, <3>6 DEF PlainFiles, KeepsOthers
    <3>8. OthersKept'
      BY <1>2, <3>2, <3>4 DEF KeepsOthers, OthersKept, SameText
    <3>9. QED
      BY <1>2, <3>2, <3>3, <3>7, <3>8 DEF KeepsOthers
  <2>8. QED
    BY <1>2, <2>3, <2>4, <2>5, <2>6, <2>7 DEF Next, AppCall, SyncStep
<1>3. KeepsOthers => OthersKept
  BY DEF KeepsOthers
<1>4. QED
  BY <1>1, <1>2, <1>3, ObjectInvariant, PTL DEF Spec
=============================================================================
