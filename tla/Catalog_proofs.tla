--------------------------- MODULE Catalog_proofs ---------------------------
(***************************************************************************)
(* Conditions on a manifest under which its services do not get in each    *)
(* other's way, and that every manifest of the catalog meets them.         *)
(***************************************************************************)
EXTENDS Composition, FiniteSetTheorems, SequenceTheorems, TLAPS

-----------------------------------------------------------------------------
(* The conditions, of a manifest m.                                        *)

FilesOf(m, at) == {SpecAt(m, at).artifacts[i] : i \in DOMAIN SpecAt(m, at).artifacts}
RemoteOf(m, at) == {f \in FilesOf(m, at) : IsRemote(f)}
InlineOf(m, at) == FilesOf(m, at) \ RemoteOf(m, at)

\* Where the volumes of a spec keep a file, one place for each that the path begins with.
PlacesOf(m, at, path) ==
    LET mine == SpecAt(m, at).volumes
    IN {<< <<VolumeName(at, mine[i])>>, SubSeq(path, Len(mine[i].path) + 1, Len(path)) >> :
          i \in {j \in DOMAIN mine : Under(path, mine[j].path)}}

\* Joining names with dashes confuses no two services.
NamesApart(m) ==
    \A at, bt \in SpecsIn(m) :
      /\ MainName(at) = MainName(bt) => at = bt
      /\ \A f \in RemoteOf(m, at) : InitName(at, f) # MainName(bt)
      /\ \A f \in RemoteOf(m, at), g \in RemoteOf(m, bt) :
           InitName(at, f) = InitName(bt, g) => at = bt /\ f = g

\* Inline files of one name have one content.
FilesAgree(m) ==
    \A at, bt \in SpecsIn(m) : \A f \in InlineOf(m, at), g \in InlineOf(m, bt) :
        f.name = g.name => ContentOf(at, f.source) = ContentOf(bt, g.source)

\* A file to fetch has one place, and no other file is fetched to it.
PlacesApart(m) ==
    \A at, bt \in SpecsIn(m) : \A f \in RemoteOf(m, at), g \in RemoteOf(m, bt) :
      \A p \in PlacesOf(m, at, f.path), q \in PlacesOf(m, bt, g.path) :
         p = q <=> at = bt /\ f = g

\* There is a first volume that a file to fetch starts with; and it lies in each such
\* volume, not just next to it.
FilesHoused(m) ==
    \A at \in SpecsIn(m) : \A f \in RemoteOf(m, at) :
      LET mine == SpecAt(m, at).volumes
          hits == {i \in DOMAIN mine : StartsWith(f.path, mine[i].path)}
      IN /\ FirstOf(hits) # {}
         /\ \A i \in hits : Under(f.path, mine[i].path)

IsPath(path) == \E T : path \in Seq(T)

\* An inline file hides no other file and no volume of its spec.
BindsApart(m) ==
    \A at \in SpecsIn(m) : \A f \in InlineOf(m, at) :
      /\ IsPath(f.path)
      /\ \A g \in FilesOf(m, at) : Under(g.path, f.path) => g = f
      /\ \A i \in DOMAIN SpecAt(m, at).volumes : SpecAt(m, at).volumes[i].path # f.path

\* A reference names a spec and one of its ports.
Answered(m, r) ==
    /\ r.name # <<>>
    /\ \E at \in SpecsIn(m) :
         /\ MainName(at) = r.name
         /\ \E i \in DOMAIN SpecAt(m, at).ports : SpecAt(m, at).ports[i].name = r.port

RefsOf(m, at) ==
    LET args == SpecAt(m, at).args
    IN {args[i] : i \in {j \in DOMAIN args : args[j].kind = "ref"}}

RefsAnswered(m) == \A at \in SpecsIn(m) : \A r \in RefsOf(m, at) : Answered(m, r)

\* A spec with the extension has a sidecar, whose references all name that spec.
Watched(m) ==
    \A at \in SpecsIn(m) : SpecAt(m, at).babel # {} =>
      \E bt \in SpecsIn(m) :
        /\ MainName(bt) = at[1] \o at[2] \o <<"babel">>
        /\ {r.name : r \in RefsOf(m, bt)} = {at[1] \o at[2]}

FewSpecs(m) ==
    /\ IsFiniteSet(SpecsIn(m))
    /\ \A at \in SpecsIn(m) : IsFiniteSet(RemoteOf(m, at))

\* Ports are numbers, and there is one volume, if any.
Typed(m) ==
    \A at \in SpecsIn(m) :
      /\ \A i \in DOMAIN SpecAt(m, at).ports : SpecAt(m, at).ports[i].port \in Nat
      /\ SpecAt(m, at).volumes \in {<<>>, <<DataVolume>>}

WellFormed(m) ==
    /\ NamesApart(m) /\ FilesAgree(m) /\ PlacesApart(m) /\ FewSpecs(m)
    /\ FilesHoused(m) /\ BindsApart(m) /\ RefsAnswered(m) /\ Watched(m) /\ Typed(m)

-----------------------------------------------------------------------------
(* Joining names.                                                          *)

LEMMA JoinOne ==
  ASSUME NEW a, NEW b
  PROVE  <<a>> \o <<b>> = <<a, b>>
  <1> DEFINE t == <<a>> \o <<b>>
  <1>1. <<a>> \in Seq({a, b}) /\ <<b>> \in Seq({a, b})
    OBVIOUS
  <1>2. t \in Seq({a, b}) /\ Len(t) = 2 /\ \A i \in 1 .. 2 : t[i] = IF i <= 1 THEN <<a>>[i] ELSE <<b>>[i - 1]
    BY <1>1, ConcatProperties
  <1>3. t[1] = a /\ t[2] = b
    BY <1>2
  <1> HIDE DEF t
  <1>4. t = <<a, b>>
    BY <1>2, <1>3
  <1> QED  BY <1>4 DEF t

LEMMA JoinTwo ==
  ASSUME NEW a, NEW b, NEW c
  PROVE  <<a>> \o <<b, c>> = <<a, b, c>>
  <1> DEFINE t == <<a>> \o <<b, c>>
  <1>1. <<a>> \in Seq({a, b, c}) /\ <<b, c>> \in Seq({a, b, c})
    OBVIOUS
  <1>2. /\ t \in Seq({a, b, c}) /\ Len(t) = 3
        /\ \A i \in 1 .. 3 : t[i] = IF i <= 1 THEN <<a>>[i] ELSE <<b, c>>[i - 1]
    BY <1>1, ConcatProperties
  <1>3. t[1] = a /\ t[2] = b /\ t[3] = c
    BY <1>2
  <1> HIDE DEF t
  <1>4. t = <<a, b, c>>
    BY <1>2, <1>3
  <1> QED  BY <1>4 DEF t

LEMMA JoinThree ==
  ASSUME NEW a, NEW b, NEW c, NEW d
  PROVE  <<a>> \o <<b, c, d>> = <<a, b, c, d>>
  <1> DEFINE t == <<a>> \o <<b, c, d>>
  <1>1. <<a>> \in Seq({a, b, c, d}) /\ <<b, c, d>> \in Seq({a, b, c, d})
    OBVIOUS
  <1>2. /\ t \in Seq({a, b, c, d}) /\ Len(t) = 4
        /\ \A i \in 1 .. 4 : t[i] = IF i <= 1 THEN <<a>>[i] ELSE <<b, c, d>>[i - 1]
    BY <1>1, ConcatProperties
  <1>3. t[1] = a /\ t[2] = b /\ t[3] = c /\ t[4] = d
    BY <1>2
  <1> HIDE DEF t
  <1>4. t = <<a, b, c, d>>
    BY <1>2, <1>3
  <1> QED  BY <1>4 DEF t

LEMMA TuplesArePaths ==
  ASSUME NEW a, NEW b, NEW c, NEW d
  PROVE  /\ IsPath(<<a, b>>) /\ Len(<<a, b>>) = 2
         /\ IsPath(<<a, b, c, d>>) /\ Len(<<a, b, c, d>>) = 4
  <1>1. <<a, b>> \in Seq({a, b, c, d}) /\ <<a, b, c, d>> \in Seq({a, b, c, d})
    OBVIOUS
  <1> QED  BY <1>1 DEF IsPath

LEMMA JoinLast ==
  ASSUME NEW a, NEW b, NEW c
  PROVE  <<a, b>> \o <<c>> = <<a, b, c>>
  <1> DEFINE t == <<a, b>> \o <<c>>
  <1>1. <<a, b>> \in Seq({a, b, c}) /\ <<c>> \in Seq({a, b, c})
    OBVIOUS
  <1>2. /\ t \in Seq({a, b, c}) /\ Len(t) = 3
        /\ \A i \in 1 .. 3 : t[i] = IF i <= 2 THEN <<a, b>>[i] ELSE <<c>>[i - 2]
    BY <1>1, ConcatProperties
  <1>3. t[1] = a /\ t[2] = b /\ t[3] = c
    BY <1>2
  <1> HIDE DEF t
  <1>4. t = <<a, b, c>>
    BY <1>2, <1>3
  <1> QED  BY <1>4 DEF t

LEMMA JoinPairs ==
  ASSUME NEW a, NEW b, NEW c, NEW d
  PROVE  <<a, b>> \o <<c, d>> = <<a, b, c, d>>
  <1> DEFINE t == <<a, b>> \o <<c, d>>
  <1>1. <<a, b>> \in Seq({a, b, c, d}) /\ <<c, d>> \in Seq({a, b, c, d})
    OBVIOUS
  <1>2. /\ t \in Seq({a, b, c, d}) /\ Len(t) = 4
        /\ \A i \in 1 .. 4 : t[i] = IF i <= 2 THEN <<a, b>>[i] ELSE <<c, d>>[i - 2]
    BY <1>1, ConcatProperties
  <1>3. t[1] = a /\ t[2] = b /\ t[3] = c /\ t[4] = d
    BY <1>2
  <1> HIDE DEF t
  <1>4. t = <<a, b, c, d>>
    BY <1>2, <1>3
  <1> QED  BY <1>4 DEF t

-----------------------------------------------------------------------------
(* The form of the catalog's manifests.                                    *)

\* Pod and spec have names of one piece; a sidecar has one of two, and no files.
Plain(at) == \E a, s : at = << <<a>>, <<s>> >>
Sidecar(m, at) ==
    /\ \E a, s : at = << <<a>>, <<s, "babel">> >>
    /\ FilesOf(m, at) = {}

\* Files of one depth, two or more, that have different last names.
Level(fs) ==
    \E n \in Nat \ {0, 1} : \A f \in fs :
      /\ IsPath(f.path) /\ Len(f.path) = n
      /\ \A g \in fs : f.path[n] = g.path[n] => f = g

\* Remote files of one spec have different names, and different paths below the volume.
TidySpec(spec) ==
    LET mine == {spec.artifacts[i] : i \in DOMAIN spec.artifacts}
    IN /\ IsFiniteSet(mine) /\ Level(mine)
       /\ spec.volumes \in {<<>>, <<DataVolume>>}
       /\ \A i \in DOMAIN spec.ports : spec.ports[i].port \in Nat
       /\ \A b \in spec.babel : b.rpcUrl.kind = "ref"
       /\ \A f \in {h \in mine : IsRemote(h)} :
            /\ spec.volumes = <<DataVolume>>
            /\ Under(f.path, DataVolume.path) /\ StartsWith(f.path, DataVolume.path)
       /\ \A f, g \in {h \in mine : IsRemote(h)} :
            \/ f.name = g.name
            \/ SubSeq(f.path, 2, Len(f.path)) = SubSeq(g.path, 2, Len(g.path))
            => f = g

Tidy(m) ==
    /\ IsFiniteSet(SpecsIn(m))
    /\ \A at \in SpecsIn(m) :
         /\ Plain(at) \/ Sidecar(m, at)
         /\ \A bt \in SpecsIn(m) : Plain(at) /\ Plain(bt) /\ at[1] = bt[1] => at = bt
         /\ TidySpec(SpecAt(m, at))

LEMMA RemotesDiffer ==
  ASSUME NEW m, Tidy(m), NEW at \in SpecsIn(m), NEW f \in RemoteOf(m, at), NEW g \in RemoteOf(m, at),
         \/ f.name = g.name
         \/ SubSeq(f.path, 2, Len(f.path)) = SubSeq(g.path, 2, Len(g.path))
  PROVE  f = g
  <1> DEFINE mine == {SpecAt(m, at).artifacts[i] : i \in DOMAIN SpecAt(m, at).artifacts}
  <1>1. \A x, y \in {h \in mine : IsRemote(h)} :
            \/ x.name = y.name
            \/ SubSeq(x.path, 2, Len(x.path)) = SubSeq(y.path, 2, Len(y.path))
            => x = y
    BY DEF Tidy, TidySpec
  <1>2. f \in {h \in mine : IsRemote(h)} /\ g \in {h \in mine : IsRemote(h)}
    BY DEF RemoteOf, FilesOf
  <1> HIDE DEF mine
  <1> QED  BY <1>1, <1>2

LEMMA TidyNames ==
  ASSUME NEW m, Tidy(m)
  PROVE  NamesApart(m)
  <1>1. \A a, s : MainName(<< <<a>>, <<s>> >>) = <<a, s>>
    BY JoinOne DEF MainName
  <1>2. \A a, s : MainName(<< <<a>>, <<s, "babel">> >>) = <<a, s, "babel">>
    BY JoinTwo DEF MainName
  <1>3. \A a, s, f : InitName(<< <<a>>, <<s>> >>, f) = <<a, s, "init", f.name>>
    <2> TAKE a, s, f
    <2>1. InitName(<< <<a>>, <<s>> >>, f) = <<a>> \o <<s>> \o <<"init", f.name>>
      BY DEF InitName
    <2>2. <<a>> \o <<s>> = <<a, s>>
      BY JoinOne
    <2>3. <<a, s>> \o <<"init", f.name>> = <<a, s, "init", f.name>>
      BY JoinPairs
    <2> QED  BY <2>1, <2>2, <2>3
  <1>4. ASSUME NEW at \in SpecsIn(m) PROVE RemoteOf(m, at) # {} => Plain(at)
    BY DEF Tidy, Sidecar, RemoteOf
  <1>5. ASSUME NEW at \in SpecsIn(m), NEW bt \in SpecsIn(m), MainName(at) = MainName(bt)
        PROVE  at = bt
    <2>1. \A a, b, s, t : /\ <<a, s>> # <<b, t, "babel">>
                          /\ <<a, s>> = <<b, t>> => a = b /\ s = t
                          /\ <<a, s, "babel">> = <<b, t, "babel">> => a = b /\ s = t
      OBVIOUS
    <2>2. (Plain(at) \/ Sidecar(m, at)) /\ (Plain(bt) \/ Sidecar(m, bt))
      BY DEF Tidy
    <2> QED  BY <1>1, <1>2, <1>5, <2>1, <2>2 DEF Plain, Sidecar
  <1>6. ASSUME NEW at \in SpecsIn(m), NEW bt \in SpecsIn(m), NEW f \in RemoteOf(m, at)
        PROVE  InitName(at, f) # MainName(bt)
    <2>1. PICK a, s : at = << <<a>>, <<s>> >>
      BY <1>4 DEF Plain
    <2>2. Len(InitName(at, f)) = 4
      BY <1>3, <2>1
    <2>3. Len(MainName(bt)) \in {2, 3}
      <3>1. Plain(bt) \/ Sidecar(m, bt)
        BY DEF Tidy
      <3>2. CASE Plain(bt)
        BY <1>1, <3>2 DEF Plain
      <3>3. CASE Sidecar(m, bt)
        BY <1>2, <3>3 DEF Sidecar
      <3> QED  BY <3>1, <3>2, <3>3
    <2> QED  BY <2>2, <2>3
  <1>7. ASSUME NEW at \in SpecsIn(m), NEW bt \in SpecsIn(m),
               NEW f \in RemoteOf(m, at), NEW g \in RemoteOf(m, bt), InitName(at, f) = InitName(bt, g)
        PROVE  at = bt /\ f = g
    <2>1. PICK a, s : at = << <<a>>, <<s>> >>
      BY <1>4 DEF Plain
    <2>2. PICK b, t : bt = << <<b>>, <<t>> >>
      BY <1>4 DEF Plain
    <2>3. <<a, s, "init", f.name>> = <<b, t, "init", g.name>>
      <3>1. InitName(at, f) = <<a, s, "init", f.name>>
        BY <1>3, <2>1
      <3>2. InitName(bt, g) = <<b, t, "init", g.name>>
        BY <1>3, <2>2
      <3> QED  BY <1>7, <3>1, <3>2
    <2>4. a = b /\ s = t /\ f.name = g.name
      BY <2>3
    <2>5. at = bt
      BY <2>1, <2>2, <2>4
    <2> QED  BY <2>4, <2>5, RemotesDiffer
  <1> QED  BY <1>5, <1>6, <1>7 DEF NamesApart

LEMMA TidyPlaces ==
  ASSUME NEW m, Tidy(m)
  PROVE  PlacesApart(m)
  <1> SUFFICES ASSUME NEW at \in SpecsIn(m), NEW bt \in SpecsIn(m),
                      NEW f \in RemoteOf(m, at), NEW g \in RemoteOf(m, bt),
                      NEW p \in PlacesOf(m, at, f.path), NEW q \in PlacesOf(m, bt, g.path)
               PROVE  p = q <=> at = bt /\ f = g
    BY DEF PlacesApart
  <1>1. Plain(at) /\ Plain(bt)
    BY DEF Tidy, Sidecar, RemoteOf
  <1>2. ASSUME NEW ct \in SpecsIn(m), NEW path, NEW x \in PlacesOf(m, ct, path)
        PROVE  x = << <<ct[1] \o <<"data">> >>, SubSeq(path, 2, Len(path)) >>
    <2>1. SpecAt(m, ct).volumes \in {<<>>, <<DataVolume>>}
      BY DEF Tidy, TidySpec
    <2>2. PICK i \in DOMAIN SpecAt(m, ct).volumes :
            x = << <<VolumeName(ct, SpecAt(m, ct).volumes[i])>>,
                   SubSeq(path, Len(SpecAt(m, ct).volumes[i].path) + 1, Len(path)) >>
      BY DEF PlacesOf
    <2>3. SpecAt(m, ct).volumes[i] = DataVolume
      BY <2>1
    <2>4. DataVolume.name = "data" /\ Len(DataVolume.path) = 1
      BY DEF DataVolume, Volume
    <2> QED  BY <2>2, <2>3, <2>4 DEF VolumeName
  <1>3. PICK a, s : at = << <<a>>, <<s>> >>
    BY <1>1 DEF Plain
  <1>4. PICK b, t : bt = << <<b>>, <<t>> >>
    BY <1>1 DEF Plain
  <1>5. /\ p = << << <<a, "data">> >>, SubSeq(f.path, 2, Len(f.path)) >>
        /\ q = << << <<b, "data">> >>, SubSeq(g.path, 2, Len(g.path)) >>
    <2>1. at[1] \o <<"data">> = <<a, "data">> /\ bt[1] \o <<"data">> = <<b, "data">>
      BY <1>3, <1>4, JoinOne
    <2>2. /\ p = << <<at[1] \o <<"data">> >>, SubSeq(f.path, 2, Len(f.path)) >>
          /\ q = << <<bt[1] \o <<"data">> >>, SubSeq(g.path, 2, Len(g.path)) >>
      BY <1>2
    <2> QED  BY <2>1, <2>2
  <1>6. p = q => a = b /\ SubSeq(f.path, 2, Len(f.path)) = SubSeq(g.path, 2, Len(g.path))
    BY <1>5
  <1>7. a = b => at = bt
    BY <1>1, <1>3, <1>4 DEF Tidy
  <1>8. p = q => f = g
    BY <1>6, <1>7, RemotesDiffer
  <1>9. at = bt /\ f = g => p = q
    BY <1>3, <1>4, <1>5
  <1> QED  BY <1>6, <1>7, <1>8, <1>9

LEMMA TidyIsHoused ==
  ASSUME NEW m, Tidy(m)
  PROVE  FilesHoused(m) /\ Typed(m)
  <1>1. ASSUME NEW at \in SpecsIn(m), NEW f \in RemoteOf(m, at),
               NEW mine, mine = SpecAt(m, at).volumes,
               NEW hits, hits = {i \in DOMAIN mine : StartsWith(f.path, mine[i].path)}
        PROVE  FirstOf(hits) # {} /\ \A i \in hits : Under(f.path, mine[i].path)
    <2>1. /\ mine = <<DataVolume>>
          /\ Under(f.path, DataVolume.path) /\ StartsWith(f.path, DataVolume.path)
      <3>1. f \in {h \in {SpecAt(m, at).artifacts[i] : i \in DOMAIN SpecAt(m, at).artifacts} : IsRemote(h)}
        BY DEF RemoteOf, FilesOf
      <3> QED  BY <1>1, <3>1 DEF Tidy, TidySpec
    <2>2. DOMAIN mine = {1} /\ mine[1] = DataVolume
      BY <2>1
    <2>3. hits = {1}
      BY <1>1, <2>1, <2>2
    <2> QED  BY <2>1, <2>2, <2>3 DEF FirstOf
  <1>2. FilesHoused(m)
    BY <1>1 DEF FilesHoused
  <1>3. Typed(m)
    BY DEF Typed, Tidy, TidySpec
  <1> QED  BY <1>2, <1>3

\* Nothing lies under a file of the same depth but that file, and a volume lies higher.
LEMMA LevelApart ==
  ASSUME NEW fs, Level(fs), NEW f \in fs
  PROVE  /\ IsPath(f.path)
         /\ \A g \in fs : Under(g.path, f.path) => g = f
         /\ f.path # DataVolume.path
  <1>1. PICK n \in Nat \ {0, 1} : \A h \in fs :
          /\ IsPath(h.path) /\ Len(h.path) = n
          /\ \A g \in fs : h.path[n] = g.path[n] => h = g
    BY DEF Level
  <1>2. ASSUME NEW g \in fs, Under(g.path, f.path) PROVE g = f
    <2>1. /\ IsPath(g.path) /\ Len(g.path) = n /\ Len(f.path) = n
          /\ SubSeq(g.path, 1, n) = f.path
      BY <1>1, <1>2 DEF Under
    <2>p. PICK T : g.path \in Seq(T)
      BY <2>1 DEF IsPath
    <2>2. SubSeq(g.path, 1, n)[n] = g.path[n]
      BY <1>1, <2>1, <2>p
    <2> QED  BY <1>1, <2>1, <2>2
  <1>3. Len(DataVolume.path) = 1
    BY DEF DataVolume, Volume
  <1> QED  BY <1>1, <1>2, <1>3

LEMMA TidyBinds ==
  ASSUME NEW m, Tidy(m)
  PROVE  BindsApart(m)
  <1> SUFFICES ASSUME NEW at \in SpecsIn(m), NEW f \in InlineOf(m, at)
               PROVE  /\ IsPath(f.path)
                      /\ \A g \in FilesOf(m, at) : Under(g.path, f.path) => g = f
                      /\ \A i \in DOMAIN SpecAt(m, at).volumes : SpecAt(m, at).volumes[i].path # f.path
    BY DEF BindsApart
  <1>1. Level(FilesOf(m, at)) /\ f \in FilesOf(m, at)
    BY DEF Tidy, TidySpec, FilesOf, InlineOf
  <1>2. \A i \in DOMAIN SpecAt(m, at).volumes : SpecAt(m, at).volumes[i] = DataVolume
    <2>1. SpecAt(m, at).volumes \in {<<>>, <<DataVolume>>}
      BY DEF Tidy, TidySpec
    <2> QED  BY <2>1
  <1> QED  BY <1>1, <1>2, LevelApart

LEMMA TidyIsWellFormed ==
  ASSUME NEW m, Tidy(m), FilesAgree(m), RefsAnswered(m), Watched(m)
  PROVE  WellFormed(m)
  <1>1. FewSpecs(m)
    <2>1. \A at \in SpecsIn(m) : IsFiniteSet(RemoteOf(m, at))
      BY FS_Subset DEF Tidy, TidySpec, RemoteOf, FilesOf
    <2> QED  BY <2>1 DEF Tidy, FewSpecs
  <1> QED  BY <1>1, TidyNames, TidyPlaces, TidyIsHoused, TidyBinds DEF WellFormed

-----------------------------------------------------------------------------
(* What the builders make.                                                 *)

Added(m, a, s, P) == AddSpec(m, <<a>>, OneSpec(<<s>>, P))

\* A pod of one spec adds that spec and, if it has the extension, a sidecar.
LEMMA AddedSpecs ==
  ASSUME NEW m, NEW a, NEW s, NEW P, <<a>> \notin DOMAIN m,
         NEW m2, m2 = Added(m, a, s, P), NEW at \in SpecsIn(m2)
  PROVE  \/ at \in SpecsIn(m) /\ at[1] # <<a>> /\ SpecAt(m2, at) = SpecAt(m, at)
         \/ at = << <<a>>, <<s>> >> /\ SpecAt(m2, at) = P
         \/ at = << <<a>>, <<s, "babel">> >> /\ \E b \in P.babel : SpecAt(m2, at) = BabelSpec(b)
  <1> DEFINE pod == OneSpec(<<s>>, P)
  <1>1. /\ DOMAIN m2 = DOMAIN m \cup {<<a>>}
        /\ m2[<<a>>] = WithSidecars(pod)
        /\ \A p \in DOMAIN m : m2[p] = m[p]
    BY DEF Added, AddSpec
  <1>2. DOMAIN pod = {<<s>>} /\ pod[<<s>>] = P
    BY DEF OneSpec
  <1> HIDE DEF pod
  <1>3. ASSUME NEW n \in DOMAIN WithSidecars(pod)
        PROVE  \/ n = <<s>> /\ WithSidecars(pod)[n] = P
               \/ n = <<s, "babel">> /\ \E b \in P.babel : WithSidecars(pod)[n] = BabelSpec(b)
    <2>1. BabelName(<<s>>) = <<s, "babel">> /\ <<s, "babel">> # <<s>>
      BY JoinOne DEF BabelName
    <2> DEFINE carriers == {c \in DOMAIN pod : pod[c].babel # {}}
               sidecars == {BabelName(c) : c \in carriers}
    <2>2. DOMAIN WithSidecars(pod) = DOMAIN pod \cup sidecars
      BY DEF WithSidecars
    <2>3. n \in sidecars => \E b \in P.babel : WithSidecars(pod)[n] = BabelSpec(b)
      <3> SUFFICES ASSUME n \in sidecars PROVE \E b \in P.babel : WithSidecars(pod)[n] = BabelSpec(b)
        OBVIOUS
      <3> DEFINE theirs == UNION {pod[c].babel : c \in {d \in carriers : BabelName(d) = n}}
      <3>1. WithSidecars(pod)[n] = BabelSpec(CHOOSE b \in theirs : TRUE)
        BY DEF WithSidecars
      <3>2. theirs # {} /\ theirs \subseteq P.babel
        BY <1>2
      <3> QED  BY <3>1, <3>2
    <2>4. n \notin sidecars => WithSidecars(pod)[n] = pod[n]
      BY DEF WithSidecars
    <2>5. n \in sidecars => n = <<s, "babel">>
      BY <1>2, <2>1
    <2> HIDE DEF sidecars, carriers
    <2> QED  BY <1>2, <2>1, <2>2, <2>3, <2>4, <2>5
  <1>4. PICK p \in DOMAIN m2 : at \in {p} \X DOMAIN m2[p]
    BY DEF SpecsIn
  <1>5. at = <<at[1], at[2]>> /\ at[1] = p /\ at[2] \in DOMAIN m2[p]
    BY <1>4
  <1>6. SpecAt(m2, at) = m2[at[1]][at[2]]
    BY DEF SpecAt
  <1>7. CASE p = <<a>>
    <2>1. at[2] \in DOMAIN WithSidecars(pod) /\ SpecAt(m2, at) = WithSidecars(pod)[at[2]]
      BY <1>1, <1>5, <1>6, <1>7
    <2>2. at[2] \in {<<s>>, <<s, "babel">>} /\ at = << <<a>>, at[2] >>
      BY <1>3, <1>5, <1>7, <2>1
    <2>3. CASE at[2] = <<s>>
      <3>1. <<s>> # <<s, "babel">>
        OBVIOUS
      <3> QED  BY <1>3, <2>1, <2>2, <2>3, <3>1
    <2>4. CASE at[2] = <<s, "babel">>
      <3>1. <<s>> # <<s, "babel">>
        OBVIOUS
      <3>2. \E b \in P.babel : SpecAt(m2, at) = BabelSpec(b)
        BY <1>3, <2>1, <2>4, <3>1
      <3> QED  BY <2>2, <2>4, <3>2
    <2> QED  BY <2>2, <2>3, <2>4
  <1>8. CASE p # <<a>>
    <2>1. p \in DOMAIN m /\ m2[p] = m[p]
      BY <1>1, <1>8
    <2>2. at \in SpecsIn(m)
      BY <1>5, <2>1 DEF SpecsIn
    <2> QED  BY <1>5, <1>6, <1>8, <2>1, <2>2 DEF SpecAt
  <1> QED  BY <1>7, <1>8

Fields == {"args", "ports", "volumes", "artifacts", "babel"}

IsBuilder(b) ==
    /\ DOMAIN b = Fields
    /\ \E n \in Nat : DOMAIN b.ports = 1 .. n /\ Len(b.ports) = n
    /\ \A i \in DOMAIN b.ports : b.ports[i].port \in Nat
    /\ DOMAIN b.args \subseteq Nat \ {0}
    /\ \A j \in DOMAIN b.args : b.args[j].kind = "port" => b.args[j].preferred \in Nat

\* Building a spec settles its ports only.
LEMMA BuildKeeps ==
  ASSUME NEW b, DOMAIN b = Fields
  PROVE  /\ Build(b).artifacts = b.artifacts /\ Build(b).volumes = b.volumes
         /\ Build(b).args = b.args /\ Build(b).babel = b.babel
  BY DEF Build, Fields

HasPort(spec, name) == \E i \in DOMAIN spec.ports : spec.ports[i].name = name

\* The ports of a built spec are those given and those declared.
LEMMA BuildPorts ==
  ASSUME NEW b, IsBuilder(b)
  PROVE  /\ \A i \in DOMAIN Build(b).ports : Build(b).ports[i].port \in Nat
         /\ \A j \in DOMAIN b.args : b.args[j].kind = "port" => HasPort(Build(b), b.args[j].name)
  <1>n. PICK n \in Nat : DOMAIN b.ports = 1 .. n /\ Len(b.ports) = n
    BY DEF IsBuilder
  <1>b. /\ "ports" \in DOMAIN b
        /\ \A i \in 1 .. n : b.ports[i].port \in Nat
        /\ DOMAIN b.args \subseteq Nat \ {0}
        /\ \A j \in DOMAIN b.args : b.args[j].kind = "port" => b.args[j].preferred \in Nat
    BY <1>n DEF IsBuilder, Fields
  <1> DEFINE declared == {j \in DOMAIN b.args : b.args[j].kind = "port"}
  <1>1. Build(b).ports =
          [i \in (1 .. n) \cup {n + j : j \in declared} |->
             IF i \in 1 .. n THEN b.ports[i]
             ELSE DeclaredPorts(b.args)[i - n]]
    BY <1>n, <1>b DEF Build, DeclaredPorts
  <1>2. \A j \in declared : DeclaredPorts(b.args)[j] = [name |-> b.args[j].name, port |-> b.args[j].preferred]
    BY DEF DeclaredPorts, Port
  <1>3. \A j \in declared : j \in Nat \ {0} /\ b.args[j].preferred \in Nat
    BY <1>b
  <1>4. \A j \in DOMAIN b.args : b.args[j].kind = "port" => j \in declared
    OBVIOUS
  <1> HIDE DEF declared
  <1>5. ASSUME NEW j \in declared
        PROVE  /\ n + j \in DOMAIN Build(b).ports
               /\ Build(b).ports[n + j].name = b.args[j].name
               /\ Build(b).ports[n + j].port = b.args[j].preferred
    <2>1. n + j \in Nat /\ n + j \notin 1 .. n /\ (n + j) - n = j
      BY <1>3
    <2>2. n + j \in (1 .. n) \cup {n + k : k \in declared}
      OBVIOUS
    <2>3. Build(b).ports[n + j] = DeclaredPorts(b.args)[(n + j) - n]
      BY <1>1, <2>1, <2>2
    <2>4. DeclaredPorts(b.args)[(n + j) - n] = DeclaredPorts(b.args)[j]
      BY <2>1
    <2>5. n + j \in DOMAIN Build(b).ports
      BY <1>1, <2>2
    <2>6. Build(b).ports[n + j] = [name |-> b.args[j].name, port |-> b.args[j].preferred]
      <3>1. DeclaredPorts(b.args)[j] = [name |-> b.args[j].name, port |-> b.args[j].preferred]
        BY <1>2
      <3> QED  BY <2>3, <2>4, <3>1
    <2> QED  BY <2>5, <2>6
  <1>6. ASSUME NEW i \in DOMAIN Build(b).ports PROVE Build(b).ports[i].port \in Nat
    <2>1. CASE i \in 1 .. n
      BY <1>1, <1>b, <2>1
    <2>2. CASE i \notin 1 .. n
      <3>1. PICK j \in declared : i = n + j
        BY <1>1, <2>2
      <3> QED  BY <1>3, <1>5, <3>1
    <2> QED  BY <2>1, <2>2
  <1>7. ASSUME NEW j \in declared PROVE HasPort(Build(b), b.args[j].name)
    BY <1>5 DEF HasPort
  <1> QED  BY <1>4, <1>6, <1>7

\* A sidecar has no files, no volumes and no sidecar; it asks what it is told to ask.
LEMMA SidecarIsBare ==
  ASSUME NEW b
  PROVE  /\ BabelSpec(b).artifacts = <<>> /\ BabelSpec(b).volumes = <<>>
         /\ BabelSpec(b).babel = {} /\ BabelSpec(b).args = <<b.rpcUrl>>
         /\ b.rpcUrl.kind = "ref" =>
              \A i \in DOMAIN BabelSpec(b).ports : BabelSpec(b).ports[i].port \in Nat
  <1> DEFINE spec == [Builder EXCEPT !.args = <<b.rpcUrl>>, !.ports = <<Port("metrics", 3000)>>]
  <1>1. BabelSpec(b) = Build(spec)
    BY DEF BabelSpec
  <1>2. /\ spec.artifacts = <<>> /\ spec.volumes = <<>> /\ spec.babel = {}
        /\ spec.args = <<b.rpcUrl>> /\ spec.ports = <<Port("metrics", 3000)>>
        /\ DOMAIN spec = Fields
    BY DEF Builder, Fields
  <1> HIDE DEF spec
  <1>3. b.rpcUrl.kind = "ref" => \A i \in DOMAIN Build(spec).ports : Build(spec).ports[i].port \in Nat
    <2> SUFFICES ASSUME b.rpcUrl.kind = "ref"
                 PROVE  \A i \in DOMAIN Build(spec).ports : Build(spec).ports[i].port \in Nat
      OBVIOUS
    <2>1. spec.args[1].kind = "ref" /\ spec.ports[1].port = 3000
      BY <1>2 DEF Port
    <2>2. /\ Len(spec.ports) = 1 /\ DOMAIN spec.ports = 1 .. 1
          /\ DOMAIN spec.args = {1}
      BY <1>2
    <2>3. IsBuilder(spec)
      BY <1>2, <2>1, <2>2 DEF IsBuilder
    <2> QED  BY <2>3, BuildPorts
  <1> QED  BY <1>1, <1>2, <1>3, BuildKeeps

LEMMA NewIsTidy == Tidy(NewManifest) /\ SpecsIn(NewManifest) = {}
  <1>1. SpecsIn(NewManifest) = {}
    BY DEF SpecsIn, NewManifest
  <1> QED  BY <1>1, FS_EmptySet DEF Tidy

LEMMA AddedIsTidy ==
  ASSUME NEW m, NEW a, NEW s, NEW P, <<a>> \notin DOMAIN m, Tidy(m), TidySpec(P),
         NEW m2, m2 = Added(m, a, s, P)
  PROVE  Tidy(m2)
  <1>1. ASSUME NEW at \in SpecsIn(m2)
        PROVE  \/ at \in SpecsIn(m) /\ at[1] # <<a>> /\ SpecAt(m2, at) = SpecAt(m, at)
               \/ at = << <<a>>, <<s>> >> /\ SpecAt(m2, at) = P
               \/ at = << <<a>>, <<s, "babel">> >> /\ \E b \in P.babel : SpecAt(m2, at) = BabelSpec(b)
    BY <1>1, AddedSpecs
  <1>2. IsFiniteSet(SpecsIn(m2))
    <2>1. SpecsIn(m2) \subseteq SpecsIn(m) \cup {<< <<a>>, <<s>> >>} \cup {<< <<a>>, <<s, "babel">> >>}
      BY <1>1
    <2>2. IsFiniteSet(SpecsIn(m) \cup {<< <<a>>, <<s>> >>} \cup {<< <<a>>, <<s, "babel">> >>})
      BY FS_AddElement DEF Tidy
    <2> QED  BY <2>1, <2>2, FS_Subset
  <1>3. ASSUME NEW at \in SpecsIn(m2), at \in SpecsIn(m), at[1] # <<a>>, SpecAt(m2, at) = SpecAt(m, at)
        PROVE  (Plain(at) \/ Sidecar(m2, at)) /\ TidySpec(SpecAt(m2, at))
    BY <1>3 DEF Tidy, Sidecar, FilesOf
  <1>4. ASSUME NEW at \in SpecsIn(m2), at = << <<a>>, <<s>> >>, SpecAt(m2, at) = P
        PROVE  Plain(at) /\ TidySpec(SpecAt(m2, at))
    BY <1>4 DEF Plain
  <1>5. ASSUME NEW at \in SpecsIn(m2), at = << <<a>>, <<s, "babel">> >>,
               \E b \in P.babel : SpecAt(m2, at) = BabelSpec(b)
        PROVE  Sidecar(m2, at) /\ TidySpec(SpecAt(m2, at)) /\ ~Plain(at)
    <2>1. SpecAt(m2, at).artifacts = <<>> /\ SpecAt(m2, at).volumes = <<>>
      BY <1>5, SidecarIsBare
    <2>2. {SpecAt(m2, at).artifacts[i] : i \in DOMAIN SpecAt(m2, at).artifacts} = {}
      BY <2>1
    <2>3. Sidecar(m2, at)
      BY <1>5, <2>2 DEF Sidecar, FilesOf
    <2>4. TidySpec(SpecAt(m2, at))
      <3>1. PICK b \in P.babel : SpecAt(m2, at) = BabelSpec(b)
        BY <1>5
      <3>2. b.rpcUrl.kind = "ref"
        BY DEF TidySpec
      <3>3. Level({})
        BY DEF Level
      <3> QED  BY <2>1, <2>2, <3>1, <3>2, <3>3, SidecarIsBare, FS_EmptySet DEF TidySpec
    <2>5. \A b, t : at # << <<b>>, <<t>> >>
      <3> SUFFICES ASSUME NEW b, NEW t PROVE <<s, "babel">> # <<t>>
        BY <1>5
      <3> QED  OBVIOUS
    <2> QED  BY <2>3, <2>4, <2>5 DEF Plain
  <1>6. ASSUME NEW at \in SpecsIn(m2), NEW bt \in SpecsIn(m2), Plain(at), Plain(bt), at[1] = bt[1]
        PROVE  at = bt
    <2>1. \/ at \in SpecsIn(m) /\ at[1] # <<a>>
          \/ at = << <<a>>, <<s>> >>
      BY <1>1, <1>5, <1>6
    <2>2. \/ bt \in SpecsIn(m) /\ bt[1] # <<a>>
          \/ bt = << <<a>>, <<s>> >>
      BY <1>1, <1>5, <1>6
    <2> QED  BY <1>6, <2>1, <2>2 DEF Tidy
  <1>7. \A at \in SpecsIn(m2) : (Plain(at) \/ Sidecar(m2, at)) /\ TidySpec(SpecAt(m2, at))
    BY <1>1, <1>3, <1>4, <1>5
  <1> QED  BY <1>2, <1>6, <1>7 DEF Tidy

\* A pod that is added changes nothing of those before it.
LEMMA AddedStays ==
  ASSUME NEW m, NEW a, NEW s, NEW P, <<a>> \notin DOMAIN m, NEW m2, m2 = Added(m, a, s, P),
         NEW at \in SpecsIn(m)
  PROVE  at \in SpecsIn(m2) /\ SpecAt(m2, at) = SpecAt(m, at)
  <1>1. PICK p \in DOMAIN m : at \in {p} \X DOMAIN m[p]
    BY DEF SpecsIn
  <1>2. at = <<at[1], at[2]>> /\ at[1] = p /\ at[2] \in DOMAIN m[p]
    BY <1>1
  <1>3. p \in DOMAIN m2 /\ m2[p] = m[p]
    BY <1>1 DEF Added, AddSpec
  <1> QED  BY <1>2, <1>3 DEF SpecsIn, SpecAt

Holds(m, at, spec) == at \in SpecsIn(m) /\ SpecAt(m, at) = spec

LEMMA AddedMain ==
  ASSUME NEW m, NEW a, NEW s, NEW P, NEW m2, m2 = Added(m, a, s, P)
  PROVE  /\ Holds(m2, << <<a>>, <<s>> >>, P)
         /\ P.babel # {} => << <<a>>, <<s, "babel">> >> \in SpecsIn(m2)
  <1> DEFINE pod == OneSpec(<<s>>, P)
  <1>1. <<a>> \in DOMAIN m2 /\ m2[<<a>>] = WithSidecars(pod)
    BY DEF Added, AddSpec
  <1>2. DOMAIN pod = {<<s>>} /\ pod[<<s>>] = P
    BY DEF OneSpec
  <1>3. BabelName(<<s>>) = <<s, "babel">> /\ <<s, "babel">> # <<s>>
    BY JoinOne DEF BabelName
  <1> HIDE DEF pod
  <1> DEFINE carriers == {c \in DOMAIN pod : pod[c].babel # {}}
             sidecars == {BabelName(c) : c \in carriers}
  <1>4. /\ DOMAIN WithSidecars(pod) = DOMAIN pod \cup sidecars
        /\ \A n \in DOMAIN pod : n \notin sidecars => WithSidecars(pod)[n] = pod[n]
    BY DEF WithSidecars
  <1>5. <<s>> \notin sidecars /\ (P.babel # {} => <<s, "babel">> \in sidecars)
    <2>1. \A c \in carriers : c = <<s>>
      BY <1>2
    <2>2. P.babel # {} => <<s>> \in carriers
      BY <1>2
    <2> HIDE DEF carriers
    <2> QED  BY <1>3, <2>1, <2>2
  <1> HIDE DEF sidecars
  <1>6. \A n \in DOMAIN WithSidecars(pod) :
          << <<a>>, n >> \in SpecsIn(m2) /\ SpecAt(m2, << <<a>>, n >>) = WithSidecars(pod)[n]
    BY <1>1 DEF SpecsIn, SpecAt
  <1> QED  BY <1>2, <1>4, <1>5, <1>6 DEF Holds

LEMMA AddedAnswers ==
  ASSUME NEW m, NEW a, NEW s, NEW P, NEW m2, m2 = Added(m, a, s, P),
         NEW r, r.name = <<a, s>>, HasPort(P, r.port)
  PROVE  Answered(m2, r)
  <1> DEFINE main == << <<a>>, <<s>> >>
  <1>1. Holds(m2, main, P)
    BY AddedMain
  <1>3. MainName(main) = r.name
    BY JoinOne DEF MainName
  <1> HIDE DEF main
  <1>2. main \in SpecsIn(m2) /\ SpecAt(m2, main) = P
    BY <1>1 DEF Holds
  <1>4. r.name # <<>>
    OBVIOUS
  <1> QED  BY <1>2, <1>3, <1>4 DEF Answered, HasPort

\* References that are answered stay answered; those of a new pod are to be.
LEMMA AddedServes ==
  ASSUME NEW m, NEW a, NEW s, NEW P, <<a>> \notin DOMAIN m, NEW m2, m2 = Added(m, a, s, P),
         RefsAnswered(m), Watched(m),
         \A i \in DOMAIN P.args : P.args[i].kind = "ref" => Answered(m2, P.args[i]),
         \A b \in P.babel : /\ b.rpcUrl.kind = "ref" /\ b.rpcUrl.name = <<a, s>>
                            /\ HasPort(P, b.rpcUrl.port)
  PROVE  RefsAnswered(m2) /\ Watched(m2)
  <1>1. ASSUME NEW at \in SpecsIn(m2)
        PROVE  \/ at \in SpecsIn(m) /\ at[1] # <<a>> /\ SpecAt(m2, at) = SpecAt(m, at)
               \/ at = << <<a>>, <<s>> >> /\ SpecAt(m2, at) = P
               \/ at = << <<a>>, <<s, "babel">> >> /\ \E b \in P.babel : SpecAt(m2, at) = BabelSpec(b)
    BY <1>1, AddedSpecs
  <1>2. MainName(<< <<a>>, <<s>> >>) = <<a, s>>
    BY JoinOne DEF MainName
  <1>3. \A at \in SpecsIn(m) : at \in SpecsIn(m2) /\ SpecAt(m2, at) = SpecAt(m, at)
    BY AddedStays
  <1>4. \A r : Answered(m, r) => Answered(m2, r)
    BY <1>3 DEF Answered
  <1>5. \A b \in P.babel : Answered(m2, b.rpcUrl)
    BY AddedAnswers
  <1>6. ASSUME NEW at \in SpecsIn(m2), NEW b \in P.babel, SpecAt(m2, at) = BabelSpec(b)
        PROVE  RefsOf(m2, at) = {b.rpcUrl}
    <2>1. SpecAt(m2, at).args = <<b.rpcUrl>>
      BY <1>6, SidecarIsBare
    <2> QED  BY <2>1 DEF RefsOf
  <1>7. ASSUME NEW at \in SpecsIn(m2), NEW r \in RefsOf(m2, at) PROVE Answered(m2, r)
    <2>1. CASE at \in SpecsIn(m) /\ SpecAt(m2, at) = SpecAt(m, at)
      <3>1. r \in RefsOf(m, at)
        BY <1>7, <2>1 DEF RefsOf
      <3> QED  BY <1>4, <2>1, <3>1 DEF RefsAnswered
    <2>2. CASE SpecAt(m2, at) = P
      BY <1>7, <2>2 DEF RefsOf
    <2>3. CASE \E b \in P.babel : SpecAt(m2, at) = BabelSpec(b)
      BY <1>5, <1>6, <1>7, <2>3
    <2> QED  BY <1>1, <2>1, <2>2, <2>3
  <1>8. ASSUME NEW at \in SpecsIn(m2), SpecAt(m2, at).babel # {}
        PROVE  \E bt \in SpecsIn(m2) :
                 /\ MainName(bt) = at[1] \o at[2] \o <<"babel">>
                 /\ {r.name : r \in RefsOf(m2, bt)} = {at[1] \o at[2]}
    <2>1. CASE at \in SpecsIn(m) /\ SpecAt(m2, at) = SpecAt(m, at)
      <3>1. PICK bt \in SpecsIn(m) :
              /\ MainName(bt) = at[1] \o at[2] \o <<"babel">>
              /\ {r.name : r \in RefsOf(m, bt)} = {at[1] \o at[2]}
        BY <1>8, <2>1 DEF Watched
      <3>2. bt \in SpecsIn(m2) /\ SpecAt(m2, bt) = SpecAt(m, bt)
        BY <1>3
      <3>3. RefsOf(m2, bt) = RefsOf(m, bt)
        BY <3>2 DEF RefsOf
      <3> QED  BY <3>1, <3>2, <3>3
    <2>2. CASE at = << <<a>>, <<s>> >> /\ SpecAt(m2, at) = P
      <3> DEFINE bt == << <<a>>, <<s, "babel">> >>
      <3>1. bt \in SpecsIn(m2)
        BY <1>8, <2>2, AddedMain
      <3>2. bt # at /\ bt[1] = <<a>>
        <4>1. <<s, "babel">> # <<s>>
          OBVIOUS
        <4> QED  BY <2>2, <4>1
      <3>3. PICK b \in P.babel : SpecAt(m2, bt) = BabelSpec(b)
        BY <1>1, <2>2, <3>1, <3>2
      <3>4. RefsOf(m2, bt) = {b.rpcUrl} /\ b.rpcUrl.name = <<a, s>>
        BY <1>6, <3>1, <3>3
      <3>5. {r.name : r \in RefsOf(m2, bt)} = {<<a, s>>}
        BY <3>4
      <3>6. at[1] \o at[2] = <<a, s>>
        BY <1>2, <2>2 DEF MainName
      <3>7. <<a, s>> \o <<"babel">> = <<a, s, "babel">>
        BY JoinLast
      <3>8. MainName(bt) = <<a, s, "babel">>
        BY JoinTwo DEF MainName
      <3> HIDE DEF bt
      <3> QED  BY <3>1, <3>5, <3>6, <3>7, <3>8
    <2>3. CASE \E b \in P.babel : SpecAt(m2, at) = BabelSpec(b)
      BY <1>8, <2>3, SidecarIsBare
    <2> QED  BY <1>1, <2>1, <2>2, <2>3
  <1> QED  BY <1>7, <1>8 DEF RefsAnswered, Watched

\* The inline files of a manifest agree when those of its specs do.
InlineIn(spec) == {f \in {spec.artifacts[i] : i \in DOMAIN spec.artifacts} : ~IsRemote(f)}

LEMMA AddedInline ==
  ASSUME NEW m, NEW a, NEW s, NEW P, <<a>> \notin DOMAIN m, NEW S,
         \A at \in SpecsIn(m) : InlineOf(m, at) \subseteq S,
         InlineIn(P) \subseteq S,
         NEW m2, m2 = Added(m, a, s, P)
  PROVE  \A at \in SpecsIn(m2) : InlineOf(m2, at) \subseteq S
  <1> SUFFICES ASSUME NEW at \in SpecsIn(m2), NEW f \in InlineOf(m2, at) PROVE f \in S
    OBVIOUS
  <1>1. \/ at \in SpecsIn(m) /\ at[1] # <<a>> /\ SpecAt(m2, at) = SpecAt(m, at)
        \/ at = << <<a>>, <<s>> >> /\ SpecAt(m2, at) = P
        \/ at = << <<a>>, <<s, "babel">> >> /\ \E b \in P.babel : SpecAt(m2, at) = BabelSpec(b)
    BY AddedSpecs
  <1>2. /\ f \in {SpecAt(m2, at).artifacts[i] : i \in DOMAIN SpecAt(m2, at).artifacts}
        /\ ~IsRemote(f)
    BY DEF InlineOf, RemoteOf, FilesOf
  <1>3. CASE at \in SpecsIn(m) /\ SpecAt(m2, at) = SpecAt(m, at)
    BY <1>2, <1>3 DEF InlineOf, RemoteOf, FilesOf
  <1>4. CASE SpecAt(m2, at) = P
    BY <1>2, <1>4 DEF InlineIn
  <1>5. CASE \E b \in P.babel : SpecAt(m2, at) = BabelSpec(b)
    BY <1>2, <1>5, SidecarIsBare
  <1> QED  BY <1>1, <1>3, <1>4, <1>5

LEMMA OneFileAgrees ==
  ASSUME NEW m, \A at \in SpecsIn(m) : InlineOf(m, at) \subseteq {JwtFile}
  PROVE  FilesAgree(m)
  <1> SUFFICES ASSUME NEW at \in SpecsIn(m), NEW bt \in SpecsIn(m),
                      NEW f \in InlineOf(m, at), NEW g \in InlineOf(m, bt)
               PROVE  ContentOf(at, f.source) = ContentOf(bt, g.source)
    BY DEF FilesAgree
  <1>1. f = g
    OBVIOUS
  <1> QED  BY <1>1 DEF ContentOf

LEMMA InlineAgrees ==
  ASSUME NEW m, NEW S, \A at \in SpecsIn(m) : InlineOf(m, at) \subseteq S,
         \A f, g \in S : f.name = g.name => f.source = g.source
  PROVE  FilesAgree(m)
  <1> SUFFICES ASSUME NEW at \in SpecsIn(m), NEW bt \in SpecsIn(m),
                      NEW f \in InlineOf(m, at), NEW g \in InlineOf(m, bt), f.name = g.name
               PROVE  ContentOf(at, f.source) = ContentOf(bt, g.source)
    BY DEF FilesAgree
  <1>1. f.source = g.source
    OBVIOUS
  <1> QED  BY <1>1 DEF ContentOf

-----------------------------------------------------------------------------
(* Each module of the catalog.                                             *)

LEMMA RemoteByKind ==
  ASSUME NEW name, NEW path, NEW c
  PROVE  /\ IsRemote(File(name, path, Remote(c)))
         /\ ~IsRemote(File(name, path, Inline(c)))
         /\ ~IsRemote(File(name, path, Generated(c)))
  BY DEF IsRemote, File, Remote, Inline, Generated

LEMMA PathInData ==
  ASSUME NEW name, NEW rest, NEW source, NEW T, "data" \in T, rest \in Seq(T)
  PROVE  /\ Under(File(name, InData(rest), source).path, DataVolume.path)
         /\ StartsWith(File(name, InData(rest), source).path, DataVolume.path)
  <1> DEFINE path == <<"data">> \o rest
  <1>1. <<"data">> \in Seq(T)
    OBVIOUS
  <1>2. /\ path \in Seq(T) /\ Len(path) = 1 + Len(rest)
        /\ \A i \in 1 .. Len(path) : path[i] = IF i <= 1 THEN <<"data">>[i] ELSE rest[i - 1]
    BY <1>1, ConcatProperties
  <1>3. Len(path) \in Nat /\ Len(path) >= 1 /\ path[1] = "data"
    BY <1>2
  <1> HIDE DEF path
  <1>4. SubSeq(path, 1, 1) = <<"data">>
    <2> DEFINE head == SubSeq(path, 1, 1)
    <2>1. head \in Seq(T) /\ Len(head) = 1 /\ head[1] = path[1]
      BY <1>2, <1>3, SubSeqProperties
    <2> HIDE DEF head
    <2>2. head = <<"data">>
      BY <1>3, <2>1
    <2> QED  BY <2>2 DEF head
  <1>5. /\ File(name, InData(rest), source).path = path
        /\ DataVolume.path = <<"data">> /\ Len(DataVolume.path) = 1
    BY DEF File, InData, DataVolume, Volume, path
  <1>6. DOMAIN DataVolume.path = {1} /\ DataVolume.path[1] = "data"
    BY <1>5
  <1> QED  BY <1>3, <1>4, <1>5, <1>6 DEF Under, StartsWith

LEMMA LevelFrom ==
  ASSUME NEW n, n \in {2, 4}, NEW fs,
         \A f \in fs : IsPath(f.path) /\ Len(f.path) = n,
         \A f, g \in fs : f.path[n] = g.path[n] => f = g
  PROVE  Level(fs)
  <1>1. n \in Nat \ {0, 1}
    OBVIOUS
  <1> QED  BY <1>1 DEF Level

LEMMA LevelOfTwo ==
  ASSUME NEW fs, \A f \in fs : IsPath(f.path) /\ Len(f.path) = 2,
         \A f, g \in fs : f.path[2] = g.path[2] => f = g
  PROVE  Level(fs)
  <1> DEFINE n == 2
  <1>1. n \in {2, 4}
    OBVIOUS
  <1>2. /\ \A f \in fs : IsPath(f.path) /\ Len(f.path) = n
        /\ \A f, g \in fs : f.path[n] = g.path[n] => f = g
    OBVIOUS
  <1> HIDE DEF n
  <1> QED  BY <1>1, <1>2, LevelFrom

LEMMA LevelOfFour ==
  ASSUME NEW fs, \A f \in fs : IsPath(f.path) /\ Len(f.path) = 4,
         \A f, g \in fs : f.path[4] = g.path[4] => f = g
  PROVE  Level(fs)
  <1> DEFINE n == 4
  <1>1. n \in {2, 4}
    OBVIOUS
  <1>2. /\ \A f \in fs : IsPath(f.path) /\ Len(f.path) = n
        /\ \A f, g \in fs : f.path[n] = g.path[n] => f = g
    OBVIOUS
  <1> HIDE DEF n
  <1> QED  BY <1>1, <1>2, LevelFrom

LEMMA OneIsLevel ==
  ASSUME NEW f, NEW a, NEW b, f.path = <<a, b>>
  PROVE  Level({f})
  <1>1. \A g \in {f} : IsPath(g.path) /\ Len(g.path) = 2
    BY TuplesArePaths
  <1>2. \A g, h \in {f} : g.path[2] = h.path[2] => g = h
    OBVIOUS
  <1> QED  BY <1>1, <1>2, LevelOfTwo

LEMMA JwtIsLevel == Level({JwtFile})
  <1>1. JwtFile.path = <<"data", "jwt_secret">>
    BY JoinOne DEF JwtFile, File, InData
  <1> QED  BY <1>1, OneIsLevel

\* A builder of the catalog, as far as its ports and references go.
LEMMA PortsByName ==
  ASSUME NEW b, IsBuilder(b), NEW j \in DOMAIN b.args, NEW name, NEW port,
         b.args[j] = PortArg(name, port)
  PROVE  HasPort(Build(b), name)
  <1>1. b.args[j].kind = "port" /\ b.args[j].name = name
    BY DEF PortArg
  <1> QED  BY <1>1, BuildPorts

LEMMA Parts ==
  ASSUME NEW name, NEW port, NEW kind
  PROVE  /\ PortArg(name, port).kind = "port" /\ PortArg(name, port).preferred = port
         /\ Port(name, port).port = port
         /\ Ref(name, port).kind = "ref" /\ Ref(name, port).name = name /\ Ref(name, port).port = port
         /\ Babel(kind, Ref(name, port)).rpcUrl = Ref(name, port)
  BY DEF PortArg, Port, Ref, Babel

\* A spec with no file to fetch.
AtMostJwt(b) ==
    /\ b.artifacts \in {<<>>, <<JwtFile>>}
    /\ b.volumes \in {<<>>, <<DataVolume>>}

LEMMA NothingToFetch ==
  ASSUME NEW b, IsBuilder(b), AtMostJwt(b), \A x \in b.babel : x.rpcUrl.kind = "ref"
  PROVE  TidySpec(Build(b)) /\ InlineIn(Build(b)) \subseteq {JwtFile}
  <1> DEFINE spec == Build(b)
             mine == {spec.artifacts[i] : i \in DOMAIN spec.artifacts}
  <1>1. /\ spec.artifacts = b.artifacts /\ spec.volumes = b.volumes /\ spec.babel = b.babel
        /\ \A i \in DOMAIN spec.ports : spec.ports[i].port \in Nat
    BY BuildKeeps, BuildPorts DEF IsBuilder
  <1> HIDE DEF spec
  <1>2. mine \subseteq {JwtFile}
    BY <1>1 DEF AtMostJwt
  <1>3. ~IsRemote(JwtFile)
    BY DEF IsRemote, JwtFile, File, Jwt
  <1>5. InlineIn(spec) \subseteq mine
    BY DEF InlineIn
  <1>4. IsFiniteSet(mine)
    <2>1. IsFiniteSet({JwtFile})
      BY FS_Singleton
    <2> HIDE DEF mine
    <2> QED  BY <1>2, <2>1, FS_Subset
  <1>6. spec.volumes \in {<<>>, <<DataVolume>>}
    BY <1>1 DEF AtMostJwt
  <1>l. Level(mine)
    BY <1>2, JwtIsLevel DEF Level
  <1> HIDE DEF mine
  <1>7. \A f \in mine : ~IsRemote(f)
    BY <1>2, <1>3
  <1>8. TidySpec(spec)
    BY <1>1, <1>4, <1>6, <1>7, <1>l DEF TidySpec, mine
  <1> QED  BY <1>2, <1>5, <1>8 DEF spec

\* An argument names a port of the spec itself, or refers to a port of another.
IsPortArg(x) == x.kind = "port" /\ x.kind # "ref" /\ x.preferred \in Nat
IsRefArg(x) == x.kind = "ref" /\ x.kind # "port"

LEMMA ArgKinds ==
  /\ \A name : \A port \in Nat : IsPortArg(PortArg(name, port))
  /\ \A name, port : IsRefArg(Ref(name, port))
  BY DEF IsPortArg, IsRefArg, PortArg, Ref

\* Arguments and ports of a builder.
NoPort(ports) == ports = <<>>
OnePort(ports) == \E name : \E port \in Nat : ports = <<Port(name, port)>>

LEMMA BuilderFrom ==
  ASSUME NEW b, DOMAIN b = Fields, NoPort(b.ports) \/ OnePort(b.ports),
         DOMAIN b.args \subseteq Nat \ {0},
         \A j \in DOMAIN b.args : IsPortArg(b.args[j]) \/ IsRefArg(b.args[j])
  PROVE  IsBuilder(b)
  <1>1. CASE NoPort(b.ports)
    <2>1. DOMAIN b.ports = 1 .. 0 /\ Len(b.ports) = 0
      BY <1>1 DEF NoPort
    <2>2. \E n \in Nat : DOMAIN b.ports = 1 .. n /\ Len(b.ports) = n
      BY <2>1
    <2>3. \A i \in DOMAIN b.ports : b.ports[i].port \in Nat
      BY <2>1
    <2> QED  BY <2>2, <2>3 DEF IsBuilder, IsPortArg, IsRefArg
  <1>2. CASE OnePort(b.ports)
    <2>a. PICK name : \E port \in Nat : b.ports = <<Port(name, port)>>
      BY <1>2 DEF OnePort
    <2>1. PICK port \in Nat : b.ports = <<Port(name, port)>>
      BY <2>a
    <2>2. DOMAIN b.ports = 1 .. 1 /\ Len(b.ports) = 1 /\ b.ports[1] = Port(name, port)
      BY <2>1
    <2>3. \E n \in Nat : DOMAIN b.ports = 1 .. n /\ Len(b.ports) = n
      BY <2>2
    <2>4. \A i \in DOMAIN b.ports : b.ports[i].port \in Nat
      <3>1. b.ports[1].port = port
        BY <2>2 DEF Port
      <3> QED  BY <2>2, <3>1
    <2> QED  BY <2>3, <2>4 DEF IsBuilder, IsPortArg, IsRefArg
  <1> QED  BY <1>1, <1>2

\* What the other services of a manifest need to know of a built spec.
Offers(P, names) == \A x \in names : HasPort(P, x)
AsksOnly(P, refs) == \A i \in DOMAIN P.args : P.args[i].kind = "ref" => P.args[i] \in refs
WatchedBy(P, a, s, port) ==
    \A x \in P.babel : x.rpcUrl.kind = "ref" /\ x.rpcUrl.name = <<a, s>> /\ x.rpcUrl.port = port

LEMMA RethBuilt ==
  ASSUME NEW chain, NEW spec, spec = Build(Reth(chain))
  PROVE  /\ TidySpec(spec) /\ InlineIn(spec) \subseteq {JwtFile}
         /\ Offers(spec, {"http", "authrpc"}) /\ AsksOnly(spec, {})
         /\ WatchedBy(spec, "el", "node", "http")
  <1> DEFINE b == Reth(chain)
  <1>1. /\ DOMAIN b = Fields /\ b.ports = <<Port("metrics", 9090)>>
        /\ b.args = <<PortArg("authrpc", 8551), PortArg("http", 8545)>>
        /\ b.artifacts = <<JwtFile>> /\ b.volumes = <<DataVolume>>
        /\ b.babel = {Babel("ethereum", Ref(<<"el", "node">>, "http"))}
    BY DEF Reth, Builder, Fields
  <1> HIDE DEF b
  <1>2. /\ b.args[1] = PortArg("authrpc", 8551) /\ b.args[2] = PortArg("http", 8545)
        /\ DOMAIN b.args = {1, 2}
    BY <1>1
  <1>3. IsBuilder(b)
    <2>1. IsPortArg(b.args[1]) /\ IsPortArg(b.args[2])
      BY <1>2, ArgKinds
    <2>2. \A j \in DOMAIN b.args : IsPortArg(b.args[j]) \/ IsRefArg(b.args[j])
      BY <1>2, <2>1
    <2>3. DOMAIN b.args \subseteq Nat \ {0}
      BY <1>2
    <2>4. OnePort(b.ports)
      BY <1>1 DEF OnePort
    <2> QED  BY <1>1, <2>2, <2>3, <2>4, BuilderFrom
  <1>4. HasPort(spec, "http") /\ HasPort(spec, "authrpc")
    BY <1>2, <1>3, PortsByName DEF b
  <1>5. AtMostJwt(b)
    BY <1>1 DEF AtMostJwt
  <1>6. spec.args = b.args /\ spec.babel = b.babel
    BY <1>1, BuildKeeps DEF b
  <1>7. \A x \in b.babel : x.rpcUrl = Ref(<<"el", "node">>, "http")
    BY <1>1, Parts
  <1>8. WatchedBy(spec, "el", "node", "http") /\ \A x \in b.babel : x.rpcUrl.kind = "ref"
    BY <1>6, <1>7, Parts DEF WatchedBy
  <1>9. AsksOnly(spec, {})
    <2>1. b.args[1].kind # "ref" /\ b.args[2].kind # "ref"
      BY <1>2, ArgKinds DEF IsPortArg
    <2> QED  BY <1>2, <1>6, <2>1 DEF AsksOnly
  <1>10. TidySpec(spec) /\ InlineIn(spec) \subseteq {JwtFile}
    BY <1>3, <1>5, <1>8, NothingToFetch DEF b
  <1> QED  BY <1>4, <1>8, <1>9, <1>10 DEF Offers

LEMMA LighthouseBuilt ==
  ASSUME NEW chain, NEW spec, spec = Build(Lighthouse(chain))
  PROVE  /\ TidySpec(spec) /\ InlineIn(spec) \subseteq {JwtFile}
         /\ Offers(spec, {"http"}) /\ AsksOnly(spec, {Ref(<<"el", "node">>, "authrpc")})
         /\ WatchedBy(spec, "cl", "node", "http")
  <1> DEFINE b == Lighthouse(chain)
  <1>1. /\ DOMAIN b = Fields /\ b.ports = <<>>
        /\ b.args = <<Ref(<<"el", "node">>, "authrpc"), PortArg("http", 5052)>>
        /\ b.artifacts = <<JwtFile>> /\ b.volumes = <<DataVolume>>
        /\ b.babel = {Babel("ethereum_beacon", Ref(<<"cl", "node">>, "http"))}
    BY DEF Lighthouse, Builder, Fields
  <1> HIDE DEF b
  <1>2. /\ b.args[1] = Ref(<<"el", "node">>, "authrpc") /\ b.args[2] = PortArg("http", 5052)
        /\ DOMAIN b.args = {1, 2}
    BY <1>1
  <1>3. IsBuilder(b)
    <2>1. IsRefArg(b.args[1]) /\ IsPortArg(b.args[2])
      BY <1>2, ArgKinds
    <2>2. \A j \in DOMAIN b.args : IsPortArg(b.args[j]) \/ IsRefArg(b.args[j])
      BY <1>2, <2>1
    <2>3. DOMAIN b.args \subseteq Nat \ {0}
      BY <1>2
    <2>4. NoPort(b.ports)
      BY <1>1 DEF NoPort
    <2> QED  BY <1>1, <2>2, <2>3, <2>4, BuilderFrom
  <1>4. HasPort(spec, "http")
    BY <1>2, <1>3, PortsByName DEF b
  <1>5. AtMostJwt(b)
    BY <1>1 DEF AtMostJwt
  <1>6. spec.args = b.args /\ spec.babel = b.babel
    BY <1>1, BuildKeeps DEF b
  <1>7. \A x \in b.babel : x.rpcUrl = Ref(<<"cl", "node">>, "http")
    BY <1>1, Parts
  <1>8. WatchedBy(spec, "cl", "node", "http") /\ \A x \in b.babel : x.rpcUrl.kind = "ref"
    BY <1>6, <1>7, Parts DEF WatchedBy
  <1>9. AsksOnly(spec, {Ref(<<"el", "node">>, "authrpc")})
    <2>1. b.args[2].kind # "ref"
      BY <1>2, ArgKinds DEF IsPortArg
    <2> QED  BY <1>2, <1>6, <2>1 DEF AsksOnly
  <1>10. TidySpec(spec) /\ InlineIn(spec) \subseteq {JwtFile}
    BY <1>3, <1>5, <1>8, NothingToFetch DEF b
  <1> QED  BY <1>4, <1>8, <1>9, <1>10 DEF Offers

LEMMA PrysmBuilt ==
  ASSUME NEW chain, NEW spec, spec = Build(Prysm(chain))
  PROVE  /\ TidySpec(spec) /\ InlineIn(spec) \subseteq {JwtFile}
         /\ Offers(spec, {"http"}) /\ AsksOnly(spec, {Ref(<<"el", "node">>, "authrpc")})
         /\ WatchedBy(spec, "cl", "node", "http")
  <1> DEFINE b == Prysm(chain)
  <1>1. /\ DOMAIN b = Fields /\ b.ports = <<>>
        /\ b.args = <<Ref(<<"el", "node">>, "authrpc"), PortArg("http", 5052),
                      PortArg("metrics", 8080)>>
        /\ b.artifacts = <<JwtFile>> /\ b.volumes = <<>>
        /\ b.babel = {Babel("ethereum_beacon", Ref(<<"cl", "node">>, "http"))}
    BY DEF Prysm, Builder, Fields
  <1> HIDE DEF b
  <1>2. /\ b.args[1] = Ref(<<"el", "node">>, "authrpc") /\ b.args[2] = PortArg("http", 5052)
        /\ b.args[3] = PortArg("metrics", 8080)
        /\ DOMAIN b.args = {1, 2, 3}
    BY <1>1
  <1>3. IsBuilder(b)
    <2>1. IsRefArg(b.args[1]) /\ IsPortArg(b.args[2]) /\ IsPortArg(b.args[3])
      BY <1>2, ArgKinds
    <2>2. \A j \in DOMAIN b.args : IsPortArg(b.args[j]) \/ IsRefArg(b.args[j])
      BY <1>2, <2>1
    <2>3. DOMAIN b.args \subseteq Nat \ {0}
      BY <1>2
    <2>4. NoPort(b.ports)
      BY <1>1 DEF NoPort
    <2> QED  BY <1>1, <2>2, <2>3, <2>4, BuilderFrom
  <1>4. HasPort(spec, "http")
    BY <1>2, <1>3, PortsByName DEF b
  <1>5. AtMostJwt(b)
    BY <1>1 DEF AtMostJwt
  <1>6. spec.args = b.args /\ spec.babel = b.babel
    BY <1>1, BuildKeeps DEF b
  <1>7. \A x \in b.babel : x.rpcUrl = Ref(<<"cl", "node">>, "http")
    BY <1>1, Parts
  <1>8. WatchedBy(spec, "cl", "node", "http") /\ \A x \in b.babel : x.rpcUrl.kind = "ref"
    BY <1>6, <1>7, Parts DEF WatchedBy
  <1>9. AsksOnly(spec, {Ref(<<"el", "node">>, "authrpc")})
    <2>1. b.args[2].kind # "ref" /\ b.args[3].kind # "ref"
      BY <1>2, ArgKinds DEF IsPortArg
    <2> QED  BY <1>2, <1>6, <2>1 DEF AsksOnly
  <1>10. TidySpec(spec) /\ InlineIn(spec) \subseteq {JwtFile}
    BY <1>3, <1>5, <1>8, NothingToFetch DEF b
  <1> QED  BY <1>4, <1>8, <1>9, <1>10 DEF Offers

LEMMA TempoBuilt ==
  ASSUME NEW chain, NEW spec, spec = Build(Tempo(chain))
  PROVE  /\ TidySpec(spec) /\ InlineIn(spec) \subseteq {JwtFile}
         /\ Offers(spec, {"http"}) /\ AsksOnly(spec, {})
         /\ WatchedBy(spec, "tempo", "node", "http")
  <1> DEFINE b == Tempo(chain)
  <1>1. /\ DOMAIN b = Fields /\ b.ports = <<>>
        /\ b.args = <<PortArg("http", 8545), PortArg("ws", 8546), PortArg("metrics", 9000)>>
        /\ b.artifacts = <<>> /\ b.volumes = <<DataVolume>>
        /\ b.babel = {Babel("ethereum", Ref(<<"tempo", "node">>, "http"))}
    BY DEF Tempo, Builder, Fields
  <1> HIDE DEF b
  <1>2. /\ b.args[1] = PortArg("http", 8545) /\ b.args[2] = PortArg("ws", 8546)
        /\ b.args[3] = PortArg("metrics", 9000)
        /\ DOMAIN b.args = {1, 2, 3}
    BY <1>1
  <1>3. IsBuilder(b)
    <2>1. IsPortArg(b.args[1]) /\ IsPortArg(b.args[2]) /\ IsPortArg(b.args[3])
      BY <1>2, ArgKinds
    <2>2. \A j \in DOMAIN b.args : IsPortArg(b.args[j]) \/ IsRefArg(b.args[j])
      BY <1>2, <2>1
    <2>3. DOMAIN b.args \subseteq Nat \ {0}
      BY <1>2
    <2>4. NoPort(b.ports)
      BY <1>1 DEF NoPort
    <2> QED  BY <1>1, <2>2, <2>3, <2>4, BuilderFrom
  <1>4. HasPort(spec, "http")
    BY <1>2, <1>3, PortsByName DEF b
  <1>5. AtMostJwt(b)
    BY <1>1 DEF AtMostJwt
  <1>6. spec.args = b.args /\ spec.babel = b.babel
    BY <1>1, BuildKeeps DEF b
  <1>7. \A x \in b.babel : x.rpcUrl = Ref(<<"tempo", "node">>, "http")
    BY <1>1, Parts
  <1>8. WatchedBy(spec, "tempo", "node", "http") /\ \A x \in b.babel : x.rpcUrl.kind = "ref"
    BY <1>6, <1>7, Parts DEF WatchedBy
  <1>9. AsksOnly(spec, {})
    <2>1. b.args[1].kind # "ref" /\ b.args[2].kind # "ref" /\ b.args[3].kind # "ref"
      BY <1>2, ArgKinds DEF IsPortArg
    <2> QED  BY <1>2, <1>6, <2>1 DEF AsksOnly
  <1>10. TidySpec(spec) /\ InlineIn(spec) \subseteq {JwtFile}
    BY <1>3, <1>5, <1>8, NothingToFetch DEF b
  <1> QED  BY <1>4, <1>8, <1>9, <1>10 DEF Offers

LEMMA FiniteFiles ==
  ASSUME NEW spec, NEW n \in Nat, DOMAIN spec.artifacts = 1 .. n
  PROVE  IsFiniteSet({spec.artifacts[i] : i \in DOMAIN spec.artifacts})
  <1> DEFINE mine == {spec.artifacts[i] : i \in 1 .. n}
             at == [i \in 1 .. n |-> spec.artifacts[i]]
  <1>1. IsFiniteSet(1 .. n)
    BY FS_Interval
  <1>2. at \in Surjection(1 .. n, mine)
    BY DEF Surjection
  <1> HIDE DEF at
  <1>3. IsFiniteSet(mine)
    BY <1>1, <1>2, FS_Surjection
  <1> QED  BY <1>3

\* Files to fetch lie in the volume, and have different names and different paths.
Fetchable(fs) ==
    /\ \A f \in fs : Under(f.path, DataVolume.path) /\ StartsWith(f.path, DataVolume.path)
    /\ \A f, g \in fs :
         \/ f.name = g.name
         \/ SubSeq(f.path, 2, Len(f.path)) = SubSeq(g.path, 2, Len(g.path))
         => f = g

Listed(list) == \E n \in Nat : DOMAIN list = 1 .. n

LEMMA SomethingToFetch ==
  ASSUME NEW b, IsBuilder(b), Listed(b.artifacts),
         b.volumes = <<DataVolume>>, \A x \in b.babel : x.rpcUrl.kind = "ref",
         NEW all, Level(all), \A i \in DOMAIN b.artifacts : b.artifacts[i] \in all,
         NEW fetched, Fetchable(fetched),
         \A i \in DOMAIN b.artifacts : IsRemote(b.artifacts[i]) => b.artifacts[i] \in fetched,
         NEW spec, spec = Build(b)
  PROVE  TidySpec(spec)
  <1> DEFINE mine == {spec.artifacts[i] : i \in DOMAIN spec.artifacts}
  <1>1. /\ spec.artifacts = b.artifacts /\ spec.volumes = b.volumes /\ spec.babel = b.babel
        /\ \A i \in DOMAIN spec.ports : spec.ports[i].port \in Nat
    BY BuildKeeps, BuildPorts DEF IsBuilder
  <1>d. DOMAIN spec.artifacts = DOMAIN b.artifacts
    BY <1>1
  <1>n. PICK n \in Nat : DOMAIN spec.artifacts = 1 .. n
    BY <1>1 DEF Listed
  <1>2. IsFiniteSet({spec.artifacts[i] : i \in DOMAIN spec.artifacts})
    BY <1>n, FiniteFiles
  <1>3. \A f \in {h \in mine : IsRemote(h)} : f \in fetched
    BY <1>1, <1>d
  <1>l. Level(mine)
    <2>1. mine \subseteq all
      BY <1>1, <1>d
    <2> HIDE DEF mine
    <2> QED  BY <2>1 DEF Level
  <1> HIDE DEF mine
  <1>4. /\ \A f \in {h \in mine : IsRemote(h)} :
             Under(f.path, DataVolume.path) /\ StartsWith(f.path, DataVolume.path)
        /\ \A f, g \in {h \in mine : IsRemote(h)} :
            \/ f.name = g.name
            \/ SubSeq(f.path, 2, Len(f.path)) = SubSeq(g.path, 2, Len(g.path))
            => f = g
    BY <1>3 DEF Fetchable
  <1>5. spec.volumes \in {<<>>, <<DataVolume>>}
    BY <1>1
  <1>6. \A x \in spec.babel : x.rpcUrl.kind = "ref"
    BY <1>1
  <1>7. \A f \in {h \in mine : IsRemote(h)} : spec.volumes = <<DataVolume>>
    BY <1>1
  <1> QED  BY <1>1, <1>2, <1>4, <1>5, <1>6, <1>7, <1>l DEF TidySpec, mine

\* Inline files of one name have one source.
NamedOnce(fs) == \A f, g \in fs : f.name = g.name => f.source = g.source

\* Files two folders below the volume.
DeepIn(f, folder, file) == f.path = <<"data", "heimdall", folder, file>>

LEMMA DeepInData ==
  ASSUME NEW name, NEW folder, NEW file, NEW source
  PROVE  DeepIn(File(name, InData(<<"heimdall", folder, file>>), source), folder, file)
  BY JoinThree DEF DeepIn, File, InData

LEMMA DeepIsPath ==
  ASSUME NEW f, NEW folder, NEW file, DeepIn(f, folder, file)
  PROVE  IsPath(f.path) /\ Len(f.path) = 4
  BY TuplesArePaths DEF DeepIn

LEMMA HeimdallBuilt ==
  ASSUME NEW chain, NEW spec, spec = Build(Heimdall(chain))
  PROVE  /\ TidySpec(spec)
         /\ NamedOnce(InlineIn(spec)) /\ \A f \in InlineIn(spec) : f.name # "config"
         /\ Offers(spec, {"http"}) /\ AsksOnly(spec, {})
         /\ WatchedBy(spec, "heimdall", "node", "http")
  <1> DEFINE b == Heimdall(chain)
             Conf(file) == InData(<<"heimdall", "config", file>>)
             genesis == File("genesis", Conf("genesis.json"), Remote(<<"genesis", "amoy">>))
             i1 == File("client.toml", Conf("client.toml"), Inline(<<"client", chain>>))
             i2 == File("app.toml", Conf("app.toml"), Inline(<<"app", "any">>))
             i3 == File("config.toml", Conf("config.toml"), Inline(<<"config", "any">>))
             i4 == File("node_key.json", Conf("node_key.json"), Generated(<<"key", "node">>))
             i5 == File("priv_validator_key.json", Conf("priv_validator_key.json"),
                        Generated(<<"key", "validator">>))
             i6 == File("priv_validator_state.json",
                        InData(<<"heimdall", "data", "priv_validator_state.json">>),
                        Inline(<<"state", "any">>))
  <1>1. /\ DOMAIN b = Fields /\ b.ports = <<>>
        /\ b.args = <<PortArg("http", 1317)>>
        /\ b.artifacts = <<genesis, i1, i2, i3, i4, i5, i6>> /\ b.volumes = <<DataVolume>>
        /\ b.babel = {Babel("cosmos", Ref(<<"heimdall", "node">>, "http"))}
    BY DEF Heimdall, Builder, Fields
  <1>f. /\ IsRemote(genesis)
        /\ \A f \in {i1, i2, i3, i4, i5, i6} : ~IsRemote(f)
    BY RemoteByKind
  <1>g. Under(genesis.path, DataVolume.path) /\ StartsWith(genesis.path, DataVolume.path)
    <2> DEFINE rest == <<"heimdall", "config", "genesis.json">>
               T == {"data", "heimdall", "config", "genesis.json"}
    <2>1. rest \in Seq(T) /\ "data" \in T
      OBVIOUS
    <2> HIDE DEF rest, T
    <2>2. /\ Under(File("genesis", InData(rest), Remote(<<"genesis", "amoy">>)).path, DataVolume.path)
          /\ StartsWith(File("genesis", InData(rest), Remote(<<"genesis", "amoy">>)).path, DataVolume.path)
      BY <2>1, PathInData
    <2> QED  BY <2>2 DEF rest
  <1>h. /\ i1.name = "client.toml" /\ i1.source = Inline(<<"client", chain>>)
        /\ i2.name = "app.toml" /\ i2.source = Inline(<<"app", "any">>)
        /\ i3.name = "config.toml" /\ i3.source = Inline(<<"config", "any">>)
        /\ i4.name = "node_key.json" /\ i4.source = Generated(<<"key", "node">>)
        /\ i5.name = "priv_validator_key.json" /\ i5.source = Generated(<<"key", "validator">>)
        /\ i6.name = "priv_validator_state.json" /\ i6.source = Inline(<<"state", "any">>)
    BY DEF File
  <1>p. /\ DeepIn(genesis, "config", "genesis.json") /\ DeepIn(i1, "config", "client.toml")
        /\ DeepIn(i2, "config", "app.toml") /\ DeepIn(i3, "config", "config.toml")
        /\ DeepIn(i4, "config", "node_key.json")
        /\ DeepIn(i5, "config", "priv_validator_key.json")
        /\ DeepIn(i6, "data", "priv_validator_state.json")
    BY DeepInData
  <1> HIDE DEF b, genesis, i1, i2, i3, i4, i5, i6
  <1>2. b.args[1] = PortArg("http", 1317) /\ DOMAIN b.args = {1} /\ DOMAIN b.artifacts = 1 .. 7
    BY <1>1
  <1>i. {b.artifacts[i] : i \in DOMAIN b.artifacts} = {genesis, i1, i2, i3, i4, i5, i6}
    BY <1>1
  <1>3. IsBuilder(b)
    <2>1. IsPortArg(b.args[1])
      BY <1>2, ArgKinds
    <2>2. \A j \in DOMAIN b.args : IsPortArg(b.args[j]) \/ IsRefArg(b.args[j])
      BY <1>2, <2>1
    <2>3. DOMAIN b.args \subseteq Nat \ {0}
      BY <1>2
    <2>4. NoPort(b.ports)
      BY <1>1 DEF NoPort
    <2> QED  BY <1>1, <2>2, <2>3, <2>4, BuilderFrom
  <1>4. HasPort(spec, "http")
    BY <1>2, <1>3, PortsByName DEF b
  <1>5. spec.args = b.args /\ spec.babel = b.babel /\ spec.artifacts = b.artifacts
    BY <1>1, BuildKeeps DEF b
  <1>6. \A x \in b.babel : x.rpcUrl = Ref(<<"heimdall", "node">>, "http")
    BY <1>1, Parts
  <1>7. WatchedBy(spec, "heimdall", "node", "http") /\ \A x \in b.babel : x.rpcUrl.kind = "ref"
    BY <1>5, <1>6, Parts DEF WatchedBy
  <1>8. AsksOnly(spec, {})
    <2>1. b.args[1].kind # "ref"
      BY <1>2, ArgKinds DEF IsPortArg
    <2> QED  BY <1>2, <1>5, <2>1 DEF AsksOnly
  <1>9. TidySpec(spec)
    <2>1. Fetchable({genesis})
      BY <1>g DEF Fetchable
    <2>2. \A f \in {b.artifacts[i] : i \in DOMAIN b.artifacts} : IsRemote(f) => f \in {genesis}
      BY <1>f, <1>i
    <2>3. \A i \in DOMAIN b.artifacts : IsRemote(b.artifacts[i]) => b.artifacts[i] \in {genesis}
      BY <2>2
    <2>4. Listed(b.artifacts)
      BY <1>2 DEF Listed
    <2> DEFINE all == {genesis, i1, i2, i3, i4, i5, i6}
    <2>5. Level(all)
      <3>1. \A f \in all : IsPath(f.path) /\ Len(f.path) = 4
        BY <1>p, DeepIsPath
      <3>2. \A f, g \in all : f.path[4] = g.path[4] => f = g
        BY <1>p DEF DeepIn
      <3> HIDE DEF all
      <3> QED  BY <3>1, <3>2, LevelOfFour
    <2>6. \A i \in DOMAIN b.artifacts : b.artifacts[i] \in all
      BY <1>i
    <2> HIDE DEF all
    <2> QED  BY <1>1, <1>3, <1>7, <2>1, <2>3, <2>4, <2>5, <2>6, SomethingToFetch DEF b
  <1>10. InlineIn(spec) \subseteq {i1, i2, i3, i4, i5, i6}
    BY <1>5, <1>f, <1>i DEF InlineIn
  <1>11. /\ NamedOnce({i1, i2, i3, i4, i5, i6})
         /\ \A f \in {i1, i2, i3, i4, i5, i6} : f.name # "config"
    BY <1>h DEF NamedOnce
  <1>12. NamedOnce(InlineIn(spec)) /\ \A f \in InlineIn(spec) : f.name # "config"
    BY <1>10, <1>11 DEF NamedOnce
  <1> QED  BY <1>4, <1>7, <1>8, <1>9, <1>12 DEF Offers

\* Files directly in the volume: below it, each has its name alone.
AtTop(f, file) ==
    /\ Under(f.path, DataVolume.path) /\ StartsWith(f.path, DataVolume.path)
    /\ f.path = <<"data", file>>
    /\ SubSeq(f.path, 2, Len(f.path))[1] = file

LEMMA DirectlyInData ==
  ASSUME NEW name, NEW file, NEW source
  PROVE  AtTop(File(name, InData(<<file>>), source), file)
  <1> DEFINE T == {"data", file}
             f == File(name, InData(<<file>>), source)
  <1>1. <<file>> \in Seq(T) /\ "data" \in T
    OBVIOUS
  <1> HIDE DEF T
  <1>2. Under(f.path, DataVolume.path) /\ StartsWith(f.path, DataVolume.path)
    BY <1>1, PathInData
  <1>3. f.path = <<"data", file>>
    BY JoinOne DEF File, InData
  <1> HIDE DEF f
  <1>4. Len(f.path) = 2
    BY <1>3
  <1>5. \A x : SubSeq(<<"data", x>>, 2, 2)[1] = x
    OBVIOUS
  <1>6. SubSeq(f.path, 2, Len(f.path))[1] = file
    BY <1>3, <1>4, <1>5
  <1> QED  BY <1>2, <1>3, <1>6 DEF AtTop, f

LEMMA TopIsPath ==
  ASSUME NEW f, NEW file, AtTop(f, file)
  PROVE  IsPath(f.path) /\ Len(f.path) = 2
  BY TuplesArePaths DEF AtTop

LEMMA BorBuilt ==
  ASSUME NEW chain, NEW spec, spec = Build(Bor(chain))
  PROVE  /\ TidySpec(spec)
         /\ NamedOnce(InlineIn(spec)) /\ \A f \in InlineIn(spec) : f.name = "config"
         /\ AsksOnly(spec, {}) /\ spec.babel = {}
  <1> DEFINE b == Bor(chain)
             config == File("config", InData(<<"config.toml">>), Inline(<<"bor config", chain>>))
             genesis == File("genesis.json", InData(<<"genesis.json">>), Remote(<<"bor genesis", chain>>))
  <1>1. /\ DOMAIN b = Fields /\ b.ports = <<>> /\ b.args = <<>>
        /\ b.artifacts = <<config, genesis>> /\ b.volumes = <<DataVolume>> /\ b.babel = {}
    BY DEF Bor, Builder, Fields
  <1>2. IsRemote(genesis) /\ ~IsRemote(config)
    BY RemoteByKind
  <1>3. AtTop(genesis, "genesis.json") /\ AtTop(config, "config.toml")
    BY DirectlyInData
  <1>4. config.name = "config"
    BY DEF File
  <1> HIDE DEF b, config, genesis
  <1>5. DOMAIN b.args = {} /\ DOMAIN b.artifacts = 1 .. 2
    BY <1>1
  <1>6. {b.artifacts[i] : i \in DOMAIN b.artifacts} = {config, genesis}
    BY <1>1
  <1>7. IsBuilder(b)
    <2>1. NoPort(b.ports)
      BY <1>1 DEF NoPort
    <2> QED  BY <1>1, <1>5, <2>1, BuilderFrom
  <1>8. spec.args = b.args /\ spec.babel = b.babel /\ spec.artifacts = b.artifacts
    BY <1>1, BuildKeeps DEF b
  <1>9. TidySpec(spec)
    <2>1. Fetchable({genesis})
      BY <1>3 DEF Fetchable, AtTop
    <2>2. \A f \in {b.artifacts[i] : i \in DOMAIN b.artifacts} : IsRemote(f) => f \in {genesis}
      BY <1>2, <1>6
    <2>3. \A i \in DOMAIN b.artifacts : IsRemote(b.artifacts[i]) => b.artifacts[i] \in {genesis}
      BY <2>2
    <2>4. Listed(b.artifacts)
      BY <1>5 DEF Listed
    <2>5. \A x \in b.babel : x.rpcUrl.kind = "ref"
      BY <1>1
    <2> DEFINE all == {config, genesis}
    <2>6. Level(all) /\ \A i \in DOMAIN b.artifacts : b.artifacts[i] \in all
      <3>1. \A f \in all : IsPath(f.path) /\ Len(f.path) = 2
        BY <1>3, TopIsPath
      <3>2. \A f, g \in all : f.path[2] = g.path[2] => f = g
        BY <1>3 DEF AtTop
      <3>3. \A i \in DOMAIN b.artifacts : b.artifacts[i] \in all
        BY <1>6
      <3> HIDE DEF all
      <3> QED  BY <3>1, <3>2, <3>3, LevelOfTwo
    <2> HIDE DEF all
    <2> QED  BY <1>1, <1>7, <2>1, <2>3, <2>4, <2>5, <2>6, SomethingToFetch DEF b
  <1>10. InlineIn(spec) \subseteq {config}
    BY <1>2, <1>6, <1>8 DEF InlineIn
  <1>11. NamedOnce(InlineIn(spec)) /\ \A f \in InlineIn(spec) : f.name = "config"
    BY <1>4, <1>10 DEF NamedOnce
  <1> QED  BY <1>1, <1>5, <1>8, <1>9, <1>11 DEF AsksOnly

Made(b, args, mounted, mine, babel) ==
    b = [Builder EXCEPT !.args = args, !.volumes = mounted, !.artifacts = mine,
                        !.babel = babel]

LEMMA BuilderWith ==
  ASSUME NEW args, NEW mounted, NEW mine, NEW babel, NEW b,
         Made(b, args, mounted, mine, babel)
  PROVE  /\ DOMAIN b = Fields /\ b.ports = <<>> /\ b.args = args
         /\ b.artifacts = mine /\ b.volumes = mounted /\ b.babel = babel
  <1>1. DOMAIN b = Fields /\ b.ports = <<>> /\ b.args = args
    BY DEF Made, Builder, Fields
  <1>2. b.artifacts = mine
    BY DEF Made, Builder
  <1>3. b.volumes = mounted
    BY DEF Made, Builder
  <1>4. b.babel = babel
    BY DEF Made, Builder
  <1> QED  BY <1>1, <1>2, <1>3, <1>4

LEMMA BeaconKitBuilt ==
  ASSUME NEW chain, NEW spec, spec = Build(BeaconKit(chain))
  PROVE  /\ TidySpec(spec) /\ NamedOnce(InlineIn(spec))
         /\ Offers(spec, {"http"}) /\ AsksOnly(spec, {})
         /\ WatchedBy(spec, "beaconkit", "node", "http")
  <1> DEFINE b == BeaconKit(chain)
             genesis == File("genesis", InData(<<"genesis.json">>), Remote(<<"genesis", chain>>))
             setup == File("kzg-trusted-setup", InData(<<"kzg-trusted-setup.json">>),
                           Remote(<<"kzg", chain>>))
             config == File("config", InData(<<"config.toml">>), Inline(<<"beacon config", "any">>))
             app == File("app", InData(<<"app.toml">>), Inline(<<"beacon app", "any">>))
  <1>1. /\ DOMAIN b = Fields /\ b.ports = <<>> /\ b.args = <<PortArg("http", 1317)>>
        /\ b.artifacts = <<genesis, setup, config, app>> /\ b.volumes = <<DataVolume>>
        /\ b.babel = {Babel("cosmos", Ref(<<"beaconkit", "node">>, "http"))}
    <2> DEFINE args == <<PortArg("http", 1317)>>
               mine == <<genesis, setup, config, app>>
               babel == {Babel("cosmos", Ref(<<"beaconkit", "node">>, "http"))}
               mounted == <<DataVolume>>
    <2>1. Made(b, args, mounted, mine, babel)
      BY DEF Made, BeaconKit
    <2> HIDE DEF b, genesis, setup, config, app, args, mine, babel, mounted
    <2>2. /\ DOMAIN b = Fields /\ b.ports = <<>> /\ b.args = args
          /\ b.artifacts = mine /\ b.volumes = mounted /\ b.babel = babel
      BY <2>1, BuilderWith
    <2> QED  BY <2>2 DEF args, mine, babel, mounted
  <1>2. IsRemote(genesis) /\ IsRemote(setup) /\ ~IsRemote(config) /\ ~IsRemote(app)
    BY RemoteByKind
  <1>3. /\ AtTop(genesis, "genesis.json") /\ AtTop(setup, "kzg-trusted-setup.json")
        /\ AtTop(config, "config.toml") /\ AtTop(app, "app.toml")
        /\ genesis.name # setup.name
    BY DirectlyInData DEF File
  <1>4. config.name # app.name
    BY DEF File
  <1> HIDE DEF b, genesis, setup, config, app
  <1>5. b.args[1] = PortArg("http", 1317) /\ DOMAIN b.args = {1} /\ DOMAIN b.artifacts = 1 .. 4
    BY <1>1
  <1>6. {b.artifacts[i] : i \in DOMAIN b.artifacts} = {genesis, setup, config, app}
    BY <1>1
  <1>7. IsBuilder(b)
    <2>1. IsPortArg(b.args[1])
      BY <1>5, ArgKinds
    <2>2. \A j \in DOMAIN b.args : IsPortArg(b.args[j]) \/ IsRefArg(b.args[j])
      BY <1>5, <2>1
    <2>3. DOMAIN b.args \subseteq Nat \ {0}
      BY <1>5
    <2>4. NoPort(b.ports)
      BY <1>1 DEF NoPort
    <2> QED  BY <1>1, <2>2, <2>3, <2>4, BuilderFrom
  <1>8. HasPort(spec, "http")
    BY <1>5, <1>7, PortsByName DEF b
  <1>9. spec.args = b.args /\ spec.babel = b.babel /\ spec.artifacts = b.artifacts
    BY <1>1, BuildKeeps DEF b
  <1>10. \A x \in b.babel : x.rpcUrl = Ref(<<"beaconkit", "node">>, "http")
    BY <1>1, Parts
  <1>11. WatchedBy(spec, "beaconkit", "node", "http") /\ \A x \in b.babel : x.rpcUrl.kind = "ref"
    BY <1>9, <1>10, Parts DEF WatchedBy
  <1>12. AsksOnly(spec, {})
    <2>1. b.args[1].kind # "ref"
      BY <1>5, ArgKinds DEF IsPortArg
    <2> QED  BY <1>5, <1>9, <2>1 DEF AsksOnly
  <1>13. TidySpec(spec)
    <2>1. Fetchable({genesis, setup})
      BY <1>3 DEF Fetchable, AtTop
    <2>2. \A f \in {b.artifacts[i] : i \in DOMAIN b.artifacts} : IsRemote(f) => f \in {genesis, setup}
      BY <1>2, <1>6
    <2>3. \A i \in DOMAIN b.artifacts : IsRemote(b.artifacts[i]) => b.artifacts[i] \in {genesis, setup}
      BY <2>2
    <2>4. Listed(b.artifacts)
      BY <1>5 DEF Listed
    <2> DEFINE all == {genesis, setup, config, app}
    <2>5. Level(all) /\ \A i \in DOMAIN b.artifacts : b.artifacts[i] \in all
      <3>1. \A f \in all : IsPath(f.path) /\ Len(f.path) = 2
        BY <1>3, TopIsPath
      <3>2. \A f, g \in all : f.path[2] = g.path[2] => f = g
        BY <1>3 DEF AtTop
      <3>3. \A i \in DOMAIN b.artifacts : b.artifacts[i] \in all
        BY <1>6
      <3> HIDE DEF all
      <3> QED  BY <3>1, <3>2, <3>3, LevelOfTwo
    <2> HIDE DEF all
    <2> QED  BY <1>1, <1>7, <1>11, <2>1, <2>3, <2>4, <2>5, SomethingToFetch DEF b
  <1>14. InlineIn(spec) \subseteq {config, app}
    BY <1>2, <1>6, <1>9 DEF InlineIn
  <1>15. NamedOnce(InlineIn(spec))
    BY <1>4, <1>14 DEF NamedOnce
  <1> QED  BY <1>8, <1>11, <1>12, <1>13, <1>15 DEF Offers

LEMMA BeraRethBuilt ==
  ASSUME NEW chain, NEW spec, spec = Build(BeraReth(chain))
  PROVE  /\ TidySpec(spec) /\ InlineIn(spec) = {}
         /\ Offers(spec, {"http"}) /\ AsksOnly(spec, {})
         /\ WatchedBy(spec, "berareth", "reth", "http")
  <1> DEFINE b == BeraReth(chain)
             genesis == File("eth-genesis", InData(<<"eth-genesis.json">>),
                             Remote(<<"eth genesis", chain>>))
             args == <<PortArg("http", 8545)>>
             mine == <<genesis>>
             babel == {BeraRethBabel}
             mounted == <<DataVolume>>
  <1>1. Made(b, args, mounted, mine, babel)
    BY DEF Made, BeraReth
  <1>2. IsRemote(genesis) /\ AtTop(genesis, "eth-genesis.json")
    BY RemoteByKind, DirectlyInData
  <1> HIDE DEF b, genesis, args, mine, babel, mounted
  <1>3. /\ DOMAIN b = Fields /\ b.ports = <<>> /\ b.args = args
        /\ b.artifacts = mine /\ b.volumes = <<DataVolume>> /\ b.babel = babel
    BY <1>1, BuilderWith DEF mounted
  <1>4. /\ DOMAIN args = {1} /\ args[1] = PortArg("http", 8545)
        /\ DOMAIN mine = 1 .. 1 /\ mine[1] = genesis
    BY DEF args, mine
  <1>5. {b.artifacts[i] : i \in DOMAIN b.artifacts} = {genesis}
    BY <1>3, <1>4
  <1>7. IsBuilder(b)
    <2>1. IsPortArg(b.args[1])
      BY <1>3, <1>4, ArgKinds
    <2>2. \A j \in DOMAIN b.args : IsPortArg(b.args[j]) \/ IsRefArg(b.args[j])
      BY <1>3, <1>4, <2>1
    <2>3. DOMAIN b.args \subseteq Nat \ {0}
      BY <1>3, <1>4
    <2>4. NoPort(b.ports)
      BY <1>3 DEF NoPort
    <2> QED  BY <1>3, <2>2, <2>3, <2>4, BuilderFrom
  <1>8. HasPort(spec, "http")
    <2>1. 1 \in DOMAIN b.args /\ b.args[1] = PortArg("http", 8545)
      BY <1>3, <1>4
    <2> QED  BY <1>7, <2>1, PortsByName DEF b
  <1>9. spec.args = b.args /\ spec.babel = b.babel /\ spec.artifacts = b.artifacts
    BY <1>3, BuildKeeps DEF b
  <1>10. \A x \in b.babel : x.rpcUrl = Ref(<<"berareth", "reth">>, "http")
    BY <1>3, Parts DEF babel, BeraRethBabel
  <1>11. WatchedBy(spec, "berareth", "reth", "http") /\ \A x \in b.babel : x.rpcUrl.kind = "ref"
    BY <1>9, <1>10, Parts DEF WatchedBy
  <1>12. AsksOnly(spec, {})
    <2>1. b.args[1].kind # "ref"
      BY <1>3, <1>4, ArgKinds DEF IsPortArg
    <2> QED  BY <1>3, <1>4, <1>9, <2>1 DEF AsksOnly
  <1>13. TidySpec(spec)
    <2>1. Fetchable({genesis})
      BY <1>2 DEF Fetchable, AtTop
    <2>2. \A i \in DOMAIN b.artifacts : IsRemote(b.artifacts[i]) => b.artifacts[i] \in {genesis}
      BY <1>5
    <2>3. Listed(b.artifacts)
      BY <1>3, <1>4 DEF Listed
    <2>4. Level({genesis}) /\ \A i \in DOMAIN b.artifacts : b.artifacts[i] \in {genesis}
      <3>1. Level({genesis})
        BY <1>2, OneIsLevel DEF AtTop
      <3> QED  BY <1>5, <3>1
    <2> QED  BY <1>3, <1>7, <1>11, <2>1, <2>2, <2>3, <2>4, SomethingToFetch DEF b
  <1>14. InlineIn(spec) = {}
    BY <1>2, <1>5, <1>9 DEF InlineIn
  <1> QED  BY <1>8, <1>11, <1>12, <1>13, <1>14 DEF Offers

-----------------------------------------------------------------------------
(* Each module of the catalog.                                             *)

Sound(m) == Tidy(m) /\ RefsAnswered(m) /\ Watched(m)

LEMMA NewIsSound == Sound(NewManifest)
  BY NewIsTidy DEF Sound, RefsAnswered, Watched

LEMMA AddedIsSound ==
  ASSUME NEW m, Sound(m), NEW a, NEW s, NEW P, <<a>> \notin DOMAIN m, TidySpec(P),
         NEW refs, AsksOnly(P, refs), \A r \in refs : Answered(m, r),
         P.babel = {} \/ (Offers(P, {"http"}) /\ WatchedBy(P, a, s, "http")),
         NEW m2, m2 = Added(m, a, s, P)
  PROVE  Sound(m2)
  <1>1. Tidy(m2)
    BY AddedIsTidy DEF Sound
  <1>2. \A r : Answered(m, r) => Answered(m2, r)
    <2>1. \A at \in SpecsIn(m) : at \in SpecsIn(m2) /\ SpecAt(m2, at) = SpecAt(m, at)
      BY AddedStays
    <2> QED  BY <2>1 DEF Answered
  <1>3. \A i \in DOMAIN P.args : P.args[i].kind = "ref" => Answered(m2, P.args[i])
    BY <1>2 DEF AsksOnly
  <1>4. \A b \in P.babel : /\ b.rpcUrl.kind = "ref" /\ b.rpcUrl.name = <<a, s>>
                           /\ HasPort(P, b.rpcUrl.port)
    BY DEF WatchedBy, Offers
  <1>5. RefsAnswered(m2) /\ Watched(m2)
    BY <1>3, <1>4, AddedServes DEF Sound
  <1> QED  BY <1>1, <1>5 DEF Sound

LEMMA SoundIsWellFormed ==
  ASSUME NEW m, Sound(m), FilesAgree(m)
  PROVE  WellFormed(m)
  BY TidyIsWellFormed DEF Sound

LEMMA EthereumFits ==
  ASSUME NEW chain, NEW clNode
  PROVE  WellFormed(EthereumManifest(chain, clNode))
  <1> DEFINE client == IF clNode = "prysm" THEN Prysm(chain) ELSE Lighthouse(chain)
             P == Build(Reth(chain))
             Q == Build(client)
             el == Added(NewManifest, "el", "node", P)
             all == EthereumManifest(chain, clNode)
             authrpc == Ref(<<"el", "node">>, "authrpc")
  <1>1. /\ TidySpec(P) /\ InlineIn(P) \subseteq {JwtFile}
        /\ Offers(P, {"http", "authrpc"}) /\ AsksOnly(P, {})
        /\ WatchedBy(P, "el", "node", "http")
    BY RethBuilt
  <1>2. /\ TidySpec(Q) /\ InlineIn(Q) \subseteq {JwtFile}
        /\ Offers(Q, {"http"}) /\ AsksOnly(Q, {authrpc})
        /\ WatchedBy(Q, "cl", "node", "http")
    BY PrysmBuilt, LighthouseBuilt
  <1>3. all = Added(el, "cl", "node", Q)
    BY DEF EthereumManifest, Added
  <1>4. <<"el">> \notin DOMAIN NewManifest
    BY DEF NewManifest
  <1>5. <<"cl">> \notin DOMAIN el
    BY DEF Added, AddSpec, NewManifest
  <1> HIDE DEF el, client, P, Q, all
  <1>6. Sound(el)
    <2>1. Offers(P, {"http"})
      BY <1>1 DEF Offers
    <2> QED  BY <1>1, <1>4, <2>1, NewIsSound, AddedIsSound DEF el
  <1>7. \A at \in SpecsIn(el) : InlineOf(el, at) \subseteq {JwtFile}
    BY <1>1, <1>4, NewIsTidy, AddedInline DEF el
  <1>8. Answered(el, authrpc)
    <2>1. authrpc.name = <<"el", "node">> /\ authrpc.port = "authrpc"
      BY DEF Ref
    <2>2. HasPort(P, "authrpc")
      BY <1>1 DEF Offers
    <2>3. el = Added(NewManifest, "el", "node", P)
      BY DEF el
    <2> HIDE DEF authrpc
    <2> QED  BY <2>1, <2>2, <2>3, AddedAnswers
  <1> HIDE DEF authrpc
  <1>9. Sound(all)
    <2>1. \A r \in {authrpc} : Answered(el, r)
      BY <1>8
    <2> QED  BY <1>2, <1>3, <1>5, <1>6, <2>1, AddedIsSound
  <1>10. \A at \in SpecsIn(all) : InlineOf(all, at) \subseteq {JwtFile}
    BY <1>2, <1>3, <1>5, <1>7, AddedInline
  <1>11. FilesAgree(all)
    BY <1>10, OneFileAgrees
  <1> QED  BY <1>9, <1>11, SoundIsWellFormed DEF all

LEMMA TempoFits ==
  ASSUME NEW chain
  PROVE  WellFormed(TempoManifest(chain))
  <1> DEFINE P == Build(Tempo(chain))
             all == TempoManifest(chain)
  <1>1. /\ TidySpec(P) /\ InlineIn(P) \subseteq {JwtFile}
        /\ Offers(P, {"http"}) /\ AsksOnly(P, {})
        /\ WatchedBy(P, "tempo", "node", "http")
    BY TempoBuilt
  <1>2. all = Added(NewManifest, "tempo", "node", P)
    BY DEF TempoManifest, Added
  <1>3. <<"tempo">> \notin DOMAIN NewManifest
    BY DEF NewManifest
  <1> HIDE DEF P, all
  <1>4. Sound(all)
    BY <1>1, <1>2, <1>3, NewIsSound, AddedIsSound
  <1>5. \A at \in SpecsIn(all) : InlineOf(all, at) \subseteq {JwtFile}
    BY <1>1, <1>2, <1>3, NewIsTidy, AddedInline
  <1>6. FilesAgree(all)
    BY <1>5, OneFileAgrees
  <1> QED  BY <1>4, <1>6, SoundIsWellFormed DEF all

LEMMA PolygonFits ==
  ASSUME NEW chain
  PROVE  WellFormed(PolygonManifest(chain))
  <1> DEFINE P == Build(Heimdall(chain))
             Q == Build(Bor(chain))
             S == InlineIn(P) \cup InlineIn(Q)
             heimdall == Added(NewManifest, "heimdall", "node", P)
             all == PolygonManifest(chain)
  <1>1. /\ TidySpec(P)
        /\ NamedOnce(InlineIn(P)) /\ \A f \in InlineIn(P) : f.name # "config"
        /\ Offers(P, {"http"}) /\ AsksOnly(P, {})
        /\ WatchedBy(P, "heimdall", "node", "http")
    BY HeimdallBuilt
  <1>2. /\ TidySpec(Q)
        /\ NamedOnce(InlineIn(Q)) /\ \A f \in InlineIn(Q) : f.name = "config"
        /\ AsksOnly(Q, {}) /\ Q.babel = {}
    BY BorBuilt
  <1>3. all = Added(heimdall, "bor", "bor", Q)
    BY DEF PolygonManifest, Added
  <1>4. <<"heimdall">> \notin DOMAIN NewManifest
    BY DEF NewManifest
  <1>5. <<"bor">> \notin DOMAIN heimdall
    BY DEF Added, AddSpec, NewManifest
  <1> HIDE DEF P, Q, heimdall, all
  <1>6. \A f, g \in S : f.name = g.name => f.source = g.source
    BY <1>1, <1>2 DEF NamedOnce
  <1>7. InlineIn(P) \subseteq S /\ InlineIn(Q) \subseteq S
    OBVIOUS
  <1> HIDE DEF S
  <1>8. Sound(heimdall)
    BY <1>1, <1>4, NewIsSound, AddedIsSound DEF heimdall
  <1>9. \A at \in SpecsIn(heimdall) : InlineOf(heimdall, at) \subseteq S
    BY <1>4, <1>7, NewIsTidy, AddedInline DEF heimdall
  <1>10. Sound(all)
    BY <1>2, <1>3, <1>5, <1>8, AddedIsSound
  <1>11. \A at \in SpecsIn(all) : InlineOf(all, at) \subseteq S
    BY <1>3, <1>5, <1>7, <1>9, AddedInline
  <1>12. FilesAgree(all)
    BY <1>6, <1>11, InlineAgrees
  <1> QED  BY <1>10, <1>12, SoundIsWellFormed DEF all

LEMMA BerachainFits ==
  ASSUME NEW chain
  PROVE  WellFormed(BerachainManifest(chain))
  <1> DEFINE P == Build(BeaconKit(chain))
             Q == Build(BeraReth(chain))
             S == InlineIn(P)
             beaconkit == Added(NewManifest, "beaconkit", "node", P)
             all == BerachainManifest(chain)
  <1>1. /\ TidySpec(P) /\ NamedOnce(InlineIn(P))
        /\ Offers(P, {"http"}) /\ AsksOnly(P, {})
        /\ WatchedBy(P, "beaconkit", "node", "http")
    BY BeaconKitBuilt
  <1>2. /\ TidySpec(Q) /\ InlineIn(Q) = {}
        /\ Offers(Q, {"http"}) /\ AsksOnly(Q, {})
        /\ WatchedBy(Q, "berareth", "reth", "http")
    BY BeraRethBuilt
  <1>3. all = Added(beaconkit, "berareth", "reth", Q)
    BY DEF BerachainManifest, Added
  <1>4. <<"beaconkit">> \notin DOMAIN NewManifest
    BY DEF NewManifest
  <1>5. <<"berareth">> \notin DOMAIN beaconkit
    BY DEF Added, AddSpec, NewManifest
  <1> HIDE DEF P, Q, beaconkit, all
  <1>6. \A f, g \in S : f.name = g.name => f.source = g.source
    BY <1>1 DEF NamedOnce
  <1>7. InlineIn(P) \subseteq S /\ InlineIn(Q) \subseteq S
    BY <1>2
  <1> HIDE DEF S
  <1>8. Sound(beaconkit)
    BY <1>1, <1>4, NewIsSound, AddedIsSound DEF beaconkit
  <1>9. \A at \in SpecsIn(beaconkit) : InlineOf(beaconkit, at) \subseteq S
    BY <1>4, <1>7, NewIsTidy, AddedInline DEF beaconkit
  <1>10. Sound(all)
    BY <1>2, <1>3, <1>5, <1>8, AddedIsSound
  <1>11. \A at \in SpecsIn(all) : InlineOf(all, at) \subseteq S
    BY <1>3, <1>5, <1>7, <1>9, AddedInline
  <1>12. FilesAgree(all)
    BY <1>6, <1>11, InlineAgrees
  <1> QED  BY <1>10, <1>12, SoundIsWellFormed DEF all

\* Every manifest that the catalog can make is well-formed, whatever the chain and the
\* consensus client: its services have different names, agree on the files they write
\* into the deployment's one folder, fetch no file to the place of another, fetch each
\* into a volume they have and hide none by a mounted file, refer only to services and
\* ports that exist, and have each service that asks for it watched by a sidecar that
\* asks that service and no other.
THEOREM CatalogIsWellFormed ==
  ASSUME NEW module \in Modules, NEW chain, NEW clNode
  PROVE  WellFormed(ManifestFor(module, chain, clNode))
  <1>1. ManifestFor(module, chain, clNode) \in
          {EthereumManifest(chain, clNode), PolygonManifest(chain),
           BerachainManifest(chain), TempoManifest(chain)}
    BY DEF ManifestFor, Modules
  <1> QED  BY <1>1, EthereumFits, PolygonFits, BerachainFits, TempoFits
=============================================================================
