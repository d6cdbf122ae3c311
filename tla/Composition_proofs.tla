------------------------- MODULE Composition_proofs -------------------------
(***************************************************************************)
(* A well-formed manifest, and those of the catalog are, is converted in   *)
(* whatever order its specs are met, to services that do not get in each   *)
(* other's way however often `up` is run and whatever fails in between.    *)
(***************************************************************************)
EXTENDS Catalog_proofs

-----------------------------------------------------------------------------
(* The inductive invariant.                                                *)

Done == SpecsIn(manifest) \ todo
MainNames == {MainName(at) : at \in Done}
InitNames == UNION {{InitName(at, f) : f \in RemoteOf(manifest, at)} : at \in Done}

\* A URL that came of a reference to a spec of the manifest.
Exposed(u) ==
    \E at \in SpecsIn(manifest) : \E i \in DOMAIN SpecAt(manifest, at).ports :
      u = [name |-> MainName(at), port |-> SpecAt(manifest, at).ports[i].port]

\* URLs for the references of a spec.
UrlsOf(at, urls) ==
    /\ \A u \in urls : Exposed(u)
    /\ {u.name : u \in urls} = {r.name : r \in RefsOf(manifest, at)}

\* A converted spec has its services and its files.
SpecConverted(at) ==
    /\ \E urls : services[MainName(at)] = MainService(at, urls) /\ UrlsOf(at, urls)
    /\ \A f \in RemoteOf(manifest, at) :
         /\ services[InitName(at, f)] = FetchService(at, f)
         /\ MatchingVolume(at, f.path) # {}
    /\ \A f \in InlineOf(manifest, at) :
         f.name \in DOMAIN files /\ files[f.name] = ContentOf(at, f.source)

ServicesInv ==
    /\ stage = "applying" => SpecsIn(manifest) = {}
    /\ todo \subseteq SpecsIn(manifest)
    /\ DOMAIN services = MainNames \cup InitNames
    /\ \A at \in Done : SpecConverted(at)

\* What docker-compose reads is what was converted.
FileInv ==
    Composed =>
      /\ todo = {}
      /\ composeFile =
           [n \in DOMAIN services |->
              [volumes |-> {VolumeText(m) : m \in services[n].mounts}
                              \cup {BindText(b) : b \in services[n].binds},
               depends_on |-> [d \in DOMAIN services[n].dependsOn |->
                                 Yaml!SerializeDependsOn(services[n].dependsOn[d])]]]

\* A file whose init service is through is delivered, until that service is run again.
DockerInv ==
    /\ ups \in Nat
    /\ pending \subseteq DOMAIN container /\ DOMAIN container \subseteq DOMAIN services
    /\ stage # "up" => pending = {} /\ DOMAIN container = {}
    /\ \A n \in (Inits \cap DOMAIN container) \ pending :
         container[n] = "completed" => Downloads(n) \subseteq delivered

IInv == WellFormed(manifest) /\ ServicesInv /\ FileInv /\ DockerInv

\* The rest of the state.  Nothing but an unknown module has failed, the volumes of what
\* is converted are declared, and only what was started has a container.
StateInv ==
    /\ input \in Inputs
    /\ stage \in {"applying", "converting", "written", "up", "failed"}
    /\ stage = "failed" => input.module \notin Modules
    /\ ~Composed => DOMAIN composeFile = {} /\ delivered = {}
    /\ ups \in 0 .. MaxUps
    /\ stage = "up" => DOMAIN container = DOMAIN services
    /\ \A n \in DOMAIN container :
         container[n] \in {"created", "running", "exited"} \cup
                            IF n \in Inits THEN {"completed"} ELSE {}
    /\ \A at \in Done : \A i \in DOMAIN SpecAt(manifest, at).volumes :
         VolumeName(at, SpecAt(manifest, at).volumes[i]) \in volumes
    /\ delivered \subseteq UNION {Downloads(n) : n \in Inits \cap DOMAIN composeFile}

-----------------------------------------------------------------------------
(* Conversion.                                                             *)

LEMMA SameFiles ==
  ASSUME NEW at
  PROVE  RemoteAt(at) = RemoteOf(manifest, at) /\ InlineAt(at) = InlineOf(manifest, at)
  BY DEF RemoteAt, RemoteOf, InlineAt, InlineOf, ArtifactsAt, FilesOf

\* An answer that is not the error leads to a port of a spec of the manifest.
LEMMA AnswersExposed ==
  ASSUME NEW ref, NEW u \in ResolveRef(manifest, ref), u # Unresolved
  PROVE  Exposed(u) /\ u.name = ref.name
  <1>1. PICK at \in SpecsIn(manifest) : ServiceName(at) = ref.name /\ u \in AnswersAt(manifest, at, ref)
    BY DEF ResolveRef
  <1>2. PICK i \in DOMAIN SpecAt(manifest, at).ports :
          u = [name |-> ref.name, port |-> SpecAt(manifest, at).ports[i].port]
    BY <1>1 DEF AnswersAt, FirstOf
  <1> QED  BY <1>1, <1>2 DEF Exposed, ServiceName, MainName

\* What one turn of the loop adds.
LEMMA TurnAdds ==
  ASSUME IInv, NEW at \in SpecsIn(manifest), ConvertSpec(at), stage' # "failed"
  PROVE  /\ UNCHANGED <<stage, manifest, composeFile, docker>>
         /\ todo' = todo \ {at} /\ at \in todo
         /\ \E urls :
              /\ UrlsOf(at, urls)
              /\ services' = Over([n \in {MainName(at)} |-> MainService(at, urls)],
                                  Over(InitServices(at), services))
         /\ files' = Over([n \in {f.name : f \in InlineAt(at)} |->
                             ContentOf(at, (CHOOSE f \in InlineAt(at) : f.name = n).source)],
                          files)
         /\ \A f \in RemoteAt(at) : MatchingVolume(at, f.path) # {}
  <1>1. PICK answers \in [RefsAt(at) -> UNION {ResolveRef(manifest, r) : r \in RefsAt(at)}] :
          LET urls == {answers[r] : r \in RefsAt(at)}
              homeless == {f \in RemoteAt(at) : MatchingVolume(at, f.path) = {}}
              main == [n \in {MainName(at)} |-> MainService(at, urls)]
              inline == [n \in {f.name : f \in InlineAt(at)} |->
                           LET g == CHOOSE f \in InlineAt(at) : f.name = n
                           IN ContentOf(at, g.source)]
          IN /\ \A r \in RefsAt(at) : answers[r] \in ResolveRef(manifest, r)
             /\ IF Unresolved \in urls \/ homeless # {}
                  THEN stage' = "failed" /\ UNCHANGED <<todo, services, volumes, files>>
                  ELSE /\ services' = Over(main, Over(InitServices(at), services))
                       /\ volumes' = volumes \cup {m.volume : m \in MainService(at, urls).mounts}
                       /\ files' = Over(inline, files)
                       /\ todo' = todo \ {at}
                       /\ UNCHANGED stage
    BY DEF ConvertSpec
  <1> DEFINE urls == {answers[r] : r \in RefsAt(at)}
  <1>2. /\ services' = Over([n \in {MainName(at)} |-> MainService(at, urls)],
                            Over(InitServices(at), services))
        /\ todo' = todo \ {at} /\ UNCHANGED stage
        /\ files' = Over([n \in {f.name : f \in InlineAt(at)} |->
                             ContentOf(at, (CHOOSE f \in InlineAt(at) : f.name = n).source)], files)
        /\ Unresolved \notin urls
        /\ \A f \in RemoteAt(at) : MatchingVolume(at, f.path) # {}
        /\ \A r \in RefsAt(at) : answers[r] \in ResolveRef(manifest, r)
    BY <1>1
  <1>3. UrlsOf(at, urls)
    <2>1. \A r \in RefsAt(at) : answers[r] \in ResolveRef(manifest, r) /\ answers[r] # Unresolved
      BY <1>2
    <2>2. \A r \in RefsAt(at) : Exposed(answers[r]) /\ answers[r].name = r.name
      BY <2>1, AnswersExposed
    <2>3. \A u \in urls : Exposed(u)
      BY <2>2
    <2>4. \A x : x \in {u.name : u \in urls} <=> x \in {r.name : r \in RefsAt(at)}
      BY <2>2
    <2>5. RefsAt(at) = RefsOf(manifest, at)
      BY DEF RefsAt, RefsOf
    <2> HIDE DEF urls
    <2>6. {u.name : u \in urls} = {r.name : r \in RefsAt(at)}
      BY <2>4
    <2> QED  BY <2>3, <2>5, <2>6 DEF UrlsOf
  <1> HIDE DEF urls
  <1>4. at \in todo /\ UNCHANGED <<manifest, composeFile, docker>>
    BY DEF ConvertSpec
  <1> QED  BY <1>2, <1>3, <1>4

\* What a turn adds does not replace anything.
LEMMA TurnKeeps ==
  ASSUME IInv, NEW at \in SpecsIn(manifest), ConvertSpec(at), stage' # "failed"
  PROVE  /\ DOMAIN services' = DOMAIN services \cup {MainName(at)}
                                 \cup {InitName(at, f) : f \in RemoteAt(at)}
         /\ \A bt \in Done : /\ services'[MainName(bt)] = services[MainName(bt)]
                             /\ \A f \in RemoteAt(bt) : services'[InitName(bt, f)] = services[InitName(bt, f)]
         /\ \E urls : services'[MainName(at)] = MainService(at, urls) /\ UrlsOf(at, urls)
         /\ \A f \in RemoteAt(at) : services'[InitName(at, f)] = FetchService(at, f)
  <1>1. PICK urls :
          /\ UrlsOf(at, urls)
          /\ services' = Over([n \in {MainName(at)} |-> MainService(at, urls)],
                              Over(InitServices(at), services))
    BY TurnAdds
  <1>2. at \notin Done
    BY TurnAdds DEF Done
  <1>3. DOMAIN InitServices(at) = {InitName(at, f) : f \in RemoteAt(at)}
    BY DEF InitServices
  <1>4. \A f \in RemoteAt(at) : InitServices(at)[InitName(at, f)] = FetchService(at, f)
    <2> SUFFICES ASSUME NEW f \in RemoteAt(at)
                 PROVE  InitServices(at)[InitName(at, f)] = FetchService(at, f)
      OBVIOUS
    <2>1. \A g \in RemoteAt(at) : InitName(at, g) = InitName(at, f) => g = f
      BY SameFiles DEF IInv, WellFormed, NamesApart
    <2>2. (CHOOSE g \in RemoteAt(at) : InitName(at, g) = InitName(at, f)) = f
      BY <2>1
    <2> QED  BY <2>2 DEF InitServices
  <1>5. /\ DOMAIN services' = DOMAIN services \cup {MainName(at)} \cup DOMAIN InitServices(at)
        /\ services'[MainName(at)] = MainService(at, urls)
        /\ \A n \in DOMAIN InitServices(at) : n # MainName(at) => services'[n] = InitServices(at)[n]
        /\ \A n \in DOMAIN services : n # MainName(at) /\ n \notin DOMAIN InitServices(at)
             => services'[n] = services[n]
    BY <1>1 DEF Over
  <1>6. ASSUME NEW f \in RemoteAt(at) PROVE services'[InitName(at, f)] = FetchService(at, f)
    <2>1. InitName(at, f) # MainName(at)
      BY SameFiles DEF IInv, WellFormed, NamesApart
    <2> QED  BY <1>3, <1>4, <1>5, <2>1
  <1>7. ASSUME NEW bt \in Done
        PROVE  /\ services'[MainName(bt)] = services[MainName(bt)]
               /\ \A f \in RemoteAt(bt) : services'[InitName(bt, f)] = services[InitName(bt, f)]
    <2>1. /\ bt \in SpecsIn(manifest) /\ bt # at
          /\ MainName(bt) \in DOMAIN services
          /\ \A f \in RemoteAt(bt) : InitName(bt, f) \in DOMAIN services
      <3>1. bt \in SpecsIn(manifest) /\ bt # at
        BY <1>2, <1>7 DEF Done
      <3>2. MainName(bt) \in MainNames
        BY <1>7 DEF MainNames
      <3>3. ASSUME NEW f \in RemoteAt(bt) PROVE InitName(bt, f) \in InitNames
        BY <1>7, <3>3, SameFiles DEF InitNames
      <3> QED  BY <3>1, <3>2, <3>3 DEF IInv, ServicesInv
    <2>2. /\ MainName(bt) # MainName(at)
          /\ \A f \in RemoteAt(at) : InitName(at, f) # MainName(bt)
          /\ \A f \in RemoteAt(bt) : InitName(bt, f) # MainName(at)
          /\ \A f \in RemoteAt(at), g \in RemoteAt(bt) : InitName(at, f) # InitName(bt, g)
      BY <2>1, SameFiles DEF IInv, WellFormed, NamesApart
    <2> QED  BY <1>3, <1>5, <2>1, <2>2
  <1> QED  BY <1>1, <1>3, <1>5, <1>6, <1>7

\* While the manifest stays the same, so does what is made of it.
LEMMA Steady ==
  ASSUME UNCHANGED manifest, NEW at
  PROVE  /\ RemoteAt(at)' = RemoteAt(at) /\ InlineAt(at)' = InlineAt(at)
         /\ RemoteOf(manifest, at)' = RemoteOf(manifest, at)
         /\ InlineOf(manifest, at)' = InlineOf(manifest, at)
         /\ \A path : MatchingVolume(at, path)' = MatchingVolume(at, path)
         /\ \A f : FetchService(at, f)' = FetchService(at, f)
         /\ \A urls : MainService(at, urls)' = MainService(at, urls)
         /\ \A urls : UrlsOf(at, urls)' = UrlsOf(at, urls)
  <1>1. RemoteAt(at)' = RemoteAt(at) /\ InlineAt(at)' = InlineAt(at)
    BY DEF RemoteAt, InlineAt, ArtifactsAt
  <1>2. \A path : MatchingVolume(at, path)' = MatchingVolume(at, path)
    BY DEF MatchingVolume
  <1>3. \A f : FetchService(at, f)' = FetchService(at, f)
    BY <1>2 DEF FetchService
  <1>4. DependsOn(at)' = DependsOn(at)
    BY <1>1 DEF DependsOn
  <1>5. \A urls : MainService(at, urls)' = MainService(at, urls)
    BY <1>1, <1>4 DEF MainService
  <1>6. \A u : Exposed(u)' = Exposed(u)
    BY DEF Exposed
  <1>7. RefsOf(manifest, at)' = RefsOf(manifest, at)
    BY DEF RefsOf
  <1>8. \A urls : UrlsOf(at, urls)' = UrlsOf(at, urls)
    BY <1>6, <1>7 DEF UrlsOf
  <1> QED  BY <1>1, <1>2, <1>3, <1>5, <1>8

\* The specs converted so far stay converted.
LEMMA StaysConverted ==
  ASSUME NEW at, UNCHANGED manifest, SpecConverted(at),
         services'[MainName(at)] = services[MainName(at)],
         \A f \in RemoteAt(at) : services'[InitName(at, f)] = services[InitName(at, f)],
         \A f \in InlineAt(at) : f.name \in DOMAIN files' /\ files'[f.name] = files[f.name]
  PROVE  SpecConverted(at)'
  <1>1. \E urls : services'[MainName(at)] = MainService(at, urls)' /\ UrlsOf(at, urls)'
    BY Steady DEF SpecConverted
  <1>2. \A f \in RemoteOf(manifest, at)' :
          services'[InitName(at, f)] = FetchService(at, f)' /\ MatchingVolume(at, f.path)' # {}
    BY Steady, SameFiles DEF SpecConverted
  <1>3. \A f \in InlineOf(manifest, at)' :
          f.name \in DOMAIN files' /\ files'[f.name] = ContentOf(at, f.source)
    BY Steady, SameFiles DEF SpecConverted
  <1> QED  BY <1>1, <1>2, <1>3 DEF SpecConverted

\* Files that are written again get the content they have.
LEMMA TurnFiles ==
  ASSUME IInv, NEW at \in SpecsIn(manifest), ConvertSpec(at), stage' # "failed"
  PROVE  /\ \A f \in InlineAt(at) : f.name \in DOMAIN files' /\ files'[f.name] = ContentOf(at, f.source)
         /\ \A bt \in Done : \A f \in InlineAt(bt) :
              f.name \in DOMAIN files' /\ files'[f.name] = files[f.name]
  <1> DEFINE new == [n \in {f.name : f \in InlineAt(at)} |->
                       ContentOf(at, (CHOOSE f \in InlineAt(at) : f.name = n).source)]
  <1>1. files' = Over(new, files)
    BY TurnAdds
  <1>2. ASSUME NEW bt \in SpecsIn(manifest), NEW f \in InlineAt(bt), f.name \in DOMAIN new
        PROVE  new[f.name] = ContentOf(bt, f.source)
    <2>1. PICK g \in InlineAt(at) : g = (CHOOSE h \in InlineAt(at) : h.name = f.name) /\ g.name = f.name
      <3>1. \E h \in InlineAt(at) : h.name = f.name
        BY <1>2
      <3> QED  BY <3>1
    <2>2. ContentOf(at, g.source) = ContentOf(bt, f.source)
      BY <2>1, SameFiles DEF IInv, WellFormed, FilesAgree
    <2> QED  BY <1>2, <2>1, <2>2
  <1>3. \A f \in InlineAt(at) : f.name \in DOMAIN new
    OBVIOUS
  <1> HIDE DEF new
  <1>4. /\ \A n \in DOMAIN new : n \in DOMAIN files' /\ files'[n] = new[n]
        /\ \A n \in DOMAIN files : n \in DOMAIN files' /\ (n \notin DOMAIN new => files'[n] = files[n])
    BY <1>1 DEF Over
  <1>5. ASSUME NEW bt \in Done, NEW f \in InlineAt(bt)
        PROVE  f.name \in DOMAIN files' /\ files'[f.name] = files[f.name]
    <2>1. /\ bt \in SpecsIn(manifest) /\ f.name \in DOMAIN files
          /\ files[f.name] = ContentOf(bt, f.source)
      BY <1>5, SameFiles DEF IInv, ServicesInv, SpecConverted, Done
    <2> QED  BY <1>2, <1>4, <2>1
  <1> QED  BY <1>2, <1>3, <1>4, <1>5

LEMMA ConvertSpecInv ==
  ASSUME IInv, NEW at \in todo, ConvertSpec(at)
  PROVE  IInv'
  <1>1. at \in SpecsIn(manifest) /\ stage = "converting" /\ UNCHANGED <<manifest, composeFile, docker>>
    BY DEF IInv, ServicesInv, ConvertSpec
  <1>2. stage' \in {"converting", "failed"}
    BY <1>1, TurnAdds
  <1>3. WellFormed(manifest)' /\ FileInv'
    BY <1>1, <1>2 DEF IInv, FileInv, Composed
  <1>4. DockerInv'
    BY <1>1, <1>2 DEF IInv, DockerInv, docker
  <1>5. CASE stage' = "failed"
    <2>1. UNCHANGED <<todo, services, volumes, files>>
      BY <1>1, <1>5 DEF ConvertSpec
    <2>2. Done' = Done /\ MainNames' = MainNames /\ InitNames' = InitNames
      BY <1>1, <2>1 DEF Done, MainNames, InitNames, RemoteOf, FilesOf
    <2>3. \A bt \in Done : SpecConverted(bt)'
      BY <1>1, <2>1, StaysConverted, SameFiles DEF IInv, ServicesInv, SpecConverted
    <2>4. ServicesInv'
      BY <1>1, <1>5, <2>1, <2>2, <2>3 DEF IInv, ServicesInv
    <2> QED  BY <1>3, <1>4, <2>4 DEF IInv
  <1>6. CASE stage' # "failed"
    <2>1. todo' = todo \ {at} /\ Done' = Done \cup {at}
      BY <1>1, <1>6, TurnAdds DEF IInv, ServicesInv, Done
    <2>2. MainNames' = MainNames \cup {MainName(at)}
      BY <2>1 DEF MainNames
    <2>3. InitNames' = InitNames \cup {InitName(at, f) : f \in RemoteAt(at)}
      <3>1. \A bt : RemoteOf(manifest, bt)' = RemoteOf(manifest, bt)
        BY <1>1, Steady
      <3>2. ASSUME NEW n PROVE n \in InitNames' <=> n \in InitNames \/ \E f \in RemoteAt(at) : n = InitName(at, f)
        <4>1. n \in InitNames <=> \E bt \in Done : \E f \in RemoteOf(manifest, bt) : n = InitName(bt, f)
          BY DEF InitNames
        <4>2. n \in InitNames' <=> \E bt \in Done' : \E f \in RemoteOf(manifest, bt)' : n = InitName(bt, f)
          BY DEF InitNames
        <4> QED  BY <2>1, <3>1, <4>1, <4>2, SameFiles
      <3> QED  BY <3>2
    <2>4. DOMAIN services' = MainNames' \cup InitNames'
      BY <1>1, <1>6, <2>2, <2>3, TurnKeeps DEF IInv, ServicesInv
    <2>5. ASSUME NEW bt \in Done PROVE SpecConverted(bt)'
      BY <1>1, <1>6, TurnKeeps, TurnFiles, StaysConverted DEF IInv, ServicesInv
    <2>6. SpecConverted(at)'
      <3>1. UNCHANGED manifest
        BY <1>1
      <3>2. \E urls : services'[MainName(at)] = MainService(at, urls) /\ UrlsOf(at, urls)
        BY <1>1, <1>6, TurnKeeps
      <3>3. \E urls : services'[MainName(at)] = MainService(at, urls)' /\ UrlsOf(at, urls)'
        BY <3>1, <3>2, Steady
      <3>4. \A f \in RemoteOf(manifest, at)' :
              services'[InitName(at, f)] = FetchService(at, f)' /\ MatchingVolume(at, f.path)' # {}
        <4>1. \A f \in RemoteAt(at) :
                services'[InitName(at, f)] = FetchService(at, f) /\ MatchingVolume(at, f.path) # {}
          BY <1>1, <1>6, TurnKeeps, TurnAdds
        <4>2. /\ RemoteOf(manifest, at)' = RemoteAt(at)
              /\ \A f : FetchService(at, f)' = FetchService(at, f)
              /\ \A path : MatchingVolume(at, path)' = MatchingVolume(at, path)
          BY <3>1, Steady, SameFiles
        <4> QED  BY <4>1, <4>2
      <3>5. \A f \in InlineOf(manifest, at)' :
              f.name \in DOMAIN files' /\ files'[f.name] = ContentOf(at, f.source)
        BY <1>1, <1>6, TurnFiles, Steady, SameFiles
      <3> QED  BY <3>3, <3>4, <3>5 DEF SpecConverted
    <2>7. ServicesInv'
      BY <1>1, <1>2, <1>6, <2>1, <2>4, <2>5, <2>6 DEF IInv, ServicesInv
    <2> QED  BY <1>3, <1>4, <2>7 DEF IInv
  <1> QED  BY <1>5, <1>6

-----------------------------------------------------------------------------
(* What docker-compose reads.                                              *)

\* Mounts come back from their texts: names and paths have no colon.
Read(m) == [host |-> <<m.volume>>, target |-> <<m.path>>]
ReadBind(b) == [host |-> <<ConfigPath(b.file)>>, target |-> <<b.path>>]

LEMMA VolumeBack ==
  ASSUME NEW m
  PROVE  Yaml!DeserializeVolume(VolumeText(m)) = Read(m)
  <1>1. <<m.volume>> \o <<m.path>> = <<m.volume, m.path>>
    BY JoinOne
  <1> QED  BY <1>1 DEF VolumeText, Yaml!SerializeVolume, Yaml!DeserializeVolume, Read

LEMMA BindBack ==
  ASSUME NEW b
  PROVE  Yaml!DeserializeVolume(BindText(b)) = ReadBind(b)
  <1> DEFINE host == ConfigPath(b.file)
  <1>1. <<host>> \o <<b.path>> = <<host, b.path>>
    BY JoinOne
  <1>2. BindText(b) = <<host, b.path>>
    BY <1>1 DEF BindText, Yaml!SerializeVolume
  <1> HIDE DEF host
  <1>3. Yaml!DeserializeVolume(<<host, b.path>>) = [host |-> <<host>>, target |-> <<b.path>>]
    BY DEF Yaml!DeserializeVolume
  <1> QED  BY <1>2, <1>3 DEF host, ReadBind

MountTexts(n) == {VolumeText(m) : m \in services[n].mounts} \cup {BindText(b) : b \in services[n].binds}

\* What docker mounts at or above a path is what was converted.
LEMMA AboveRead ==
  ASSUME NEW n, NEW path, composeFile[n].volumes = MountTexts(n), NEW x
  PROVE  x \in Above(n, path) <=>
           \/ \E m \in services[n].mounts : x = Read(m) /\ Under(path, m.path)
           \/ \E b \in services[n].binds : x = ReadBind(b) /\ Under(path, b.path)
  <1>1. /\ \A m : Read(m).target[1] = m.path
        /\ \A b : ReadBind(b).target[1] = b.path
    BY DEF Read, ReadBind
  <1>2. x \in Above(n, path) <=>
          \E text \in MountTexts(n) : x = Yaml!DeserializeVolume(text) /\ Under(path, x.target[1])
    BY DEF Above
  <1>3. x \in Above(n, path) <=>
           \/ \E m \in services[n].mounts : x = Read(m) /\ Under(path, x.target[1])
           \/ \E b \in services[n].binds : x = ReadBind(b) /\ Under(path, x.target[1])
    BY <1>2, VolumeBack, BindBack DEF MountTexts
  <1> QED  BY <1>1, <1>3

LEMMA DeepestPlace ==
  ASSUME NEW n, NEW path, NEW v \in Above(n, path), Len(v.target[1]) \in Nat,
         \A x \in Above(n, path) :
           x = v \/ (Len(x.target[1]) \in Nat /\ Len(x.target[1]) < Len(v.target[1]))
  PROVE  Places(n, path) = {<<v.host, SubSeq(path, Len(v.target[1]) + 1, Len(path))>>}
  <1>1. {w \in Above(n, path) : \A x \in Above(n, path) : Len(x.target[1]) <= Len(w.target[1])} = {v}
    <2>1. \A x \in Above(n, path) : Len(x.target[1]) <= Len(v.target[1])
      OBVIOUS
    <2>2. ASSUME NEW w \in Above(n, path), \A x \in Above(n, path) : Len(x.target[1]) <= Len(w.target[1])
          PROVE  w = v
      <3>1. Len(v.target[1]) <= Len(w.target[1])
        BY <2>2
      <3> QED  BY <3>1
    <2> QED  BY <2>1, <2>2
  <1> QED  BY <1>1 DEF Places

\* The one that looks for a file, and the one that fetches it, look in the same place.
LEMMA SamePlace ==
  ASSUME IInv, Composed, NEW at \in SpecsIn(manifest), NEW f \in RemoteAt(at)
  PROVE  /\ MainName(at) \in DOMAIN services /\ InitName(at, f) \in Inits
         /\ Places(MainName(at), f.path) = PlacesOf(manifest, at, f.path)
         /\ Downloads(InitName(at, f)) = PlacesOf(manifest, at, f.path)
         /\ PlacesOf(manifest, at, f.path) # {}
  <1>1. at \in Done /\ f \in RemoteOf(manifest, at)
    BY SameFiles DEF IInv, FileInv, Done
  <1>2. MainName(at) \in DOMAIN services /\ InitName(at, f) \in DOMAIN services
    BY <1>1 DEF IInv, ServicesInv, MainNames, InitNames
  <1>3. \A n \in DOMAIN services : composeFile[n].volumes = MountTexts(n)
    BY DEF IInv, FileInv, MountTexts
  <1>4. PICK urls : services[MainName(at)] = MainService(at, urls)
    BY <1>1 DEF IInv, ServicesInv, SpecConverted
  <1>5. services[InitName(at, f)] = FetchService(at, f) /\ MatchingVolume(at, f.path) # {}
    BY <1>1 DEF IInv, ServicesInv, SpecConverted
  <1> DEFINE mine == SpecAt(manifest, at).volumes
             mount == [volume |-> VolumeName(at, DataVolume), path |-> DataVolume.path]
             spot == << <<VolumeName(at, DataVolume)>>, SubSeq(f.path, Len(DataVolume.path) + 1, Len(f.path)) >>
  <1>6. /\ DOMAIN mine = {1} /\ mine[1] = DataVolume
        /\ Under(f.path, DataVolume.path)
        /\ MatchingVolume(at, f.path) = {DataVolume}
    <2>1. mine \in {<<>>, <<DataVolume>>}
      BY DEF IInv, WellFormed, Typed
    <2> DEFINE hits == {i \in DOMAIN mine : StartsWith(f.path, mine[i].path)}
    <2>2. FirstOf(hits) # {} /\ \A i \in hits : Under(f.path, mine[i].path)
      BY <1>1 DEF IInv, WellFormed, FilesHoused
    <2>3. MatchingVolume(at, f.path) = {mine[i] : i \in FirstOf(hits)}
      BY DEF MatchingVolume
    <2>4. FirstOf(hits) \subseteq hits /\ hits \subseteq DOMAIN mine
      BY DEF FirstOf
    <2> HIDE DEF hits
    <2>5. mine = <<DataVolume>>
      BY <2>1, <2>2, <2>4
    <2>6. DOMAIN mine = {1} /\ mine[1] = DataVolume
      BY <2>5
    <2>7. FirstOf(hits) = {1} /\ 1 \in hits
      BY <2>2, <2>4, <2>6
    <2> QED  BY <2>2, <2>3, <2>6, <2>7
  <1>7. /\ services[MainName(at)].mounts = {mount}
        /\ services[MainName(at)].binds = {[file |-> g.name, path |-> g.path] : g \in InlineAt(at)}
    BY <1>4, <1>6 DEF MainService
  <1>8. /\ services[InitName(at, f)].mounts = {mount} /\ services[InitName(at, f)].binds = {}
        /\ services[InitName(at, f)].fetches = {f.path}
    BY <1>5, <1>6 DEF FetchService
  <1>9. mount.path = DataVolume.path /\ Read(mount).target[1] = DataVolume.path
        /\ Read(mount).host = <<VolumeName(at, DataVolume)>> /\ Len(DataVolume.path) = 1
    BY DEF Read, DataVolume, Volume
  <1> HIDE DEF mount
  <1>10. PlacesOf(manifest, at, f.path) = {spot}
    BY <1>6 DEF PlacesOf
  <1>11. ASSUME NEW n \in {MainName(at), InitName(at, f)} PROVE Places(n, f.path) = {spot}
    <2>1. ASSUME NEW b \in services[n].binds PROVE ~Under(f.path, b.path)
      <3>1. PICK g \in InlineAt(at) : b = [file |-> g.name, path |-> g.path]
        BY <1>7, <1>8, <1>11, <2>1
      <3>2. f \in FilesOf(manifest, at) /\ g \in InlineOf(manifest, at) /\ f # g
        BY <1>1, SameFiles DEF RemoteOf, InlineOf
      <3> QED  BY <3>1, <3>2 DEF IInv, WellFormed, BindsApart
    <2>2. composeFile[n].volumes = MountTexts(n) /\ services[n].mounts = {mount}
      BY <1>2, <1>3, <1>7, <1>8, <1>11
    <2>3. Read(mount) \in Above(n, f.path) /\ \A x \in Above(n, f.path) : x = Read(mount)
      BY <1>6, <1>9, <2>1, <2>2, AboveRead
    <2> DEFINE v == Read(mount)
    <2>4. v.target[1] = DataVolume.path /\ v.host = <<VolumeName(at, DataVolume)>>
      BY <1>9
    <2>5. v \in Above(n, f.path) /\ (\A x \in Above(n, f.path) : x = v) /\ Len(v.target[1]) \in Nat
      BY <1>9, <2>3
    <2> HIDE DEF v
    <2>6. Places(n, f.path) = {<<v.host, SubSeq(f.path, Len(v.target[1]) + 1, Len(f.path))>>}
      BY <2>5, DeepestPlace
    <2> QED  BY <2>4, <2>6
  <1>12. Downloads(InitName(at, f)) = Places(InitName(at, f), f.path)
    BY <1>8 DEF Downloads
  <1> QED  BY <1>2, <1>8, <1>10, <1>11, <1>12 DEF Inits

\* An inline file is mounted at its path, and nothing is mounted over it.
LEMMA BindPlace ==
  ASSUME IInv, Composed, NEW at \in SpecsIn(manifest), NEW f \in InlineAt(at)
  PROVE  Places(MainName(at), f.path) = {<< <<ConfigPath(f.name)>>, <<>> >>}
  <1> DEFINE n == MainName(at)
             mine == SpecAt(manifest, at).volumes
             bind == [file |-> f.name, path |-> f.path]
  <1>1. at \in Done /\ f \in InlineOf(manifest, at)
    BY SameFiles DEF IInv, FileInv, Done
  <1>2. n \in DOMAIN services
    BY <1>1 DEF IInv, ServicesInv, MainNames
  <1>3. composeFile[n].volumes = MountTexts(n)
    BY <1>2 DEF IInv, FileInv, MountTexts
  <1>4. PICK urls : services[n] = MainService(at, urls)
    BY <1>1 DEF IInv, ServicesInv, SpecConverted
  <1>5. /\ services[n].mounts = {[volume |-> VolumeName(at, mine[i]), path |-> mine[i].path] : i \in DOMAIN mine}
        /\ services[n].binds = {[file |-> g.name, path |-> g.path] : g \in InlineAt(at)}
    BY <1>4 DEF MainService
  <1>6. /\ ReadBind(bind).target[1] = f.path /\ ReadBind(bind).host = <<ConfigPath(f.name)>>
    BY DEF ReadBind
  <1>7. PICK T : f.path \in Seq(T)
    BY <1>1 DEF IInv, WellFormed, BindsApart, IsPath
  <1>8. /\ Len(f.path) \in Nat /\ SubSeq(f.path, 1, Len(f.path)) = f.path
        /\ SubSeq(f.path, Len(f.path) + 1, Len(f.path)) = <<>>
    BY <1>7
  <1>9. ReadBind(bind) \in Above(n, f.path)
    BY <1>3, <1>5, <1>8, AboveRead DEF Under
  <1>10. ASSUME NEW x \in Above(n, f.path)
         PROVE  x = ReadBind(bind) \/ (Len(x.target[1]) \in Nat /\ Len(x.target[1]) < Len(f.path))
    <2>1. CASE \E m \in services[n].mounts : x = Read(m) /\ Under(f.path, m.path)
      <3>1. PICK m \in services[n].mounts : x = Read(m) /\ Under(f.path, m.path)
        BY <2>1
      <3>2. PICK i \in DOMAIN mine : m.path = mine[i].path
        BY <1>5, <3>1
      <3>3. mine[i].path # f.path
        BY <1>1 DEF IInv, WellFormed, BindsApart
      <3>4. mine[i] = DataVolume
        BY DEF IInv, WellFormed, Typed
      <3>5. Len(m.path) = 1 /\ x.target[1] = m.path
        BY <3>1, <3>2, <3>4 DEF DataVolume, Volume, Read
      <3>6. Len(m.path) <= Len(f.path) /\ SubSeq(f.path, 1, Len(m.path)) = m.path
        BY <3>1 DEF Under
      <3> QED  BY <1>8, <3>2, <3>3, <3>5, <3>6
    <2>2. CASE \E b \in services[n].binds : x = ReadBind(b) /\ Under(f.path, b.path)
      <3>1. PICK b \in services[n].binds : x = ReadBind(b) /\ Under(f.path, b.path)
        BY <2>2
      <3>2. PICK g \in InlineAt(at) : b = [file |-> g.name, path |-> g.path]
        BY <1>5, <3>1
      <3>3. g \in InlineOf(manifest, at) /\ f \in FilesOf(manifest, at) /\ Under(f.path, g.path)
        BY <1>1, <3>1, <3>2, SameFiles DEF InlineOf
      <3>4. f = g
        BY <3>3 DEF IInv, WellFormed, BindsApart
      <3> QED  BY <3>1, <3>2, <3>4
    <2> QED  BY <1>3, <2>1, <2>2, AboveRead
  <1> HIDE DEF bind, n
  <1> DEFINE v == ReadBind(bind)
  <1>11. v.target[1] = f.path /\ v.host = <<ConfigPath(f.name)>>
    BY <1>6
  <1>12. /\ v \in Above(n, f.path) /\ Len(v.target[1]) \in Nat
         /\ \A x \in Above(n, f.path) :
              x = v \/ (Len(x.target[1]) \in Nat /\ Len(x.target[1]) < Len(v.target[1]))
    BY <1>8, <1>9, <1>10, <1>11
  <1> HIDE DEF v
  <1>13. Places(n, f.path) = {<<v.host, SubSeq(f.path, Len(v.target[1]) + 1, Len(f.path))>>}
    BY <1>12, DeepestPlace
  <1> QED  BY <1>8, <1>11, <1>13 DEF n

\* An init service is that of one file of one spec.
LEMMA InitIsAFetch ==
  ASSUME IInv, Composed, NEW n \in Inits
  PROVE  \E at \in SpecsIn(manifest) : \E f \in RemoteAt(at) : n = InitName(at, f)
  <1>1. n \in DOMAIN services /\ services[n].fetches # {}
    BY DEF Inits
  <1>2. n \notin MainNames
    <2>1. ASSUME NEW at \in Done PROVE services[MainName(at)].fetches = {}
      <3>1. PICK urls : services[MainName(at)] = MainService(at, urls)
        BY DEF IInv, ServicesInv, SpecConverted
      <3> QED  BY <3>1 DEF MainService
    <2> QED  BY <1>1, <2>1 DEF MainNames
  <1>3. n \in InitNames
    BY <1>1, <1>2 DEF IInv, ServicesInv
  <1>4. PICK at \in Done : \E f \in RemoteOf(manifest, at) : n = InitName(at, f)
    BY <1>3 DEF InitNames
  <1> QED  BY <1>4, SameFiles DEF Done

\* Init services do not write over each other's files.
LEMMA DownloadsApart ==
  ASSUME IInv, Composed, NEW n \in Inits, NEW k \in Inits, n # k
  PROVE  Downloads(n) \cap Downloads(k) = {}
  <1>1. PICK at \in SpecsIn(manifest) : \E f \in RemoteAt(at) : n = InitName(at, f)
    BY InitIsAFetch
  <1>2. PICK f \in RemoteAt(at) : n = InitName(at, f)
    BY <1>1
  <1>3. PICK bt \in SpecsIn(manifest) : \E g \in RemoteAt(bt) : k = InitName(bt, g)
    BY InitIsAFetch
  <1>4. PICK g \in RemoteAt(bt) : k = InitName(bt, g)
    BY <1>3
  <1>5. /\ Downloads(n) = PlacesOf(manifest, at, f.path)
        /\ Downloads(k) = PlacesOf(manifest, bt, g.path)
    BY <1>2, <1>4, SamePlace
  <1>6. ~(at = bt /\ f = g)
    BY <1>2, <1>4
  <1>7. \A p \in PlacesOf(manifest, at, f.path), q \in PlacesOf(manifest, bt, g.path) : p # q
    BY <1>6, SameFiles DEF IInv, WellFormed, PlacesApart
  <1> QED  BY <1>5, <1>7

\* docker-compose changes nothing of the deployment.
LEMMA AssemblySteady ==
  ASSUME IInv, UNCHANGED assembly, stage' = "applying" => stage = "applying",
         Composed' => Composed
  PROVE  /\ WellFormed(manifest)' /\ ServicesInv' /\ FileInv'
         /\ Inits' = Inits /\ \A n : Downloads(n)' = Downloads(n)
         /\ UNCHANGED services
  <1>1. UNCHANGED <<manifest, todo, services, files, composeFile>>
    BY DEF assembly
  <1>2. WellFormed(manifest)' /\ FileInv'
    BY <1>1 DEF IInv, FileInv
  <1>3. Done' = Done /\ MainNames' = MainNames /\ InitNames' = InitNames
    BY <1>1 DEF Done, MainNames, InitNames, RemoteOf, FilesOf
  <1>4. \A at \in Done : SpecConverted(at)'
    BY <1>1, StaysConverted, SameFiles DEF IInv, ServicesInv, SpecConverted
  <1>5. ServicesInv'
    BY <1>1, <1>3, <1>4 DEF IInv, ServicesInv
  <1>6. Inits' = Inits
    BY <1>1 DEF Inits
  <1>7. \A n : Downloads(n)' = Downloads(n)
    BY <1>1 DEF Downloads, Places, Above
  <1> QED  BY <1>1, <1>2, <1>5, <1>6, <1>7

LEMMA UpInv ==
  ASSUME IInv, Up
  PROVE  IInv'
  <1>1. Composed /\ stage' = "up" /\ UNCHANGED <<assembly, delivered>> /\ ups' = ups + 1
    BY DEF Up, Composed
  <1>2. /\ WellFormed(manifest)' /\ ServicesInv' /\ FileInv'
        /\ Inits' = Inits /\ \A n : Downloads(n)' = Downloads(n)
        /\ UNCHANGED services
    BY <1>1, AssemblySteady
  <1>3. container' = Over(container, [n \in DOMAIN services |-> "created"])
    BY DEF Up
  <1>4. ASSUME NEW n \in Inits \ pending' PROVE container'[n] = "running"
    <2>1. n \in DOMAIN services
      BY DEF Inits
    <2>2. n \in DOMAIN container /\ container[n] = "running"
      BY <1>4, <2>1 DEF Up
    <2> QED  BY <1>3, <2>2 DEF Over
  <1>5. /\ ups' \in Nat /\ pending' \subseteq DOMAIN container'
        /\ DOMAIN container' \subseteq DOMAIN services'
    <2>1. DOMAIN container' = DOMAIN services
      BY <1>3 DEF Over, IInv, DockerInv
    <2> QED  BY <1>1, <1>2, <2>1 DEF IInv, DockerInv, Up
  <1>6. DockerInv'
    BY <1>1, <1>2, <1>4, <1>5 DEF DockerInv
  <1> QED  BY <1>2, <1>6 DEF IInv

LEMMA StartServiceInv ==
  ASSUME IInv, NEW n \in pending, StartService(n)
  PROVE  IInv'
  <1>1. stage = "up" /\ Composed
    BY DEF IInv, DockerInv, Composed
  <1>2. UNCHANGED <<stage, assembly, ups>> /\ Composed'
    BY <1>1 DEF StartService, Composed
  <1>3. /\ WellFormed(manifest)' /\ ServicesInv' /\ FileInv'
        /\ Inits' = Inits /\ \A k : Downloads(k)' = Downloads(k)
        /\ UNCHANGED services
    BY <1>1, <1>2, AssemblySteady
  <1>4. ASSUME NEW k \in (Inits \cap DOMAIN container') \ pending', container'[k] = "completed"
        PROVE  Downloads(k) \subseteq delivered'
    <2>1. /\ pending' = pending \ {n} /\ container' = [container EXCEPT ![n] = "running"]
          /\ delivered' = delivered \ Downloads(n)
      BY DEF StartService
    <2>2. k # n /\ k \in (Inits \cap DOMAIN container) \ pending /\ container[k] = "completed"
      BY <1>4, <2>1
    <2>3. Downloads(k) \subseteq delivered
      BY <2>2 DEF IInv, DockerInv
    <2>4. CASE n \in Inits
      BY <1>1, <2>1, <2>2, <2>3, <2>4, DownloadsApart
    <2>5. CASE n \notin Inits
      <3>1. n \in DOMAIN services
        BY DEF IInv, DockerInv
      <3>2. Downloads(n) = {}
        BY <2>5, <3>1 DEF Inits, Downloads
      <3> QED  BY <2>1, <2>3, <3>2
    <2> QED  BY <2>4, <2>5
  <1>5. /\ ups' \in Nat /\ pending' \subseteq DOMAIN container'
        /\ DOMAIN container' \subseteq DOMAIN services'
    BY <1>2, <1>3 DEF IInv, DockerInv, StartService
  <1>6. DockerInv'
    BY <1>1, <1>2, <1>3, <1>4, <1>5 DEF DockerInv
  <1> QED  BY <1>3, <1>6 DEF IInv

\* A run of the fetcher completes or fails, or a service stops.
LEMMA EndsInv ==
  ASSUME IInv, NEW n \in DOMAIN container,
         \/ n \in Inits /\ (FetchCompletes(n) \/ FetchFails(n))
         \/ ServiceStops(n)
  PROVE  IInv'
  <1>1. stage = "up" /\ Composed
    BY DEF IInv, DockerInv, Composed
  <1>2. UNCHANGED <<stage, assembly, ups, pending>> /\ Composed'
    BY <1>1 DEF FetchCompletes, FetchFails, ServiceStops, Composed
  <1>3. /\ WellFormed(manifest)' /\ ServicesInv' /\ FileInv'
        /\ Inits' = Inits /\ \A k : Downloads(k)' = Downloads(k)
        /\ UNCHANGED services
    BY <1>1, <1>2, AssemblySteady
  <1>4. ASSUME NEW k \in (Inits \cap DOMAIN container') \ pending', container'[k] = "completed"
        PROVE  Downloads(k) \subseteq delivered'
    <2>1. k \in DOMAIN container
      BY <1>4 DEF FetchCompletes, FetchFails, ServiceStops
    <2>2. CASE container[k] = "completed" /\ k # n
      BY <1>2, <1>4, <2>1, <2>2 DEF IInv, DockerInv, FetchCompletes, FetchFails, ServiceStops
    <2>3. CASE ~(container[k] = "completed" /\ k # n)
      <3>1. k = n /\ FetchCompletes(n)
        BY <1>4, <2>1, <2>3 DEF FetchCompletes, FetchFails, ServiceStops
      <3> QED  BY <3>1 DEF FetchCompletes
    <2> QED  BY <2>2, <2>3
  <1>5. DOMAIN container' = DOMAIN container
    BY DEF FetchCompletes, FetchFails, ServiceStops
  <1>6. DockerInv'
    BY <1>1, <1>2, <1>3, <1>4, <1>5 DEF IInv, DockerInv
  <1> QED  BY <1>3, <1>6 DEF IInv

-----------------------------------------------------------------------------
(* The other steps of bbuilder, and all steps.                             *)

LEMMA WriteComposeInv ==
  ASSUME IInv, WriteCompose
  PROVE  IInv'
  <1>1. /\ stage = "converting" /\ stage' = "written" /\ todo = {}
        /\ UNCHANGED <<manifest, todo, services, files, docker>>
    BY DEF WriteCompose
  <1>2. WellFormed(manifest)'
    BY <1>1 DEF IInv
  <1>3. Done' = Done /\ MainNames' = MainNames /\ InitNames' = InitNames
    BY <1>1 DEF Done, MainNames, InitNames, RemoteOf, FilesOf
  <1>4. \A at \in Done : SpecConverted(at)'
    BY <1>1, StaysConverted, SameFiles DEF IInv, ServicesInv, SpecConverted
  <1>5. ServicesInv'
    BY <1>1, <1>3, <1>4 DEF IInv, ServicesInv
  <1>6. FileInv'
    BY <1>1 DEF WriteCompose, FileInv
  <1>7. DockerInv'
    BY <1>1 DEF IInv, DockerInv, docker
  <1> QED  BY <1>2, <1>5, <1>6, <1>7 DEF IInv

LEMMA UnknownModuleInv ==
  ASSUME IInv, UnknownModule
  PROVE  IInv'
  <1>1. /\ stage = "applying" /\ stage' = "failed"
        /\ UNCHANGED <<assembly, docker>>
    BY DEF UnknownModule
  <1>2. WellFormed(manifest)' /\ ServicesInv' /\ FileInv'
    BY <1>1, AssemblySteady DEF Composed
  <1>3. DockerInv'
    BY <1>1 DEF IInv, DockerInv, docker
  <1> QED  BY <1>2, <1>3 DEF IInv

LEMMA ApplyCatalogInv ==
  ASSUME IInv, ApplyCatalog
  PROVE  IInv'
  <1>1. /\ stage = "applying" /\ stage' = "converting" /\ input.module \in Modules
        /\ manifest' = Apply(input) /\ todo' = SpecsIn(manifest')
        /\ UNCHANGED <<services, volumes, files, composeFile, docker>>
    BY DEF ApplyCatalog
  <1>2. WellFormed(manifest)'
    BY <1>1, CatalogIsWellFormed DEF Apply
  <1>3. DOMAIN services = {}
    BY <1>1 DEF IInv, ServicesInv, MainNames, InitNames, Done
  <1>4. SpecsIn(manifest)' = SpecsIn(manifest')
    BY DEF SpecsIn
  <1>5. Done' = {}
    BY <1>1, <1>4 DEF Done
  <1>6. MainNames' = {} /\ InitNames' = {}
    BY <1>5 DEF MainNames, InitNames
  <1>7. ServicesInv'
    BY <1>1, <1>3, <1>4, <1>5, <1>6 DEF ServicesInv
  <1>8. FileInv' /\ DockerInv'
    BY <1>1 DEF IInv, FileInv, DockerInv, docker, Composed
  <1> QED  BY <1>2, <1>7, <1>8 DEF IInv

LEMMA InitInv == Init => IInv
  <1> SUFFICES ASSUME Init PROVE IInv
    OBVIOUS
  <1>1. SpecsIn(manifest) = {} /\ Tidy(manifest)
    BY NewIsTidy DEF Init
  <1>2. WellFormed(manifest)
    BY <1>1, TidyIsWellFormed DEF FilesAgree, RefsAnswered, Watched
  <1>3. Done = {} /\ DOMAIN services = {}
    BY <1>1 DEF Init, Done
  <1>4. ServicesInv
    BY <1>1, <1>3 DEF Init, ServicesInv, MainNames, InitNames
  <1>5. FileInv /\ DockerInv
    BY DEF Init, FileInv, DockerInv, Composed
  <1> QED  BY <1>2, <1>4, <1>5 DEF IInv

LEMMA StutterInv ==
  ASSUME IInv, UNCHANGED vars
  PROVE  IInv'
  <1>1. UNCHANGED <<stage, assembly, docker>>
    BY DEF vars
  <1>2. /\ WellFormed(manifest)' /\ ServicesInv' /\ FileInv'
        /\ Inits' = Inits /\ \A n : Downloads(n)' = Downloads(n)
        /\ UNCHANGED services
    BY <1>1, AssemblySteady DEF Composed
  <1>3. DockerInv'
    BY <1>1, <1>2 DEF IInv, DockerInv, docker
  <1> QED  BY <1>2, <1>3 DEF IInv

LEMMA StepInv == IInv /\ [Next]_vars => IInv'
  <1> SUFFICES ASSUME IInv, [Next]_vars PROVE IInv'
    OBVIOUS
  <1>1. CASE UnknownModule
    BY <1>1, UnknownModuleInv
  <1>2. CASE ApplyCatalog
    BY <1>2, ApplyCatalogInv
  <1>3. CASE \E at \in todo : ConvertSpec(at)
    BY <1>3, ConvertSpecInv
  <1>4. CASE WriteCompose
    BY <1>4, WriteComposeInv
  <1>5. CASE Up
    BY <1>5, UpInv
  <1>6. CASE Starts
    BY <1>6, StartServiceInv DEF Starts
  <1>7. CASE FetchEnds
    <2>1. PICK n \in Inits : FetchCompletes(n) \/ FetchFails(n)
      BY <1>7 DEF FetchEnds
    <2>2. n \in DOMAIN container
      BY <2>1 DEF FetchCompletes, FetchFails
    <2> QED  BY <2>1, <2>2, EndsInv
  <1>8. CASE \E n \in DOMAIN container : ServiceStops(n)
    BY <1>8, EndsInv
  <1>9. CASE UNCHANGED vars
    BY <1>9, StutterInv
  <1> QED  BY <1>1, <1>2, <1>3, <1>4, <1>5, <1>6, <1>7, <1>8, <1>9 DEF Next, Assemble

LEMMA Invariance == Spec => []IInv
  BY InitInv, StepInv, PTL DEF Spec

-----------------------------------------------------------------------------
(* The rest of the state.                                                  *)

\* Every reference of a spec is answered, and every file it wants has a volume.
LEMMA TurnSucceeds ==
  ASSUME IInv, NEW at \in SpecsIn(manifest), ConvertSpec(at)
  PROVE  stage' # "failed"
  <1>1. PICK answers \in [RefsAt(at) -> UNION {ResolveRef(manifest, r) : r \in RefsAt(at)}] :
          /\ \A r \in RefsAt(at) : answers[r] \in ResolveRef(manifest, r)
          /\ stage' = "failed" => \/ Unresolved \in {answers[r] : r \in RefsAt(at)}
                                  \/ {f \in RemoteAt(at) : MatchingVolume(at, f.path) = {}} # {}
    BY DEF ConvertSpec
  <1>2. ASSUME NEW r \in RefsAt(at) PROVE Unresolved \notin ResolveRef(manifest, r)
    <2>1. r \in RefsOf(manifest, at)
      BY DEF RefsAt, RefsOf
    <2>2. Answered(manifest, r)
      BY <2>1 DEF IInv, WellFormed, RefsAnswered
    <2>3. PICK bt \in SpecsIn(manifest) :
            /\ MainName(bt) = r.name
            /\ \E i \in DOMAIN SpecAt(manifest, bt).ports : SpecAt(manifest, bt).ports[i].name = r.port
      BY <2>2 DEF Answered
    <2>4. \A ct \in SpecsIn(manifest) : ServiceName(ct) = r.name => ct = bt
      BY <2>3 DEF IInv, WellFormed, NamesApart, ServiceName, MainName
    <2>5. \A u \in AnswersAt(manifest, bt, r) : u.name = r.name
      <3> DEFINE ports == SpecAt(manifest, bt).ports
                 hits == {i \in DOMAIN ports : ports[i].name = r.port}
      <3>1. hits # {}
        BY <2>3
      <3>2. AnswersAt(manifest, bt, r) =
              IF hits = {} THEN {Unresolved}
              ELSE {[name |-> r.name, port |-> ports[i].port] : i \in FirstOf(hits)}
        BY DEF AnswersAt
      <3> HIDE DEF hits
      <3> QED  BY <3>1, <3>2
    <2>6. ServiceName(bt) = r.name
      BY <2>3 DEF ServiceName, MainName
    <2>7. \A u \in ResolveRef(manifest, r) : u \in AnswersAt(manifest, bt, r)
      BY <2>4, <2>6 DEF ResolveRef
    <2>8. Unresolved.name = <<>> /\ r.name # <<>>
      BY <2>2 DEF Unresolved, Answered
    <2> QED  BY <2>5, <2>7, <2>8
  <1>3. ASSUME NEW f \in RemoteAt(at) PROVE MatchingVolume(at, f.path) # {}
    <2> DEFINE mine == SpecAt(manifest, at).volumes
               hits == {i \in DOMAIN mine : StartsWith(f.path, mine[i].path)}
    <2>1. FirstOf(hits) # {}
      BY SameFiles DEF IInv, WellFormed, FilesHoused
    <2>2. MatchingVolume(at, f.path) = {mine[i] : i \in FirstOf(hits)}
      BY DEF MatchingVolume
    <2> HIDE DEF hits
    <2> QED  BY <2>1, <2>2
  <1> QED  BY <1>1, <1>2, <1>3

LEMMA TurnDeclares ==
  ASSUME IInv, NEW at \in SpecsIn(manifest), ConvertSpec(at)
  PROVE  /\ volumes \subseteq volumes'
         /\ \A i \in DOMAIN SpecAt(manifest, at).volumes :
              VolumeName(at, SpecAt(manifest, at).volumes[i]) \in volumes'
  <1> DEFINE mine == SpecAt(manifest, at).volumes
             Mount(v) == [volume |-> VolumeName(at, v), path |-> v.path]
  <1>1. \E urls : volumes' = volumes \cup {m.volume : m \in MainService(at, urls).mounts}
    BY TurnSucceeds DEF ConvertSpec
  <1>2. \A urls : MainService(at, urls).mounts = {Mount(mine[i]) : i \in DOMAIN mine}
    BY DEF MainService
  <1>3. \A v : Mount(v).volume = VolumeName(at, v)
    OBVIOUS
  <1> HIDE DEF Mount
  <1> QED  BY <1>1, <1>2, <1>3

LEMMA InitState == Init => StateInv
  <1> SUFFICES ASSUME Init PROVE StateInv
    OBVIOUS
  <1>1. Done = {}
    BY NewIsTidy DEF Init, Done
  <1>2. ups \in 0 .. MaxUps
    BY InputsAssumption DEF Init
  <1> QED  BY <1>1, <1>2 DEF Init, StateInv, Composed

LEMMA ConvertSpecState ==
  ASSUME IInv, StateInv, IInv', NEW at \in todo, ConvertSpec(at)
  PROVE  StateInv'
  <1>1. at \in SpecsIn(manifest) /\ stage = "converting"
    BY DEF IInv, ServicesInv, ConvertSpec
  <1>2. stage' # "failed"
    BY <1>1, TurnSucceeds
  <1>3. /\ UNCHANGED <<input, stage, manifest, composeFile, ups, container, delivered>>
        /\ todo' = todo \ {at} /\ at \in todo
    BY <1>1, <1>2, TurnAdds DEF ConvertSpec, docker
  <1>4. DOMAIN container = {} /\ ~Composed /\ ~Composed' /\ delivered = {}
    BY <1>1, <1>3 DEF IInv, DockerInv, StateInv, Composed
  <1>5. Done' \subseteq Done \cup {at}
    BY <1>1, <1>3 DEF Done
  <1>6. ASSUME NEW bt \in Done', NEW i \in DOMAIN SpecAt(manifest, bt).volumes
        PROVE  VolumeName(bt, SpecAt(manifest, bt).volumes[i]) \in volumes'
    <2>1. CASE bt = at
      BY <1>1, <2>1, TurnDeclares
    <2>2. CASE bt # at
      BY <1>1, <1>5, <2>2, TurnDeclares DEF StateInv
    <2> QED  BY <2>1, <2>2
  <1> QED  BY <1>1, <1>3, <1>4, <1>6 DEF StateInv

LEMMA OtherAssemblyState ==
  ASSUME IInv, StateInv, IInv', UnknownModule \/ ApplyCatalog \/ WriteCompose
  PROVE  StateInv'
  <1>1. /\ stage \in {"applying", "converting"}
        /\ UNCHANGED <<input, services, volumes, ups, container, delivered>>
        /\ stage' = "failed" => input.module \notin Modules
    BY DEF UnknownModule, ApplyCatalog, WriteCompose, assembly, docker
  <1>2. DOMAIN container = {} /\ delivered = {} /\ ~Composed /\ DOMAIN composeFile = {}
    BY <1>1 DEF IInv, DockerInv, StateInv, Composed
  <1>3. stage' \in {"converting", "written", "failed"}
    BY DEF UnknownModule, ApplyCatalog, WriteCompose
  <1>4. ~Composed' => DOMAIN composeFile' = {}
    BY <1>2 DEF UnknownModule, ApplyCatalog, WriteCompose, assembly, Composed
  <1>5. \A at \in Done' : \A i \in DOMAIN SpecAt(manifest, at)'.volumes :
          VolumeName(at, SpecAt(manifest, at)'.volumes[i]) \in volumes'
    <2>1. CASE ApplyCatalog
      <3>1. Done' = {}
        BY <2>1 DEF ApplyCatalog, Done
      <3> QED  BY <3>1
    <2>2. CASE UnknownModule \/ WriteCompose
      <3>1. UNCHANGED <<manifest, todo>>
        BY <2>2 DEF UnknownModule, WriteCompose, assembly
      <3>2. Done' = Done
        BY <3>1 DEF Done
      <3> QED  BY <1>1, <3>1, <3>2 DEF StateInv
    <2> QED  BY <2>1, <2>2
  <1> QED  BY <1>1, <1>2, <1>3, <1>4, <1>5 DEF StateInv

\* docker-compose leaves what bbuilder has made alone.
LEMMA DockerState ==
  ASSUME IInv, StateInv, IInv', UNCHANGED <<input, assembly>>, Composed, Composed',
         stage' \in {"written", "up"},
         ups' \in 0 .. MaxUps,
         stage' = "up" => DOMAIN container' = DOMAIN services,
         \A n \in DOMAIN container' :
           container'[n] \in {"created", "running", "exited"} \cup
                               IF n \in Inits THEN {"completed"} ELSE {},
         delivered' \subseteq UNION {Downloads(n) : n \in Inits \cap DOMAIN composeFile}
  PROVE  StateInv'
  <1>1. UNCHANGED <<manifest, todo, services, volumes, files, composeFile>>
    BY DEF assembly
  <1>2. Done' = Done /\ Inits' = Inits /\ \A n : Downloads(n)' = Downloads(n)
    BY <1>1 DEF Done, Inits, Downloads, Places, Above
  <1>3. \A at \in Done' : \A i \in DOMAIN SpecAt(manifest, at)'.volumes :
          VolumeName(at, SpecAt(manifest, at)'.volumes[i]) \in volumes'
    BY <1>1, <1>2 DEF StateInv
  <1>4. delivered' \subseteq UNION {Downloads(n)' : n \in Inits' \cap DOMAIN composeFile'}
    BY <1>1, <1>2
  <1> QED  BY <1>1, <1>2, <1>3, <1>4 DEF StateInv

LEMMA UpState ==
  ASSUME IInv, StateInv, IInv', Up
  PROVE  StateInv'
  <1>1. /\ Composed /\ Composed' /\ stage' = "up" /\ UNCHANGED <<input, assembly, delivered>>
        /\ ups' = ups + 1 /\ ups < MaxUps
        /\ container' = Over(container, [n \in DOMAIN services |-> "created"])
    BY DEF Up, Composed
  <1>2. ups' \in 0 .. MaxUps
    BY <1>1, InputsAssumption DEF StateInv
  <1>3. /\ DOMAIN container' = DOMAIN services
        /\ \A n \in DOMAIN services :
             container'[n] = IF n \in DOMAIN container THEN container[n] ELSE "created"
    BY <1>1 DEF Over, IInv, DockerInv
  <1> QED  BY <1>1, <1>2, <1>3, DockerState DEF StateInv

LEMMA RunState ==
  ASSUME IInv, StateInv, IInv', NEW n \in DOMAIN container, stage = "up",
         UNCHANGED <<input, stage, assembly, ups>>,
         NEW status \in {"created", "running", "exited"} \cup IF n \in Inits THEN {"completed"} ELSE {},
         container' = [container EXCEPT ![n] = status],
         delivered' \subseteq delivered \cup IF n \in Inits THEN Downloads(n) ELSE {}
  PROVE  StateInv'
  <1>1. Composed /\ Composed' /\ stage' = "up"
    BY DEF Composed
  <1>2. DOMAIN container' = DOMAIN container
    OBVIOUS
  <1>3. \A k \in DOMAIN container : container'[k] = IF k = n THEN status ELSE container[k]
    OBVIOUS
  <1>4. \A k \in DOMAIN container' :
           container'[k] \in {"created", "running", "exited"} \cup
                               IF k \in Inits THEN {"completed"} ELSE {}
    BY <1>2, <1>3 DEF StateInv
  <1>5. delivered' \subseteq UNION {Downloads(k) : k \in Inits \cap DOMAIN composeFile}
    <2>1. DOMAIN composeFile = DOMAIN services
      BY <1>1 DEF IInv, FileInv
    <2>2. n \in DOMAIN composeFile
      BY <2>1 DEF StateInv
    <2> QED  BY <2>2 DEF StateInv
  <1> QED  BY <1>1, <1>2, <1>4, <1>5, DockerState DEF StateInv

LEMMA StateStep == IInv /\ IInv' /\ StateInv /\ [Next]_vars => StateInv'
  <1> SUFFICES ASSUME IInv, IInv', StateInv, [Next]_vars PROVE StateInv'
    OBVIOUS
  <1>1. CASE UnknownModule \/ ApplyCatalog \/ WriteCompose
    BY <1>1, OtherAssemblyState
  <1>2. CASE \E at \in todo : ConvertSpec(at)
    BY <1>2, ConvertSpecState
  <1>3. CASE Up
    BY <1>3, UpState
  <1>4. CASE Starts
    <2>1. PICK n \in pending : StartService(n)
      BY <1>4 DEF Starts
    <2>2. stage = "up" /\ n \in DOMAIN container
      BY DEF IInv, DockerInv
    <2>3. /\ UNCHANGED <<input, stage, assembly, ups>>
          /\ container' = [container EXCEPT ![n] = "running"]
          /\ delivered' \subseteq delivered
      BY <2>1 DEF StartService
    <2> QED  BY <2>2, <2>3, RunState
  <1>5. CASE FetchEnds
    <2>1. PICK n \in Inits : FetchCompletes(n) \/ FetchFails(n)
      BY <1>5 DEF FetchEnds
    <2>2. n \in DOMAIN container
      BY <2>1 DEF FetchCompletes, FetchFails
    <2>3. stage = "up"
      BY <2>2 DEF IInv, DockerInv
    <2>4. CASE FetchCompletes(n)
      <3>1. /\ UNCHANGED <<input, stage, assembly, ups>>
            /\ container' = [container EXCEPT ![n] = "completed"]
            /\ delivered' = delivered \cup Downloads(n)
        BY <2>4 DEF FetchCompletes
      <3> QED  BY <2>1, <2>2, <2>3, <3>1, RunState
    <2>5. CASE FetchFails(n)
      <3>1. /\ UNCHANGED <<input, stage, assembly, ups>>
            /\ container' = [container EXCEPT ![n] = "exited"]
            /\ delivered' = delivered
        BY <2>5 DEF FetchFails
      <3> QED  BY <2>2, <2>3, <3>1, RunState
    <2> QED  BY <2>1, <2>4, <2>5
  <1>6. CASE \E n \in DOMAIN container : ServiceStops(n)
    <2>1. PICK n \in DOMAIN container : ServiceStops(n)
      BY <1>6
    <2>2. stage = "up"
      BY DEF IInv, DockerInv
    <2>3. /\ UNCHANGED <<input, stage, assembly, ups>>
          /\ container' = [container EXCEPT ![n] = "exited"]
          /\ delivered' = delivered
      BY <2>1 DEF ServiceStops
    <2> QED  BY <2>2, <2>3, RunState
  <1>7. CASE UNCHANGED vars
    <2>1. UNCHANGED <<input, stage, manifest, todo, services, volumes, files, composeFile,
                      ups, container, pending, delivered>>
      BY <1>7 DEF vars, assembly, docker
    <2>2. Done' = Done /\ Inits' = Inits /\ (\A n : Downloads(n)' = Downloads(n)) /\ Composed' = Composed
      BY <2>1 DEF Done, Inits, Downloads, Places, Above, Composed
    <2>3. \A at \in Done' : \A i \in DOMAIN SpecAt(manifest, at)'.volumes :
            VolumeName(at, SpecAt(manifest, at)'.volumes[i]) \in volumes'
      BY <2>1, <2>2 DEF StateInv
    <2>4. delivered' \subseteq UNION {Downloads(n)' : n \in Inits' \cap DOMAIN composeFile'}
      BY <2>1, <2>2 DEF StateInv
    <2> QED  BY <2>1, <2>2, <2>3, <2>4 DEF StateInv
  <1> QED  BY <1>1, <1>2, <1>3, <1>4, <1>5, <1>6, <1>7 DEF Next, Assemble

LEMMA StateInvariance == Spec => []StateInv
  BY InitState, StateStep, Invariance, PTL DEF Spec

-----------------------------------------------------------------------------
(* What follows.                                                           *)

\* A reference of a converted spec leads to a service of the compose file that exposes
\* the port, on a network that the one who asks is on (resolve_ref, to_compose_service).
THEOREM ReferencesLeadSomewhere == Spec => []RefsReachable
  <1>1. IInv => RefsReachable
    <2> SUFFICES ASSUME IInv, Composed, NEW n \in DOMAIN services, NEW u \in services[n].urls
                 PROVE  /\ u.name \in DOMAIN services
                        /\ u.port \in services[u.name].ports
                        /\ services[u.name].networks \cap services[n].networks # {}
      BY DEF RefsReachable
    <2>1. n \in MainNames
      <3>1. CASE n \in InitNames
        <4>1. PICK at \in Done : \E f \in RemoteOf(manifest, at) : n = InitName(at, f)
          BY <3>1 DEF InitNames
        <4>2. PICK f \in RemoteOf(manifest, at) : n = InitName(at, f)
          BY <4>1
        <4>3. services[n] = FetchService(at, f)
          BY <4>2 DEF IInv, ServicesInv, SpecConverted
        <4>4. services[n].urls = {}
          BY <4>3 DEF FetchService
        <4> QED  BY <4>4
      <3> QED  BY <3>1 DEF IInv, ServicesInv
    <2>2. PICK at \in Done : n = MainName(at)
      BY <2>1 DEF MainNames
    <2>3. PICK urls : services[n] = MainService(at, urls) /\ UrlsOf(at, urls)
      BY <2>2 DEF IInv, ServicesInv, SpecConverted
    <2>4. services[n].urls = urls /\ services[n].networks = {"test"}
      BY <2>3 DEF MainService
    <2>5. PICK bt \in SpecsIn(manifest) :
            /\ u.name = MainName(bt)
            /\ \E i \in DOMAIN SpecAt(manifest, bt).ports : u.port = SpecAt(manifest, bt).ports[i].port
      BY <2>3, <2>4 DEF UrlsOf, Exposed
    <2>6. bt \in Done
      BY DEF IInv, FileInv, Done
    <2>7. MainName(bt) \in DOMAIN services
      BY <2>6 DEF IInv, ServicesInv, MainNames
    <2>8. PICK asked : services[MainName(bt)] = MainService(bt, asked)
      BY <2>6 DEF IInv, ServicesInv, SpecConverted
    <2>9. /\ services[MainName(bt)].networks = {"test"}
          /\ services[MainName(bt)].ports =
               {SpecAt(manifest, bt).ports[i].port : i \in DOMAIN SpecAt(manifest, bt).ports}
      BY <2>8 DEF MainService
    <2> QED  BY <2>4, <2>5, <2>7, <2>9
  <1> QED  BY <1>1, Invariance, PTL

\* Every service finds at the target path of an inline artifact a file of the folder
\* _config, not hidden by another mount, and in it what that artifact said, although all
\* specs write into one folder.
THEOREM InlineFilesAreKept == Spec => []BindsHoldContent
  <1>1. IInv => BindsHoldContent
    <2> SUFFICES ASSUME IInv, Composed, NEW at \in SpecsIn(manifest), NEW f \in InlineAt(at)
                 PROVE  /\ Places(at[1] \o at[2], f.path) = {<< <<ConfigPath(f.name)>>, <<>> >>}
                        /\ files[f.name] = ContentOf(at, f.source)
      BY DEF BindsHoldContent
    <2>1. at \in Done /\ f \in InlineOf(manifest, at)
      BY SameFiles DEF IInv, FileInv, Done
    <2>2. files[f.name] = ContentOf(at, f.source)
      BY <2>1 DEF IInv, ServicesInv, SpecConverted
    <2>3. Places(MainName(at), f.path) = {<< <<ConfigPath(f.name)>>, <<>> >>}
      BY BindPlace
    <2> QED  BY <2>2, <2>3 DEF MainName
  <1> QED  BY <1>1, Invariance, PTL

\* No service is started before every file its spec wants fetched was delivered to the
\* path where the service looks for it, in whatever order the init services run, fail
\* and are run again.  Delivered is what a fetcher left that exited with 0; a download
\* without a checksum may be cut short all the same.
THEOREM ServicesStartProvisioned == Spec => StartsProvisioned
  <1> DEFINE Provisioned ==
        \A at \in SpecsIn(manifest) : Started(at[1] \o at[2]) =>
          \A f \in RemoteAt(at) :
            LET places == Places(at[1] \o at[2], f.path)
            IN places # {} /\ places \subseteq delivered
  <1>1. IInv /\ [Next]_vars => Provisioned
    <2> SUFFICES ASSUME IInv, [Next]_vars, NEW at \in SpecsIn(manifest), Started(MainName(at)),
                        NEW f \in RemoteAt(at)
                 PROVE  Places(MainName(at), f.path) # {} /\ Places(MainName(at), f.path) \subseteq delivered
      BY DEF MainName
    <2> DEFINE n == MainName(at)
               d == InitName(at, f)
    <2>1. n \in pending /\ n \notin pending' /\ ups' = ups
      BY DEF Started
    <2>2. stage = "up" /\ Composed /\ ups \in Nat
      BY <2>1 DEF IInv, DockerInv, Composed
    <2>3. StartService(n)
      <3>1. pending' # pending
        BY <2>1
      <3>2. ~UNCHANGED vars /\ ~Assemble /\ ~FetchEnds /\ ~\E k \in DOMAIN container : ServiceStops(k)
        BY <3>1 DEF vars, docker, Assemble, UnknownModule, ApplyCatalog, ConvertSpec, WriteCompose,
                    FetchEnds, FetchCompletes, FetchFails, ServiceStops
      <3>3. ~Up
        BY <2>1, <2>2 DEF Up
      <3>4. PICK k \in pending : StartService(k)
        BY <3>2, <3>3 DEF Next, Starts
      <3> QED  BY <2>1, <3>4 DEF StartService
    <2>4. /\ n \in DOMAIN services /\ d \in Inits
          /\ Places(n, f.path) = Downloads(d) /\ Places(n, f.path) # {}
      BY <2>2, SamePlace
    <2>5. d \in DOMAIN composeFile[n].depends_on
          /\ Yaml!DeserializeDependsOn(composeFile[n].depends_on[d]) = Yaml!Completed
      <3>1. at \in Done
        BY <2>2 DEF IInv, FileInv, Done
      <3>2. PICK urls : services[n] = MainService(at, urls)
        BY <3>1 DEF IInv, ServicesInv, SpecConverted
      <3>3. d \in DOMAIN services[n].dependsOn /\ services[n].dependsOn[d] = Yaml!Completed
        BY <3>2 DEF MainService, DependsOn
      <3>4. composeFile[n].depends_on =
              [e \in DOMAIN services[n].dependsOn |-> Yaml!SerializeDependsOn(services[n].dependsOn[e])]
        BY <2>2, <2>4 DEF IInv, FileInv
      <3>5. Yaml!DeserializeDependsOn(Yaml!SerializeDependsOn(Yaml!Completed)) = Yaml!Completed
        BY DEF Yaml!DeserializeDependsOn, Yaml!SerializeDependsOn, Yaml!Completed, Yaml!NoCondition
      <3> QED  BY <3>3, <3>4, <3>5
    <2>6. d \in DOMAIN container \ pending /\ container[d] = "completed"
      BY <2>3, <2>5 DEF StartService, MayStart, Satisfied
    <2>7. Downloads(d) \subseteq delivered
      BY <2>4, <2>6 DEF IInv, DockerInv
    <2> QED  BY <2>4, <2>7
  <1> QED  BY <1>1, Invariance, PTL DEF Spec, StartsProvisioned

\* No two services share a name: there is one for each spec, and one for each file of a
\* spec that is to be fetched.
THEOREM ServicesKeepTheirNames == Spec => []NothingOverwritten
  <1> DEFINE fetched == UNION {{at} \X RemoteAt(at) : at \in SpecsIn(manifest)}
  <1>1. ASSUME IInv, Composed
        PROVE  Cardinality(DOMAIN services) = Cardinality(SpecsIn(manifest)) + Cardinality(fetched)
    <2>1. Done = SpecsIn(manifest) /\ DOMAIN services = MainNames \cup InitNames
      BY <1>1 DEF IInv, ServicesInv, FileInv, Done
    <2>2. IsFiniteSet(SpecsIn(manifest)) /\ \A at \in SpecsIn(manifest) : IsFiniteSet(RemoteAt(at))
      BY <1>1, SameFiles DEF IInv, WellFormed, FewSpecs
    <2>3. IsFiniteSet(MainNames) /\ Cardinality(MainNames) = Cardinality(SpecsIn(manifest))
      <3> DEFINE name == [at \in SpecsIn(manifest) |-> MainName(at)]
      <3>1. name \in Bijection(SpecsIn(manifest), MainNames)
        BY <1>1, <2>1 DEF Bijection, Injection, IsInjective, Surjection, MainNames,
                          IInv, WellFormed, NamesApart
      <3> QED  BY <2>2, <3>1, FS_Bijection DEF ExistsBijection
    <2>4. IsFiniteSet(fetched)
      <3> DEFINE sets == {{at} \X RemoteAt(at) : at \in SpecsIn(manifest)}
                 of == [at \in SpecsIn(manifest) |-> {at} \X RemoteAt(at)]
      <3>1. \A T \in sets : IsFiniteSet(T)
        <4>1. ASSUME NEW at \in SpecsIn(manifest) PROVE IsFiniteSet({at} \X RemoteAt(at))
          <5>1. IsFiniteSet({at}) /\ IsFiniteSet(RemoteAt(at))
            BY <2>2, FS_Singleton
          <5> QED  BY <5>1, FS_Product
        <4> QED  BY <4>1
      <3>2. of \in Surjection(SpecsIn(manifest), sets)
        BY DEF Surjection
      <3> HIDE DEF sets, of
      <3>3. IsFiniteSet(UNION sets)
        BY <2>2, <3>1, <3>2, FS_Surjection, FS_UNION
      <3> QED  BY <3>3 DEF sets
    <2>5. /\ \A x \in fetched : x[1] \in SpecsIn(manifest) /\ x[2] \in RemoteAt(x[1]) /\ x = <<x[1], x[2]>>
          /\ \A at \in SpecsIn(manifest) : \A f \in RemoteAt(at) : <<at, f>> \in fetched
      OBVIOUS
    <2> HIDE DEF fetched
    <2>6. IsFiniteSet(InitNames) /\ Cardinality(InitNames) = Cardinality(fetched)
      <3> DEFINE name == [x \in fetched |-> InitName(x[1], x[2])]
      <3>1. \A x \in fetched : name[x] \in InitNames
        BY <2>1, <2>5, SameFiles DEF InitNames
      <3>2. \A n \in InitNames : \E x \in fetched : name[x] = n
        <4> SUFFICES ASSUME NEW n \in InitNames PROVE \E x \in fetched : name[x] = n
          OBVIOUS
        <4>1. PICK at \in SpecsIn(manifest) : \E f \in RemoteAt(at) : n = InitName(at, f)
          BY <2>1, SameFiles DEF InitNames
        <4>2. PICK f \in RemoteAt(at) : n = InitName(at, f)
          BY <4>1
        <4>3. <<at, f>> \in fetched
          BY <2>5
        <4> QED  BY <4>2, <4>3
      <3>3. ASSUME NEW x \in fetched, NEW y \in fetched, name[x] = name[y] PROVE x = y
        <4>1. x[1] = y[1] /\ x[2] = y[2]
          BY <1>1, <2>5, <3>3, SameFiles DEF IInv, WellFormed, NamesApart
        <4> QED  BY <2>5, <4>1
      <3>4. name \in Bijection(fetched, InitNames)
        BY <3>1, <3>2, <3>3 DEF Bijection, Injection, IsInjective, Surjection
      <3> QED  BY <2>4, <3>4, FS_Bijection DEF ExistsBijection
    <2>7. MainNames \cap InitNames = {}
      BY <1>1, <2>1 DEF MainNames, InitNames, IInv, WellFormed, NamesApart
    <2>8. Cardinality(MainNames \cup InitNames) = Cardinality(MainNames) + Cardinality(InitNames)
      <3>1. /\ Cardinality(MainNames \cap InitNames) = 0
            /\ Cardinality(MainNames) \in Nat /\ Cardinality(InitNames) \in Nat
        BY <2>3, <2>6, <2>7, FS_EmptySet, FS_CardinalityType
      <3>2. Cardinality(MainNames \cup InitNames) =
              Cardinality(MainNames) + Cardinality(InitNames) - Cardinality(MainNames \cap InitNames)
        BY <2>3, <2>6, FS_Union
      <3> QED  BY <3>1, <3>2
    <2> QED  BY <2>1, <2>3, <2>6, <2>8
  <1>2. IInv => NothingOverwritten
    BY <1>1 DEF NothingOverwritten
  <1> QED  BY <1>2, Invariance, PTL

\* Only an input that names no module of the catalog ends in failure: what the catalog
\* makes is converted, in whatever order the two HashMaps are met.
THEOREM WhatTheCatalogMakesConverts == Spec => []CatalogConverts
  <1>1. StateInv => CatalogConverts
    BY DEF StateInv, CatalogConverts
  <1> QED  BY <1>1, StateInvariance, PTL

\* Every spec that asks for babel has a sidecar, which asks that spec's own service and
\* no other.
THEOREM SidecarsWatchTheirCarriers == Spec => []SidecarWatchesItsCarrier
  <1>1. IInv => SidecarWatchesItsCarrier
    <2> SUFFICES ASSUME IInv, Composed, NEW at \in SpecsIn(manifest), SpecAt(manifest, at).babel # {},
                        NEW sidecar, sidecar = at[1] \o at[2] \o <<"babel">>
                 PROVE  /\ sidecar \in DOMAIN services
                        /\ {u.name : u \in services[sidecar].urls} = {at[1] \o at[2]}
      BY DEF SidecarWatchesItsCarrier
    <2>1. PICK bt \in SpecsIn(manifest) :
            /\ MainName(bt) = sidecar
            /\ {r.name : r \in RefsOf(manifest, bt)} = {at[1] \o at[2]}
      BY DEF IInv, WellFormed, Watched
    <2>2. bt \in Done
      BY DEF IInv, FileInv, Done
    <2>3. sidecar \in DOMAIN services
      BY <2>1, <2>2 DEF IInv, ServicesInv, MainNames
    <2>4. PICK urls : services[MainName(bt)] = MainService(bt, urls) /\ UrlsOf(bt, urls)
      BY <2>2 DEF IInv, ServicesInv, SpecConverted
    <2>5. services[sidecar].urls = urls
      BY <2>1, <2>4 DEF MainService
    <2> QED  BY <2>1, <2>3, <2>4, <2>5 DEF UrlsOf
  <1> QED  BY <1>1, Invariance, PTL

\* A URL, in the form of the type.
LEMMA UrlType ==
  ASSUME IInv, Composed, NEW u, Exposed(u)
  PROVE  u \in [name : DOMAIN services, port : Nat]
  <1>1. PICK at \in SpecsIn(manifest) : \E i \in DOMAIN SpecAt(manifest, at).ports :
          u = [name |-> MainName(at), port |-> SpecAt(manifest, at).ports[i].port]
    BY DEF Exposed
  <1>2. MainName(at) \in DOMAIN services
    BY DEF IInv, FileInv, ServicesInv, MainNames, Done
  <1>3. \A i \in DOMAIN SpecAt(manifest, at).ports : SpecAt(manifest, at).ports[i].port \in Nat
    BY DEF IInv, WellFormed, Typed
  <1> QED  BY <1>1, <1>2, <1>3

LEMMA MountType ==
  ASSUME IInv, StateInv, Composed, NEW at \in SpecsIn(manifest),
         NEW i \in DOMAIN SpecAt(manifest, at).volumes, NEW v, v = SpecAt(manifest, at).volumes[i]
  PROVE  [volume |-> VolumeName(at, v), path |-> v.path] \in [volume : volumes, path : {<<"data">>}]
  <1>1. at \in Done
    BY DEF IInv, FileInv, Done
  <1>2. VolumeName(at, v) \in volumes
    BY <1>1 DEF StateInv
  <1>3. v = DataVolume
    BY DEF IInv, WellFormed, Typed
  <1>4. v.path = <<"data">>
    BY <1>3 DEF DataVolume, Volume
  <1> QED  BY <1>2, <1>4

LEMMA MainServiceType ==
  ASSUME IInv, StateInv, Composed, NEW at \in SpecsIn(manifest)
  PROVE  services[MainName(at)] \in Service
  <1> DEFINE s == services[MainName(at)]
             mine == SpecAt(manifest, at).volumes
             ports == SpecAt(manifest, at).ports
             Mount(v) == [volume |-> VolumeName(at, v), path |-> v.path]
             paths == {f.path : f \in UNION {ArtifactsAt(bt) : bt \in SpecsIn(manifest)}}
             fetched == {f.path : f \in UNION {RemoteAt(bt) : bt \in SpecsIn(manifest)}}
  <1>1. at \in Done
    BY DEF IInv, FileInv, Done
  <1>2. PICK urls : s = MainService(at, urls) /\ UrlsOf(at, urls)
    BY <1>1 DEF IInv, ServicesInv, SpecConverted
  <1>3. s = [urls |-> urls, ports |-> {ports[i].port : i \in DOMAIN ports},
             mounts |-> {Mount(mine[i]) : i \in DOMAIN mine},
             binds |-> {[file |-> f.name, path |-> f.path] : f \in InlineAt(at)},
             dependsOn |-> DependsOn(at), networks |-> {"test"}, fetches |-> {}]
    BY <1>2 DEF MainService
  <1>4. urls \in SUBSET [name : DOMAIN services, port : Nat]
    BY <1>2, UrlType DEF UrlsOf
  <1>5. {ports[i].port : i \in DOMAIN ports} \in SUBSET Nat
    BY DEF IInv, WellFormed, Typed
  <1>6. {Mount(mine[i]) : i \in DOMAIN mine} \in SUBSET [volume : volumes, path : {<<"data">>}]
    BY MountType
  <1>7. {[file |-> f.name, path |-> f.path] : f \in InlineAt(at)} \in SUBSET [file : DOMAIN files, path : paths]
    <2>1. ASSUME NEW f \in InlineAt(at) PROVE f.name \in DOMAIN files /\ f.path \in paths
      <3>1. f \in ArtifactsAt(at)
        BY DEF InlineAt
      <3>2. f.name \in DOMAIN files
        BY <1>1, SameFiles DEF IInv, ServicesInv, SpecConverted
      <3> QED  BY <3>1, <3>2
    <2> HIDE DEF paths
    <2> QED  BY <2>1
  <1>8. DependsOn(at) \in UNION {[deps -> {Yaml!Completed}] : deps \in SUBSET Inits}
    <2> DEFINE names == {InitName(at, f) : f \in RemoteAt(at)}
    <2>1. names \subseteq Inits
      BY SamePlace
    <2>2. DependsOn(at) = [n \in names |-> Yaml!Completed]
      BY DEF DependsOn
    <2> HIDE DEF names
    <2>3. DependsOn(at) \in [names -> {Yaml!Completed}]
      BY <2>2
    <2> QED  BY <2>1, <2>3
  <1>9. {"test"} \in SUBSET {"test", "default"} /\ {} \in SUBSET fetched
    OBVIOUS
  <1> DEFINE p == {ports[i].port : i \in DOMAIN ports}
             m == {Mount(mine[i]) : i \in DOMAIN mine}
             b == {[file |-> f.name, path |-> f.path] : f \in InlineAt(at)}
             U == SUBSET [name : DOMAIN services, port : Nat]
             M == SUBSET [volume : volumes, path : {<<"data">>}]
             B == SUBSET [file : DOMAIN files, path : paths]
             D == UNION {[deps -> {Yaml!Completed}] : deps \in SUBSET Inits}
             W == SUBSET {"test", "default"}
             F == SUBSET fetched
             P == SUBSET Nat
             w == {"test"}
             none == {}
  <1>10. Service = [urls : U, ports : P, mounts : M, binds : B, dependsOn : D, networks : W, fetches : F]
    BY DEF Service
  <1>11. s = [urls |-> urls, ports |-> p, mounts |-> m, binds |-> b, dependsOn |-> DependsOn(at),
              networks |-> w, fetches |-> none]
    BY <1>3
  <1>12. /\ urls \in U /\ p \in P /\ m \in M /\ b \in B /\ DependsOn(at) \in D
         /\ w \in W /\ none \in F
    BY <1>4, <1>5, <1>6, <1>7, <1>8, <1>9
  <1> HIDE DEF s, p, m, b, U, M, B, D, W, F, P, w, none
  <1>13. s \in Service
    BY <1>10, <1>11, <1>12
  <1> QED  BY <1>13 DEF s

LEMMA InitServiceType ==
  ASSUME IInv, StateInv, Composed, NEW at \in SpecsIn(manifest), NEW f \in RemoteAt(at)
  PROVE  services[InitName(at, f)] \in Service
  <1> DEFINE s == services[InitName(at, f)]
             mine == SpecAt(manifest, at).volumes
             Mount(v) == [volume |-> VolumeName(at, v), path |-> v.path]
             paths == {g.path : g \in UNION {ArtifactsAt(bt) : bt \in SpecsIn(manifest)}}
             fetched == {g.path : g \in UNION {RemoteAt(bt) : bt \in SpecsIn(manifest)}}
             m == {Mount(v) : v \in MatchingVolume(at, f.path)}
             U == SUBSET [name : DOMAIN services, port : Nat]
             M == SUBSET [volume : volumes, path : {<<"data">>}]
             B == SUBSET [file : DOMAIN files, path : paths]
             D == UNION {[deps -> {Yaml!Completed}] : deps \in SUBSET Inits}
             W == SUBSET {"test", "default"}
             F == SUBSET fetched
             P == SUBSET Nat
             w == {"default"}
             none == {}
             noDeps == [n \in {} |-> {}]
             mineOnly == {f.path}
  <1>1. at \in Done /\ f \in RemoteOf(manifest, at)
    BY SameFiles DEF IInv, FileInv, Done
  <1>2. s = [urls |-> none, ports |-> none, mounts |-> m, binds |-> none, dependsOn |-> noDeps,
             networks |-> w, fetches |-> mineOnly]
    BY <1>1 DEF IInv, ServicesInv, SpecConverted, FetchService
  <1>3. m \in M
    <2>1. \A v \in MatchingVolume(at, f.path) : \E i \in DOMAIN mine : v = mine[i]
      BY DEF MatchingVolume, FirstOf
    <2> QED  BY <2>1, MountType
  <1>4. noDeps \in D
    <2>1. noDeps \in [{} -> {Yaml!Completed}]
      OBVIOUS
    <2> HIDE DEF noDeps
    <2> QED  BY <2>1
  <1>5. mineOnly \in F
    OBVIOUS
  <1>6. none \in U /\ none \in P /\ none \in B /\ w \in W
    OBVIOUS
  <1>7. Service = [urls : U, ports : P, mounts : M, binds : B, dependsOn : D, networks : W, fetches : F]
    BY DEF Service
  <1> HIDE DEF s, m, U, M, B, D, W, F, P, w, none, noDeps, mineOnly
  <1>8. s \in Service
    BY <1>2, <1>3, <1>4, <1>5, <1>6, <1>7
  <1> QED  BY <1>8 DEF s

\* The variables stay in their types.  In particular a compose file mentions no service,
\* volume, file or dependency that is not there.
THEOREM TypeCorrect == Spec => []TypeOK
  <1>1. ASSUME IInv, StateInv PROVE TypeOK
    <2>1. Composed => \A n \in DOMAIN services : services[n] \in Service
      <3> SUFFICES ASSUME Composed, NEW n \in DOMAIN services PROVE services[n] \in Service
        OBVIOUS
      <3>1. CASE n \in MainNames
        BY <1>1, <3>1, MainServiceType DEF MainNames, Done
      <3>2. CASE n \in InitNames
        <4>1. PICK at \in Done : \E f \in RemoteOf(manifest, at) : n = InitName(at, f)
          BY <3>2 DEF InitNames
        <4> QED  BY <1>1, <4>1, SameFiles, InitServiceType DEF Done
      <3> QED  BY <1>1, <3>1, <3>2 DEF IInv, ServicesInv
    <2>2. DOMAIN composeFile = IF Composed THEN DOMAIN services ELSE {}
      BY <1>1 DEF IInv, FileInv, StateInv
    <2>3. ASSUME NEW n \in DOMAIN composeFile, NEW text \in composeFile[n].volumes
          PROVE  Yaml!DeserializeVolume(text) # Yaml!Invalid
      <3>1. Composed /\ composeFile[n].volumes = MountTexts(n)
        BY <1>1, <2>2 DEF IInv, FileInv, MountTexts
      <3>2. \/ \E m : Yaml!DeserializeVolume(text) = Read(m)
            \/ \E b : Yaml!DeserializeVolume(text) = ReadBind(b)
        BY <3>1, VolumeBack, BindBack DEF MountTexts
      <3>3. "host" \in DOMAIN Yaml!DeserializeVolume(text)
        BY <3>2 DEF Read, ReadBind
      <3>4. "host" \notin DOMAIN Yaml!Invalid
        BY DEF Yaml!Invalid
      <3> QED  BY <3>3, <3>4
    <2>4. DOMAIN container = IF stage = "up" THEN DOMAIN services ELSE {}
      BY <1>1 DEF IInv, DockerInv, StateInv
    <2>5. todo \subseteq SpecsIn(manifest) /\ pending \subseteq DOMAIN container
      BY <1>1 DEF IInv, ServicesInv, DockerInv
    <2> QED  BY <1>1, <2>1, <2>2, <2>3, <2>4, <2>5 DEF TypeOK, StateInv
  <1> QED  BY <1>1, Invariance, StateInvariance, PTL
=============================================================================
