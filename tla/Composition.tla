---------------------------- MODULE Composition ----------------------------
(***************************************************************************)
(* From an input to running containers: catalog::apply makes the manifest, *)
(* convert_to_docker_compose_spec turns its specs, in the order of two     *)
(* HashMaps, into the services of a compose file, and docker-compose       *)
(* starts those, each after the init services it depends on.  An init      *)
(* service is one run of the fetcher.                                      *)
(*                                                                         *)
(* Left to Deployer: host ports, crashes while files are written, and what *)
(* generated secrets hold.  Here a generated file holds its key's name.    *)
(***************************************************************************)
EXTENDS Catalog

CONSTANTS Inputs,   \* the inputs to consider
          Longer,   \* the <<a, b>> such that the name a begins with b, and goes on
          MaxUps    \* docker-compose up is run at most so often (a bound)

ASSUME InputsAssumption ==
    /\ \A i \in Inputs : i.clNode \in {"prysm", "lighthouse"}
    /\ \A i \in Inputs : i.module \in Modules => i.chain \in ChainsOf(i.module)
    /\ MaxUps \in Nat

VARIABLES
    input,      \* the input file
    stage,      \* how far bbuilder is
    manifest,
    todo,       \* the specs still to be converted
    services,   \* the services of the compose file, by name
    volumes,    \* the volumes it declares
    composeFile, \* what docker-compose reads of them: service -> its texts
    files,      \* the folder _config of the deployment: name -> content
    ups,        \* how often docker-compose up was run
    container,  \* the containers of the services, by name
    pending,    \* the services the last `up` has still to (re)start
    delivered   \* the files that a fetcher has left in volumes, <<volume, path in it>>,
                \* on exiting with 0, and that none has begun to write again

assembly == <<manifest, todo, services, volumes, files, composeFile>>
docker == <<ups, container, pending, delivered>>
vars == <<input, stage, assembly, docker>>

Init ==
    /\ input \in Inputs
    /\ stage = "applying"
    /\ manifest = NewManifest
    /\ todo = {}
    /\ services = [n \in {} |-> {}]
    /\ volumes = {}
    /\ files = [n \in {} |-> <<>>]
    /\ composeFile = [n \in {} |-> {}]
    /\ ups = 0
    /\ container = [n \in {} |-> ""]
    /\ pending = {}
    /\ delivered = {}

\* Entries of f, where g has none.
Over(f, g) == [x \in DOMAIN f \cup DOMAIN g |-> IF x \in DOMAIN f THEN f[x] ELSE g[x]]

\* The host and the target of a mount are one piece each: neither has a colon.
Yaml == INSTANCE ComposeFile WITH PortNumbers <- {}, Words <- {}, NoPort <- 0

-----------------------------------------------------------------------------
(* bbuilder                                                                *)

UnknownModule ==
    /\ stage = "applying"
    /\ input.module \notin Modules
    /\ stage' = "failed"
    /\ UNCHANGED <<input, assembly, docker>>

ApplyCatalog ==
    /\ stage = "applying"
    /\ input.module \in Modules
    /\ manifest' = Apply(input)
    /\ todo' = SpecsIn(manifest')
    /\ stage' = "converting"
    /\ UNCHANGED <<input, services, volumes, files, composeFile, docker>>

JwtOfEachSpec(at, source) ==
    IF source.kind = "jwt" THEN <<"token", at>> ELSE source.content

\* generate_source: what is inlined for a source that is not fetched.
ContentOf(at, source) ==
    IF source.kind = "jwt" THEN <<"token", "default">> ELSE source.content

ArtifactsAt(at) == {SpecAt(manifest, at).artifacts[i] : i \in DOMAIN SpecAt(manifest, at).artifacts}
IsRemote(f) == f.source.kind = "remote"
RemoteAt(at) == {f \in ArtifactsAt(at) : IsRemote(f)}
InlineAt(at) == ArtifactsAt(at) \ RemoteAt(at)
RefsAt(at) == LET args == SpecAt(manifest, at).args
              IN {args[i] : i \in {j \in DOMAIN args : args[j].kind = "ref"}}

VolumeName(at, v) == at[1] \o <<v.name>>

InitNameWithoutFile(at, f) == at[1] \o at[2] \o <<"init">>

InitName(at, f) == at[1] \o at[2] \o <<"init", f.name>>

\* starts_with of the texts: the last name of root may go on in the path, as in
\* /database, which starts with /data.
StartsWith(path, root) ==
    /\ Len(root) <= Len(path)
    /\ \A i \in DOMAIN root : \/ path[i] = root[i]
                              \/ i = Len(root) /\ <<path[i], root[i]>> \in Longer

\* The first volume whose path the target starts with, if any.
MatchingVolume(at, target) ==
    LET mine == SpecAt(manifest, at).volumes
        hits == {i \in DOMAIN mine : StartsWith(target, mine[i].path)}
    IN {mine[i] : i \in FirstOf(hits)}

\* fetch_service: the fetcher with one volume and no network of its own.
FetchService(at, f) ==
    [urls |-> {}, ports |-> {}, binds |-> {}, dependsOn |-> [n \in {} |-> {}], networks |-> {"default"},
     mounts |-> {[volume |-> VolumeName(at, v), path |-> v.path] : v \in MatchingVolume(at, f.path)},
     fetches |-> {f.path}]

InitServices(at) ==
    [n \in {InitName(at, f) : f \in RemoteAt(at)} |->
        FetchService(at, CHOOSE f \in RemoteAt(at) : InitName(at, f) = n)]

DependsOnEveryFile(at) == [n \in {InitName(at, f) : f \in ArtifactsAt(at)} |-> Yaml!Completed]

DependsOn(at) == [n \in {InitName(at, f) : f \in RemoteAt(at)} |-> Yaml!Completed]

MainService(at, urls) ==
    LET spec == SpecAt(manifest, at)
    IN [urls |-> urls,
        ports |-> {spec.ports[i].port : i \in DOMAIN spec.ports},
        mounts |-> {[volume |-> VolumeName(at, spec.volumes[i]), path |-> spec.volumes[i].path] :
                       i \in DOMAIN spec.volumes},
        binds |-> {[file |-> f.name, path |-> f.path] : f \in InlineAt(at)},
        dependsOn |-> DependsOn(at),
        networks |-> {"test"},
        fetches |-> {}]

\* A pod is finished before the next one is begun.
PodsInTurn(at) ==
    \A b \in SpecsIn(manifest) \ todo : \A c \in todo : b[1] = c[1] => b[1] = at[1]

MainNameIsSpecName(at) == at[2]

MainName(at) == at[1] \o at[2]

\* One turn of the inner loop.  It ends the run when a reference does not
\* resolve or a remote artifact is in no volume; what it then leaves in files
\* is used by nobody.
ConvertSpec(at) ==
    /\ stage = "converting"
    /\ at \in todo
    /\ PodsInTurn(at)
    /\ \E answers \in [RefsAt(at) -> UNION {ResolveRef(manifest, r) : r \in RefsAt(at)}] :
        LET urls == {answers[r] : r \in RefsAt(at)}
            homeless == {f \in RemoteAt(at) : MatchingVolume(at, f.path) = {}}
            main == [n \in {MainName(at)} |-> MainService(at, urls)]
            inline == [n \in {f.name : f \in InlineAt(at)} |->
                         LET g == CHOOSE f \in InlineAt(at) : f.name = n
                         IN ContentOf(at, g.source)]
        IN /\ \A r \in RefsAt(at) : answers[r] \in ResolveRef(manifest, r)
           /\ IF Unresolved \in urls \/ homeless # {}
                THEN stage' = "failed" /\ UNCHANGED <<todo, services, volumes, files>>
                ELSE /\ services' = Over(main, Over(InitServices(at), services))
                     /\ volumes' = volumes \cup {m.volume : m \in MainService(at, urls).mounts}
                     /\ files' = Over(inline, files)
                     /\ todo' = todo \ {at}
                     /\ UNCHANGED stage
    /\ UNCHANGED <<input, manifest, composeFile, docker>>

\* One list holds the volumes and the inline files of the folder _config.
ConfigPath(file) == <<"/", "_config", file>>
VolumeText(m) == Yaml!SerializeVolume([host |-> <<m.volume>>, target |-> <<m.path>>])
BindText(b) == Yaml!SerializeVolume([host |-> <<ConfigPath(b.file)>>, target |-> <<b.path>>])

WriteCompose ==
    /\ stage = "converting"
    /\ todo = {}
    /\ stage' = "written"
    /\ composeFile' =
         [n \in DOMAIN services |->
            [volumes |-> {VolumeText(m) : m \in services[n].mounts}
                            \cup {BindText(b) : b \in services[n].binds},
             depends_on |-> [d \in DOMAIN services[n].dependsOn |->
                               Yaml!SerializeDependsOn(services[n].dependsOn[d])]]]
    /\ UNCHANGED <<input, manifest, todo, services, volumes, files, docker>>

-----------------------------------------------------------------------------
(* docker-compose, which knows the compose file only.                      *)

Inits == {n \in DOMAIN services : services[n].fetches # {}}

\* A dependency without a condition has only to be started.
Satisfied(n, d) ==
    /\ d \in DOMAIN container \ pending
    /\ Yaml!DeserializeDependsOn(composeFile[n].depends_on[d]) = Yaml!Completed
         => container[d] = "completed"
MayStart(n) == \A d \in DOMAIN composeFile[n].depends_on : Satisfied(n, d)

\* Nothing that the last `up` waits for can still happen.
Settled ==
    /\ \A n \in Inits \cap DOMAIN container : container[n] # "running"
    /\ \A n \in pending : ~MayStart(n)

\* `up -d` of this run, or of a later one with the same services: what is not
\* running is started, init services that completed among it; what runs may be
\* replaced (its host port has changed) or left alone.
Up ==
    /\ stage \in {"written", "up"}
    /\ ups < MaxUps
    /\ Settled
    /\ LET running == {n \in DOMAIN container : container[n] = "running"}
       IN \E replaced \in SUBSET running : pending' = (DOMAIN services \ running) \cup replaced
    /\ container' = Over(container, [n \in DOMAIN services |-> "created"])
    /\ ups' = ups + 1
    /\ stage' = "up"
    /\ UNCHANGED <<input, assembly, delivered>>

Under(path, root) ==
    /\ Len(root) <= Len(path)
    /\ SubSeq(path, 1, Len(root)) = root

\* The mounts of service n at or above a path of its file system.
Above(n, path) ==
    {v \in {Yaml!DeserializeVolume(text) : text \in composeFile[n].volumes} :
        Under(path, v.target[1])}

\* Where a file at this path is kept: the deepest mount hides the others.
Places(n, path) ==
    {<<v.host, SubSeq(path, Len(v.target[1]) + 1, Len(path))>> :
        v \in {w \in Above(n, path) :
                  \A x \in Above(n, path) : Len(x.target[1]) <= Len(w.target[1])}}

\* What init service n downloads.
Downloads(n) == UNION {Places(n, path) : path \in services[n].fetches}

\* A fetcher truncates what it is to write.
StartService(n) ==
    /\ n \in pending
    /\ MayStart(n)
    /\ pending' = pending \ {n}
    /\ container' = [container EXCEPT ![n] = "running"]
    /\ delivered' = delivered \ Downloads(n)
    /\ UNCHANGED <<input, stage, assembly, ups>>

\* The fetcher exits with 0.  How whole the file then is, Fetcher says.
FetchCompletes(n) ==
    /\ n \in Inits
    /\ n \in DOMAIN container
    /\ container[n] = "running"
    /\ container' = [container EXCEPT ![n] = "completed"]
    /\ delivered' = delivered \cup Downloads(n)
    /\ UNCHANGED <<input, stage, assembly, ups, pending>>

FetchFails(n) ==
    /\ n \in Inits
    /\ n \in DOMAIN container
    /\ container[n] = "running"
    /\ container' = [container EXCEPT ![n] = "exited"]
    /\ UNCHANGED <<input, stage, assembly, ups, pending, delivered>>

\* No restart policy is set: a service that ends stays down.
ServiceStops(n) ==
    /\ n \in DOMAIN container \ Inits
    /\ container[n] = "running"
    /\ container' = [container EXCEPT ![n] = "exited"]
    /\ UNCHANGED <<input, stage, assembly, ups, pending, delivered>>

-----------------------------------------------------------------------------

Assemble ==
    \/ UnknownModule
    \/ ApplyCatalog
    \/ \E at \in todo : ConvertSpec(at)
    \/ WriteCompose

Starts == \E n \in pending : StartService(n)
FetchEnds == \E n \in Inits : FetchCompletes(n) \/ FetchFails(n)

Next ==
    \/ Assemble
    \/ Up
    \/ Starts
    \/ FetchEnds
    \/ \E n \in DOMAIN container : ServiceStops(n)

\* bbuilder goes on, docker-compose starts what it may start, and a run of the
\* fetcher ends (RunsEnd of Fetcher).  Nobody has to run `up`.
Spec == Init /\ [][Next]_vars
FairSpec == Spec /\ WF_vars(Assemble) /\ WF_vars(Starts) /\ WF_vars(FetchEnds)

-----------------------------------------------------------------------------
(* Properties.                                                             *)

Service == [urls : SUBSET [name : DOMAIN services, port : Nat], ports : SUBSET Nat,
            mounts : SUBSET [volume : volumes, path : {<<"data">>}],
            binds : SUBSET [file : DOMAIN files, path : {f.path : f \in
                               UNION {ArtifactsAt(at) : at \in SpecsIn(manifest)}}],
            dependsOn : UNION {[deps -> {Yaml!Completed}] : deps \in SUBSET Inits},
            networks : SUBSET {"test", "default"},
            fetches : SUBSET {f.path : f \in UNION {RemoteAt(at) : at \in SpecsIn(manifest)}}]
Composed == stage \in {"written", "up"}

\* The variables stay in their types.  In particular a compose file is closed:
\* the services, volumes and files it mentions are there.
TypeOK ==
    /\ input \in Inputs
    /\ stage \in {"applying", "converting", "written", "up", "failed"}
    /\ todo \subseteq SpecsIn(manifest)
    /\ Composed => \A n \in DOMAIN services : services[n] \in Service
    /\ DOMAIN composeFile = IF Composed THEN DOMAIN services ELSE {}
    /\ \A n \in DOMAIN composeFile : \A text \in composeFile[n].volumes :
         Yaml!DeserializeVolume(text) # Yaml!Invalid
    /\ ups \in 0 .. MaxUps
    /\ DOMAIN container = IF stage = "up" THEN DOMAIN services ELSE {}
    /\ \A n \in DOMAIN container :
         container[n] \in {"created", "running", "exited"} \cup
                            IF n \in Inits THEN {"completed"} ELSE {}
    /\ pending \subseteq DOMAIN container
    /\ delivered \subseteq UNION {Downloads(n) : n \in Inits \cap DOMAIN composeFile}

\* Every manifest of the catalog can be converted, in whatever order its pods
\* and specs are met: each Arg::Ref names a service and one of its ports, and
\* each remote artifact lies in a volume.
CatalogConverts == stage = "failed" => input.module \notin Modules

\* A resolved reference leads somewhere: the compose file has a service of that
\* name, which exposes that port and shares a network with the one that asks.
RefsReachable ==
    Composed => \A n \in DOMAIN services : \A u \in services[n].urls :
        /\ u.name \in DOMAIN services
        /\ u.port \in services[u.name].ports
        /\ services[u.name].networks \cap services[n].networks # {}

\* Every spec that asks for babel has a sidecar in its pod, which watches that
\* spec's own service and no other.
SidecarWatchesItsCarrier ==
    Composed => \A at \in SpecsIn(manifest) : SpecAt(manifest, at).babel # {} =>
        LET sidecar == at[1] \o at[2] \o <<"babel">>
        IN /\ sidecar \in DOMAIN services
           /\ {u.name : u \in services[sidecar].urls} = {at[1] \o at[2]}

\* No two services, init services included, share a name and overwrite each
\* other.
NothingOverwritten ==
    Composed => Cardinality(DOMAIN services) =
        Cardinality(SpecsIn(manifest)) +
        Cardinality(UNION {{at} \X RemoteAt(at) : at \in SpecsIn(manifest)})

\* All specs of a deployment write their inline files into one folder, which
\* shares the list of mounts with the volumes; still every service finds at the
\* target path of an inline artifact a file of that folder, and in it what that
\* artifact said.
BindsHoldContent ==
    Composed => \A at \in SpecsIn(manifest) : \A f \in InlineAt(at) :
        /\ Places(at[1] \o at[2], f.path) = {<< <<ConfigPath(f.name)>>, <<>> >>}
        /\ files[f.name] = ContentOf(at, f.source)

Started(n) == n \in pending \ pending' /\ ups' = ups

\* No service is started before every file its spec wants fetched was delivered
\* to the path where the service looks for it (a fetcher run on it has exited
\* with 0, and none has begun again since), whatever failed in earlier attempts.
\* It is the order of the runs that docker-compose is trusted with; that exit 0
\* may leave an unchecked file cut short is UncheckedSuccess of Fetcher.
StartsProvisioned ==
    [][\A at \in SpecsIn(manifest) : Started(at[1] \o at[2]) =>
        \A f \in RemoteAt(at) :
            LET places == Places(at[1] \o at[2], f.path)
            IN places # {} /\ places \subseteq delivered]_vars

FetchFailed == \E n \in Inits \cap DOMAIN container : container[n] = "exited"

\* When no download fails, every service is started in the end: no service
\* waits for one that never completes.
EverythingStarts == []~FetchFailed => (stage = "up" ~> pending = {})
=============================================================================
