# bbuilder in TLA+

bbuilder turns a catalog entry ("an Ethereum node", "a Polygon node") into a
manifest of pods and specs, resolves the files the manifest needs, writes a
docker-compose file for it and starts it.  Two programs run inside what it
starts: `fetcher`, an init service that downloads snapshots and genesis files,
and `babel`, a sidecar that watches a node.  These modules model the parts of it
that keep state, run concurrently or survive failures; TLC checks them on small
instances and TLAPS proves the safety properties for all sizes.

## The system

| part | state | operations | talks to |
|---|---|---|---|
| port pool (`runtime-docker-compose/src/runtime.rs` 20-58) | set of reserved host ports behind a mutex | `reserve_port` | the host, by binding a port |
| bbuilder run (`bbuilder/bin/main.rs`, `bbuilder/src/generator.rs`, `runtime.rs` 60-438) | files under the config folder: secrets, `_config` copies, compose files; containers | resolve secrets, load existing compose files, convert, write, pull, `docker-compose up`; dry run | port pool, docker, disk |
| deployment watcher (`deployment_watcher.rs`, `runtime.rs` 126-151) | map of deployments to service states; unbounded event channel | register, listen, route, handle event | docker events and inspect |
| spec (`crates/spec`) | none: builders and manifests | `add_spec`, `build`, `resolve_ref`, babel sidecar | catalog, runtime |
| compose format (`compose.rs`) | none | (de)serialise ports, volumes, depends_on | runtime, docker-compose |
| catalog, templates, cosmos-keys | none | build manifests, render text, make keys | spec, generator |
| babel (`crates/babel`, `crates/babel-api`) | cached status, Prometheus gauges | poll once a second; `/ready`, `/healthy`, `/metrics`, RPC | the monitored node |
| fetcher (`crates/fetcher`) | destination, temporary files, read buffer | skip check, request, copy, verify, unpack | HTTP server, disk |
| progress server (`fetcher/src/websocket.rs`, `crates/fetcher-api`) | broadcast channel, one task per subscriber | `subscribeProgress`, forward, lag | fetcher, WebSocket clients |

What is hard in it, and what makes each part correct:

* Port pool.  A loop that probes the host under a lock, next to other loops and
  other processes; a 16-bit counter at its end.  No port is granted twice, no
  usable port is jumped over, every call comes back.
* bbuilder run.  The pool dies with the process, so all that keeps deployments
  apart are the files of earlier runs, which may have been cut off at any point
  and may disagree with what is running.  Ports stay distinct in a file and
  across files, keys never rotate, what is started is what was planned, a torn
  file stops a run before it does harm, and what a run cannot read it passes over.
* Manifests and composition.  Names, ports and paths are spelled in one place and used in
  another, joined and looked up in maps without order; downloads fail and are repeated.
  References lead to the right service, nothing is overwritten, nobody starts without
  its files.
* Watcher.  Three concurrent parts, a channel between them, and docker: events
  are missed before the listener is connected, held up by an inspection, routed by name
  prefixes in the order of a HashMap to boards that a re-run replaces.  Events show in order
  and once, with an address the container had; what was delivered is not missing.
* Compose format.  Ports, volumes and dependencies are written as strings and maps by
  hand and read by hand in the next run.  What is read is what was written.
* Babel.  A status is put together from several requests to a node that changes
  meanwhile, and published in several steps; a failed request leaves the last status
  in place, and one that is lost is waited for for ever.  What is published was said by the
  node during one poll, gauges and handlers agree, and both settle on the truth
  unless the polling hangs.
* Fetcher.  Chunks are cut to the size of the copy buffer, bodies break off,
  runs crash with a partial file on disk and are repeated.  Success means whole
  content, a complete file is not lost to a re-run, subscribers see progress
  grow.

`PROJECT.json` lists every hazard with its line and the properties about it.

## Modules

    PortPool        what the pool promises            (abstract)
    ReservedPorts   the pool, implements PortPool     MCReservedPorts
    ReservedPorts_proofs                              theorems about it
    ComposeFile     the codecs of compose.rs (operators)
    ComposeFile_proofs                                their round trips
    Deployer        bbuilder run, files through ComposeFile   MCDeployer
    Deployer_proofs                                   theorems about it
    StatusBoard     what the watcher promises         (abstract)
    Watcher         the watcher, implements StatusBoard       MCWatcher
    Watcher_proofs                                    theorems about it
    HealthView      what babel promises               (abstract)
    Babel           babel, implements HealthView              MCBabel
    Babel_proofs                                      theorems about it
    ProgressFeed    the broadcast channel and the forwarding tasks
    Fetcher         the fetcher, composed with ProgressFeed   MCFetcher
    Fetcher_proofs                                    theorems about both
    Manifests       the spec crate: builders, sidecars, references (operators)
    Catalog         the manifests of the catalog (operators)
    Catalog_proofs                                    that they are well-formed
    Composition     from an input to running containers, the file through
                    ComposeFile                               MCComposition
    Composition_proofs                                theorems about it

The operators whose name says what is wrong with them
(`GrantForgetsInsert`, `CopyEndsUnflushed`, ...) stand directly before the action they deviate
from and are used by no specification.  Each is a bug one could make in that
place; putting it in place of the action makes TLC report the property that
`PROJECT.json` names for it under "mutants".

**ReservedPorts.**  One action per iteration of the loop (`SkipReserved`,
`ProbeFails`, `Grant`); `Lock` and `LockPoisoned` are the two outcomes of
`lock().unwrap()`; `StepUp`, `WrapAround` and `OverflowPanic` are the outcomes
of `port += 1`.  `checked` says whether the build has overflow checks.  Other processes
bind and release the ports in `HostPorts` between any two steps.

**Deployer.**  An invocation is a process with a program counter and local
variables; `secretFile`, `config`, `composeFile` and `up` outlive it.  The stages are
those of the code: `ReadSecret`/`MintSecret` (generator::secret), `LoadCompose`
and `ReserveLoaded` (load_reserved_ports), `ConvertSpec`, `TruncateCompose`/`WriteCompose`,
`PullImages`, `ComposeUp`.  `fs::write` is two steps, and a file a process left between them
is `Torn`: an empty file, which is what a truncation leaves; a partial write of
a few bytes behaves the same, since it does not parse as a compose file and is
taken whole as a secret.  A call of `reserve_port` is one step, which may
return what `FirstFit`, proved of `ReservedPorts`, allows: the first port that is not reserved
and could be bound; when the host is noisy any port it may hold may have been
busy at the time.  `Dies` stands for a crash and for every error returned
with `?`.  A spec has one host port and at most one secret; two specs may share
a secret file, as validators and their sentries do.

`load_reserved_ports` swallows every error of reading a folder or a file: `Overlook` passes over
a compose file that is there, and the history variable `overlooked` remembers it for the
properties (the process does not).  `SkipFolder` is a folder without a compose file, `LoadTorn` the
panic on one that does not parse.  docker-compose's exit status is ignored: `ComposeUp` keeps any of the
deployment's containers as they were, starts any of the others that can start and leaves the rest
down.  `exists()` of a secret is taken to be truthful.

An invocation reads the host ports of other runs from the texts in their compose
files, and docker-compose reads the texts of its own: `PortTexts`, `FilePorts` and
`HostPort` go through `ComposeFile`.  Processes are numbered in the order they start, and
the command line is chosen when one starts.

**ComposeFile.**  One operator for each hand-written `Serialize` and `Deserialize`.  A text
is the sequence of its colon-free pieces, which is what `split(':')` sees.  A piece that
parses as a u16 is a number and its spelling: plain, as the program writes it, or padded with
a sign or zeros ("+80", "0080"), which it reads too and writes back plainly.  All other pieces are `Words`.  The
derived codecs are left out.

**StatusBoard, Watcher.**  Docker is the sequence of the events of labelled containers; an
event is the state it brings its container into, an address the number of the start that
gave it.  `Connect`, `ReadStart`, `ReadDie`, `InspectAnswered`, `StreamError` and
`StreamEnds` are the listener: a start is sent on only when docker has answered, with
what the container is then.  `Handle` is one turn of the routing task and holds the map's
lock, so it is one step; `Register` is what `run` does with the map.  The order of the map is a
ranking that each insertion may change, since it may rehash.  `handled`, which StatusBoard
sees as `applied`, numbers the event handled last; `lost` and `since` are history
variables for `CaughtUp`.  docker-compose calls its containers
`<project>-<service>-<number>`, which is the name of no service of that project: `Handle`
routes their events to a board and shows nothing there.  So after `bbuilder run` all
services stay Pending; only a labelled container that bears the very name of a service shows.
An exit is `Failed` with its code, also for code 0, and `Completed` is never set; a death
whose event has no exit code (`NoCode`) shows as code 1.  Init
services have no label: their entries stay Pending too.  `bbuilder run` ends right after
`DockerRuntime::run`, and the two tasks with it; the model is of a runtime that lives on, as
in the library's use.

**Babel.**  The polling task asks for peers, sync state and (ethereum) the block
number one after the other; a request is answered (`ReadPeers`, `ReadSync`, `ReadBlock`), refused
(`RequestFails`), waits while the node is silent, or was lost meanwhile (`RequestLost`): then the
task is `hung` for as long as the process lives, since no client has a timeout.  Block numbers
run up to `MaxBlock`, the largest u64: where the latest block exceeds it, a
debug build panics and a release build wraps for beacon nodes, and the conversion of an ethereum
node's answer panics in both (`ReadPanics`).  The six gauges are set one by one (`SetGauge`, in
`GaugeOrder`) and then the cache.  The handlers are functions of
the cache, over REST (`ready_handler`, `healthy_handler`) and RPC (`rpc_status`).
`IsSyncing` keeps the inversion of the ethereum client.

**Fetcher.**  One run is `Start`, `SkipIfValid`, `Request`, `Create`, the polls of
`AsyncProgressReader`, `Write` (the copy loop and tokio's file, which lag behind the reader), `CopyEnds`,
`Verify`, the unpacking and `RemoveTemp`; `Fails`, which is any I/O error up to that of removing the
temporary file, and `Crash` may end it, and either may leave the entry that is being unpacked torn (`TearEntry`).
`CheckFails` is the error arm of the skip check: a destination that exists and cannot be opened or
read is downloaded again, over what is there; `unread` remembers the run that did so.  A body is a number of units of a version;
it may be framed (a break is an error), close-delimited (a break is an end) or padded
with empty chunks (which the copy loop takes for an end).  `ProgressFeed` is
a channel that keeps the last `Capacity` messages, and the tasks that
forward them; a process's end ends it.

**Manifests, Catalog, Composition.**  `Manifests` has the operators of the spec
crate (`Build`, `AddSpec`, `ResolveRef`), `Catalog` one operator for each node of the
catalog and each deployment.  Names are sequences of their dash-joined parts, paths
sequences of components; where a HashMap's order decides, an operator returns a
set of answers.  The ports of a spec are kept by position, with gaps: a declared port has the
position of the argument that declares it, those given to the builder come before, and the code
looks at nothing but the order.  `Composition` is the state machine: `ApplyCatalog`, `ConvertSpec` (one turn of the
inner loop, pods and specs in any order), `WriteCompose`, and docker-compose, which
starts a service when what it depends on has completed.  docker-compose sees only
`composeFile`, the texts that `ComposeFile` makes of the volumes, inline files and dependencies of the
services; volumes and inline files share one list, and a path is held by the deepest mount above it
(`Places`).  `StartsWith` is `str::starts_with` of the path's text, which goes on inside a name
(`Longer`).  A fetcher that exits with 0 has `delivered` its file; whether that file is whole is not for
`Composition` to say.  `Up` may be repeated: it runs
completed init services again and may replace services that run.  Host ports,
crashes and secrets are left to `Deployer`, what happens in a download to `Fetcher`.

## Runs

| run | instance | shows |
|---|---|---|
| `reserved_ports` | 2 tasks, 2 calls each, ports 0..3, the host binding 1 and 3, both builds | exclusive grants, first fit, refinement of PortPool, poison is final, calls return |
| `port_overflow` | the same, overflow checks only | *violated*: running off the range panics |
| `deployer_mixed` | up to 3 invocations, ports 1..4, five settings: noisy host, overlap with a checked build, deaths with foreign ports, deaths with unreadable files, three runs with deaths | distinct ports in a file and (quiet host, no overlap, both files readable) across files, config equals secret, stable keys, no planning on torn files, containers as planned or as before, termination |
| `busy_port_not_reserved` | 2 invocations, quiet host | *violated*: loading does not reserve the port of a running deployment |
| `torn_secret_inlined` | 2 invocations, deaths | *violated*: a truncated secret is inlined |
| `babel` | all node types, four node states over 0 or 1 peer and two block numbers, the last of which is the largest | type, gauges equal cache (or a mixture of two statuses while one is written), refinement of HealthView, settles on ready / not ready unless stuck |
| `babel_inverted_syncing` | ethereum | *violated*: the syncing gauge is the opposite of the answer |
| `babel_dead_node` | cosmos | *violated*: a dead node stays healthy |
| `babel_lost_request` | cosmos | *violated*: after a request was lost the node is never polled again |
| `composition` | the sample inputs of all modules, `up` run twice, downloads and services failing | see below |
| `watcher` | 2 deployments, one's name a prefix of the other's, 3 containers, 3 events, 2 registrations | see below |
| `fetcher` | 2 runs, bodies of 4 units, pipe of 2, channel of 2, one subscriber | see below |

The violated runs are disagreements between the code and what its comments, metric
descriptions or tests say; the findings in `PROJECT.json` quote both.

Why the bounds are enough.  *Ports:* with two tasks of two calls, four ports let
every call run off the end as well as succeed, and the reserved set meet the
probe.  *Deployer:* the shortest histories that matter are "run, crash, run
again" and "run A, run B, re-run A", hence three invocations in turn; two
deployments that prefer the same port, one of them with two specs that share a secret, cover clashes within
and across files; the ports either suffice for all or run out.
*Babel:* only `peers > 0` matters, a poll looks at two or three moments, and the sum of
a block number and the distance to the latest overflows at one of the two numbers and not at the other.
*Fetcher:* a chunk of four units read through a pipe of two is handed out over
several reads with the rest shrinking in between; a run is started on what one earlier
run left, and the second run may itself leave partial files; a channel of two messages makes a
subscriber lag within one download.  *Watcher:* a start, a death and one more event are enough for
a death to overtake a start and for an address to be out of date; a second registration replaces a
board or brings a rival; the theorems cover the rest.  *Composition:* the
catalog is finite and all of it is checked, in every order of conversion; a second `up` meets
whatever files and containers a failed first one left.  In `deployer_mixed`,
`watcher`, `fetcher` and `composition` the
system may stop for good once the bounded runs are used up, so deadlock is not
checked there.

What `fetcher` shows: bytes are neither lost nor doubled between stream, buffer,
copy loop and disk (`NothingLostOnTheWay`); with a checksum success means the whole good
version, in the file or unpacked (`CheckedSuccess`), and nothing else is ever unpacked
(`OnlyGoodUnpacked`); without one, success means one whole version except for close-delimited or padded
plain bodies (`UncheckedSuccess`);
subscribers are told of growing progress and can read everything once told
Finished; a skipping re-run never truncates a good file that it can read; every run ends.

What `composition` shows: every manifest converts in every order (`CatalogConverts`); each reference
leads to a service of the file that exposes the port (`RefsReachable`) and each babel watches the
spec that carries it; no service overwrites another although all names are joined with
dashes (`NothingOverwritten`), nor do the inline files in the folder they share, nor does a volume
hide one (`BindsHoldContent`); a service starts only when a fetcher has exited with 0 on each of its downloads,
at the path where the service mounts it, and none has begun again, also after
failed attempts (`StartsProvisioned`: exit 0 of a download without a checksum, and the catalog sets none, does not say that
the file is whole, which is `UncheckedSuccess`); and when no download fails, everything is started.

What `watcher` shows: although an inspection holds up the listener and the channel the
routing, events are applied in the order they happened, at most once each, on at most one board,
with an address the container had at the event or later (`BoardSpec`); when the listener and the
channel have nothing left, a service whose container bears its name shows the last event
delivered since its deployment was registered, if no other deployment's name is a prefix of the
container's (`CaughtUp`); and an event that was read is handled in the end, whoever is registered
and even if the stream ends (`EventsAreHandled`).

## Fairness

* `ReservedPorts`: a task that can take the mutex or continue its loop does so.  The
  number of calls is bounded, so nobody can be overtaken for ever.
* `Deployer`: the machine goes on running some process that can move.  Nobody has to start
  one; the host and docker owe nothing.  `docker-compose` and image pulls are taken to return.
* `Babel`: the polling task continues when its request was answered or refused, and a request that was
  not lost is answered or refused while the node is there.  A silent node gives no step and a lost
  request never one again, so the settling properties assume that the node stays up and except a task
  that hangs or panicked; `babel_lost_request` shows that the hanging does happen.
* `Composition`: bbuilder goes on, docker-compose starts what it may, a download ends.
  Nobody has to run `up`.
* `Watcher`: both tasks are scheduled again and again, and an inspection is answered, since the
  docker client ends a request with an error after a time limit.  Containers, registrations,
  stream errors and the end of the stream are not forced.
* `Fetcher`: the task continues and the server goes on sending.  The code has no
  timeout, so the second half is an assumption about the server; errors,
  crashes and subscribers are not forced.

## Proofs

`ReservedPorts_proofs` proves, for any number of ports, tasks and calls, any
ports of the host and either build, from the four assumptions on the constants:

* `TypeCorrect`: `TypeOK`, inductive by itself.
* `ExclusiveGrants`: `GrantedOnce`.  It is not inductive: that no port is granted
  twice needs that every granted port is in the set (`GrantsAreReserved`).
* `AnswersFirstFit`: `FirstFit`.  It needs that the cursor of a call never falls behind its
  preference, and that the holder of the mutex is the one probing task (`CallInv`).
* `Refinement`: `PoolSpec`, from the three invariants, one lemma for
  each kind of step: an iteration that goes on is a stutter, the last one is the
  atomic `Serve`, `Refuse` or `Die`.
* `NoGrantAfterPanic`: `PoisonIsFinal`, since no task probes while the mutex is poisoned.
* `ReleaseBuildNeverPanics`: without overflow checks nobody panics and the mutex
  is never poisoned.

`Babel_proofs` proves, for any set of supported node types, any positive number of
peers and any largest block number, from the assumption on the constants:

* `TypeCorrect`: `TypeOK`, inductive by itself.
* `MetricsAgree`: `MetricsMatchCache`, inductive together with the types and with `NoneWritten`: no
  gauge is set before the answers are complete.
* `Refinement`: `ViewSpec`.  `AnswersInv` says that each answer the task holds is
  that of a state the node was in since the tick; it gives the two witnesses with which
  `StoreStatus` is HealthView's `Publish`.  Requests and gauges are stutters.

`ComposeFile_proofs` proves, for any port numbers and words: a port survives the file
(`PortRoundTrip`), a text that is read as a port is written back as itself exactly when its numbers are spelled
plainly and means the same port in any case (`PortTextRoundTrip`), a dependency keeps its condition
(`DependsOnRoundTrip`), and a volume is read back as itself exactly when neither of its
paths holds a colon (`VolumeRoundTrip`).

`Watcher_proofs` proves, for any deployments (finitely many), services, containers and names, any
number of events and of runs, from the two assumptions on the constants:

* `TypeCorrect`: `TypeOK`; the types of the channel need that what is read, inspected and
  queued are events that happened (`QueueTyped`).
* `Refinement`: `BoardSpec`.  `InOrder` says that the numbers of the events handled, queued,
  inspected and read next increase in this order, `Honest` that a queued address is one the container had
  since; both, with the types, make `IInv`.  `HandleShows` is the one step that is not a stutter or the
  same step of StatusBoard: `OneReceives` says that the ranking singles out one deployment.
* `BoardsCatchUp`: `CaughtUp`, which speaks of quiet states only.  `OnItsWay` says that an event that
  was read is handled, lost, inspected or queued, `UpToDate` that a board shows the last delivered event that
  is through; when a message is handled everything between it and the one before was lost (`HandleCaught`).

`Deployer_proofs` proves, for any deployments, specs, shared secrets, ports, invocations and
settings, from the assumptions on the constants:

* `TypeCorrect`, `FilesHaveDistinctPorts`: `TypeOK` and `PlanPortsDistinct` hold however invocations
  overlap and die.  `BaseInv` says what a file may hold (nothing, a torn text, or the texts of a
  plan without repeated ports) and what an invocation has in memory at each stage; that texts are
  read as the plan they were made of is `FileText`.
* `KeysNeverRotate`, `ContainersHoldTheKey`, `PlansAreInformed`, `StartedAsPlanned`: `KeyStable`,
  `ConfigIsSecret`, `PlansOnKnownPorts` and `StartsWhatItPlanned`.  They hold of invocations
  that do not overlap, which is where `SerialInv` starts: at most one is active, a key it
  resolved is the one on disk, the files it has passed are not torn unless it overlooked them, and what
  docker-compose will read is what it wrote; if nobody dies, nothing is torn but what is being written.
* `DeploymentsStayApart`: `HostPortsDisjoint`.  It needs `QuietInv`: on a quiet host each port that
  a file names is, from when that file was read, in the pool *or in use*.  The second half
  stands for the ports that `load_reserved_ports` does not reserve since they are busy (the finding of
  `busy_port_not_reserved`); they stay busy while the host is quiet, so no plan takes them.  Of a file that was overlooked
  it says nothing, nor does the property.

`FilesAssumption` says that the markers of an absent and of a torn file are not contents of files.

`Fetcher_proofs` proves, for any versions, sizes of bodies, archives, pipes and channels, any number
of runs and subscribers, from the assumption on the constants:

* `TypeCorrect` and `NothingIsLost`: `TypeOK`, `NothingLostOnTheWay`.
* `CheckedRunsAreGood`, `UncheckedRunsAreWhole`, `UnpacksOnlyGood`, `GoodFilesAreKept`: `CheckedSuccess`,
  `UncheckedSuccess`, `OnlyGoodUnpacked`, `GoodFileIsKept`.  `DiskInv` says stage by stage where the
  units of the body are: before the file is created nothing was read; while copying each unit is in
  the stream, the buffer, the copy loop or the file; from the flush on the file holds what was read,
  which is all of it if the body is framed; while unpacking, the first entries are of that version.
* `SubscribersSeeGrowth`, `FinishedIsWritten`: `ProgressOnlyGrows`, `FinishedMeansWritten`.  `SentGrows` says
  that each message sent exceeds those before and none exceeds what was read, `GotSome` that a
  subscriber holds some of those before its position, in their order, so a lag only leaves gaps.

`Catalog_proofs` and `Composition_proofs` meet in one predicate.  `WellFormed(m)` says of a manifest
that its joined names are different, inline files of one name have one content, each file
to fetch has exactly one place and shares it with no other, in a volume of its spec, no mounted
file hides another or lies above a download, every reference names a spec and one of its ports, each spec that asks for babel has a sidecar that asks it
alone, and ports and volumes have their types.

* `CatalogIsWellFormed`: every manifest that the catalog makes is well-formed, for any chain, also one that
  the code does not know, and any consensus client.  One lemma for each node says what is
  added; `AddedIsSound` that adding a pod with a spec and its sidecar keeps the manifest
  `Sound`, a stricter form that can be built up pod by pod: each pod has one spec that is no
  sidecar, and the last part of a name tells a sidecar from it (`Tidy`).  That inline files agree is
  shown of each whole manifest.
* The invariant of Composition is `WellFormed` of the manifest with `ServicesInv` (what was converted has
  its services and files, and nothing else is there), `FileInv` (docker-compose reads the
  texts of those services) and `DockerInv` (a completed init service's downloads stay delivered until it
  runs again).  `StateInv` has the rest of the state and is inductive relative to it.
* `ServicesKeepTheirNames` (`NothingOverwritten`), `InlineFilesAreKept` (`BindsHoldContent`),
  `ReferencesLeadSomewhere` (`RefsReachable`) and `SidecarsWatchTheirCarriers`
  (`SidecarWatchesItsCarrier`) follow from `ServicesInv` and the condition each rests on.
* `ServicesStartProvisioned` (`StartsProvisioned`): `SamePlace` says that the volumes read back from the file lead a
  service and the fetch services of its spec to one place, `DownloadsApart` that no two
  init services write there, so that one that is run again cannot spoil what another completed.
* `WhatTheCatalogMakesConverts` (`CatalogConverts`): `TurnSucceeds` says that no turn on a well-formed
  manifest fails; what is left is the input with an unknown module.
* `TypeCorrect`: `TypeOK`.

The hypotheses on manifests are conditions the catalog was proved to meet; the only assumptions
on the inputs are that the consensus client is one of the two and that the chain is one the module has.

So every safety property of a passing run, action properties and refinements included, is
proved.  Only model-checked: every liveness property (`CallReturns`, `Terminates`, `SettlesReady`,
`SettlesNotReady`, `EventsAreHandled`, `RunsEnd`, `EverythingStarts`), since liveness under fairness and
ENABLED are beyond the prover.  The violated runs are counterexamples and need no proof.

## Not modelled

* Templates and key encoding: functions without state.  A generated key is a fresh value.
* Whether the data of a manifest is the right data.  Not all of it is: heimdall's genesis file is amoy's, for
  mainnet too (`catalog/polygon/lib.rs` 83), and `Deployment::apply` passes the default chain, whatever the
  input names (`spec/src/lib.rs` 24).  `Catalog` has both as they are; no property compares them.
* The checksum of an artifact, which `fetch_service` appends as a third positional argument that
  the fetcher's command line does not take: no manifest of the catalog sets one.
* Contents of services that no property distinguishes (images, arguments,
  labels, platforms), wording of logs, the HTTP framing of babel's endpoints, `manifest.json`,
  which is written and never read.
* docker, docker-compose, tokio's channel and copy loop, and the host appear as
  the code uses them and are marked external.
* A secret file that is there although `exists()` says no, as on an I/O error.
* Invocations that overlap are modelled, but nothing promises that they keep
  ports of different deployments apart or mint one key, and indeed they do not;
  `HostPortsDisjoint` and `KeyStable` say so in their premises.

## Plan

1. Port pool, bbuilder run, babel, fetcher with its feed, catalog and composition (done).
2. The watcher with its abstract specification, and the codecs of `compose.rs` between what
   writes the file and what reads it (done).
3. Theorems: every safety property of a passing run (done).
4. What the modules leave out and theorems could still say: that `WellFormed` suffices for any manifest,
   not only one of the catalog, stated of a Composition whose manifest is a parameter; and
   what `Deployer` promises when invocations overlap (`BaseInv` alone).
