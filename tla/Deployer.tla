------------------------------ MODULE Deployer ------------------------------
(***************************************************************************)
(* `bbuilder run`: each invocation is an operating-system process that     *)
(* resolves the secrets of one deployment, reserves the host ports named   *)
(* by the compose files already on disk, assigns a host port to each of    *)
(* its own specs, writes the configuration files and the compose file,     *)
(* pulls the images and starts docker-compose.  What survives it are the   *)
(* files under the config folder and the containers; the pool of reserved  *)
(* ports dies with the process.                                            *)
(*                                                                         *)
(* A file is written by truncating it and then filling it (fs::write), so  *)
(* a process that ends in between leaves it Torn.  An I/O error returned   *)
(* with `?` ends the process at the same places as a crash: Dies stands    *)
(* for both.  A call of reserve_port is one step here; which ports it can  *)
(* return is what ReservedPorts!FirstFit says of it.  The specs of a       *)
(* manifest are HashMap entries: they are handled in any order.            *)
(***************************************************************************)
EXTENDS Naturals, Sequences

CONSTANTS Deployments,     \* names of deployments
          MaxInvocations,  \* so many processes are ever started (a bound)
          Specs,           \* the specs of all manifests
          DeploymentOf,    \* [Specs -> Deployments]
          Preferred,       \* [Specs -> Ports]: the container port of the spec
          SecretOf,        \* [Specs -> Secrets \cup {NoSecret}]
          Secrets, NoSecret,
          MaxPort,         \* u16::MAX
          NoPort,          \* None
          Absent, Torn,    \* a file that does not exist, a truncated file
          Unread,          \* a secret this invocation has not resolved yet
          Unplanned,       \* a spec this invocation has not converted yet
          NoSpec,          \* no file is being written
          Commands,        \* the command lines to consider
          NoCommand,       \* the command line of a process not started yet
          Settings         \* the settings to consider, see below

Ports == 1 .. MaxPort
\* Processes are numbered in the order in which they are started.
Invocations == 1 .. MaxInvocations

ASSUME NamesAssumption ==
    /\ DeploymentOf \in [Specs -> Deployments]
    /\ SecretOf \in [Specs -> Secrets \cup {NoSecret}]
    /\ NoSecret \notin Secrets
    /\ \A s, t \in Specs : SecretOf[s] = SecretOf[t] /\ SecretOf[s] # NoSecret
                              => DeploymentOf[s] = DeploymentOf[t]
ASSUME DeployerPortsAssumption ==
    /\ MaxPort \in Nat
    /\ Preferred \in [Specs -> Ports]
    /\ NoPort \notin Ports
    /\ Unplanned \notin Ports \cup {NoPort}
ASSUME ContentsAssumption ==
    /\ {Absent, Torn, Unread} \cap (Invocations \X Specs) = {}
    /\ Absent # Torn /\ Unread # Torn /\ Unread # Absent
    /\ NoSpec \notin Specs
    /\ MaxInvocations \in Nat
\* A setting says what may happen around the invocations.
Setting == [overlap : BOOLEAN,   \* invocations may overlap
            noisy   : BOOLEAN,   \* the host changes also while one is active
            deaths  : BOOLEAN,   \* crashes and I/O errors happen
            unreadable : BOOLEAN, \* folders and files may fail to be read
            checked : BOOLEAN,   \* a debug build
            hostPorts : SUBSET Ports,  \* what other processes may bind
            runs    : Invocations]     \* how many processes are started
ASSUME CommandsAssumption ==
    /\ Commands \subseteq [deployment : Deployments, dry : BOOLEAN]
    /\ NoCommand \notin Commands
ASSUME SettingsAssumption == Settings \subseteq Setting

VARIABLES
    setting,      \* never changes
    pc,           \* where each invocation is
    command,      \* its command line: the deployment, and --dry-run or not
    current,      \* the spec whose file it is writing
    resolved,     \* the content of each secret as it saw or minted it
    unread,       \* the deployment folders it has still to read
    pending,      \* the ports of the last file read, still to be reserved
    overlooked,   \* those whose compose file it could not read (a history
                  \* variable: the process itself does not remember them)
    reserved,     \* its ReservedPorts
    plan,         \* the host port of each spec converted so far
    secretFile,   \* on disk: Absent, Torn, or the key it holds
    config,       \* on disk: the copy bind-mounted into the container
    composeFile,  \* on disk: Absent, Torn, or spec -> host port
    up,           \* the running containers of each deployment: spec -> port
    foreign       \* host ports bound by other processes

process == <<setting, pc, command, current, resolved, unread, pending, overlooked,
             reserved, plan>>
disk == <<secretFile, config, composeFile>>
host == <<up, foreign>>
vars == <<process, disk, host>>

SpecsOf(d) == {s \in Specs : DeploymentOf[s] = d}
\* A key is named by the one call of secret() that minted it.
Keys == Invocations \X Specs
Target(i) == command[i].deployment
Dry(i) == command[i].dry
MySpecs(i) == SpecsOf(Target(i))
HasSecret(s) == SecretOf[s] # NoSecret
PortsIn(f) == {f[s] : s \in DOMAIN f} \ {NoPort}

\* A compose file holds the port of each spec as a text.
Yaml == INSTANCE ComposeFile WITH PortNumbers <- Ports, Words <- {}
PortTexts(i) ==
    [s \in MySpecs(i) |-> Yaml!SerializePort([host |-> plan[i][s], container |-> Preferred[s]])]
ASSUME FilesAssumption ==
    \A d \in Deployments : {Absent, Torn} \cap [SpecsOf(d) -> Yaml!Text] = {}
Parses(f) ==
    /\ f \notin {Absent, Torn}
    /\ \A s \in DOMAIN f : Yaml!DeserializePort(f[s]) # Yaml!Invalid
FilePorts(f) == {Yaml!DeserializePort(f[s]).host : s \in DOMAIN f} \ {NoPort}

Ended == {"done", "failed", "panicked"}
Active(i) == pc[i] \notin {"idle"} \cup Ended
NoneActive == \A i \in Invocations : ~Active(i)

Nothing == [s \in {} |-> NoPort]

Init ==
    /\ setting \in Settings
    /\ pc = [i \in Invocations |-> "idle"]
    /\ command = [i \in Invocations |-> NoCommand]
    /\ current = [i \in Invocations |-> NoSpec]
    /\ resolved = [i \in Invocations |-> [s \in Specs |-> Unread]]
    /\ unread = [i \in Invocations |-> {}]
    /\ pending = [i \in Invocations |-> {}]
    /\ overlooked = [i \in Invocations |-> {}]
    /\ reserved = [i \in Invocations |-> {}]
    /\ plan = [i \in Invocations |-> [s \in Specs |-> Unplanned]]
    /\ secretFile = [k \in Secrets |-> Absent]
    /\ config = [k \in Secrets |-> Absent]
    /\ composeFile = [d \in Deployments |-> Absent]
    /\ up = [d \in Deployments |-> Nothing]
    /\ foreign = {}
-----------------------------------------------------------------------------
(* Secrets: generator::generate, one call of secret() per generated file.   *)
(* Between exists() and the write another process may write the same file.  *)

Start(i) ==
    /\ pc[i] = "idle"
    /\ i <= setting.runs
    /\ \A j \in 1 .. i - 1 : pc[j] # "idle"
    /\ ~setting.overlap => NoneActive
    /\ command' \in {[command EXCEPT ![i] = c] : c \in Commands}
    /\ pc' = [pc EXCEPT ![i] = "resolving"]
    /\ UNCHANGED <<setting, current, resolved, unread, pending, overlooked, reserved,
                   plan, disk, host>>

Unresolved(i) == {s \in MySpecs(i) : HasSecret(s) /\ resolved[i][s] = Unread}

\* The file exists: whatever it holds is the secret.
ReadSecret(i, s) ==
    /\ pc[i] = "resolving"
    /\ s \in Unresolved(i)
    /\ secretFile[SecretOf[s]] # Absent
    /\ resolved' = [resolved EXCEPT ![i][s] = secretFile[SecretOf[s]]]
    /\ UNCHANGED <<setting, pc, command, current, unread, pending, overlooked,
                   reserved, plan, disk, host>>

MintSecretAlways(i, s) ==
    /\ pc[i] = "resolving"
    /\ s \in Unresolved(i)
    /\ current' = [current EXCEPT ![i] = s]
    /\ pc' = [pc EXCEPT ![i] = "minting"]
    /\ UNCHANGED <<setting, command, resolved, unread, pending, overlooked, reserved,
                   plan, disk, host>>

\* The file does not exist: a key is generated in memory.
MintSecret(i, s) ==
    /\ pc[i] = "resolving"
    /\ s \in Unresolved(i)
    /\ secretFile[SecretOf[s]] = Absent
    /\ current' = [current EXCEPT ![i] = s]
    /\ pc' = [pc EXCEPT ![i] = "minting"]
    /\ UNCHANGED <<setting, command, resolved, unread, pending, overlooked, reserved,
                   plan, disk, host>>

\* fs::write opens with truncation, then writes.
TruncateSecret(i) ==
    /\ pc[i] = "minting"
    /\ secretFile' = [secretFile EXCEPT ![SecretOf[current[i]]] = Torn]
    /\ pc' = [pc EXCEPT ![i] = "writing_secret"]
    /\ UNCHANGED <<setting, command, current, resolved, unread, pending, overlooked,
                   reserved, plan, config, composeFile, host>>

WriteSecret(i) ==
    /\ pc[i] = "writing_secret"
    /\ secretFile' = [secretFile EXCEPT ![SecretOf[current[i]]] = <<i, current[i]>>]
    /\ resolved' = [resolved EXCEPT ![i][current[i]] = <<i, current[i]>>]
    /\ pc' = [pc EXCEPT ![i] = "resolving"]
    /\ UNCHANGED <<setting, command, current, unread, pending, overlooked, reserved,
                   plan, config, composeFile, host>>

-----------------------------------------------------------------------------
(* DockerRuntime::new: the ports of every compose file on disk are passed   *)
(* to reserve_port, whose answer is ignored.                                *)

OpenRuntimeOwnFolder(i) ==
    /\ pc[i] = "resolving"
    /\ Unresolved(i) = {}
    /\ unread' = [unread EXCEPT ![i] = {Target(i)}]
    /\ pc' = [pc EXCEPT ![i] = "loading"]
    /\ UNCHANGED <<setting, command, current, resolved, pending, overlooked,
                   reserved, plan, disk, host>>

OpenRuntimeEarly(i) ==
    /\ pc[i] = "resolving"
    /\ unread' = [unread EXCEPT ![i] = Deployments]
    /\ pc' = [pc EXCEPT ![i] = "loading"]
    /\ UNCHANGED <<setting, command, current, resolved, pending, overlooked,
                   reserved, plan, disk, host>>

OpenRuntime(i) ==
    /\ pc[i] = "resolving"
    /\ Unresolved(i) = {}
    /\ unread' = [unread EXCEPT ![i] = Deployments]
    /\ pc' = [pc EXCEPT ![i] = "loading"]
    /\ UNCHANGED <<setting, command, current, resolved, pending, overlooked,
                   reserved, plan, disk, host>>

\* An error of read_dir, of an entry, of exists() or of read_to_string is
\* swallowed: the file is there, and the run goes on as if it were not.  (When
\* the folder itself cannot be listed, all of them are overlooked.)
Overlook(i, d) ==
    /\ setting.unreadable
    /\ pc[i] = "loading"
    /\ pending[i] = {}
    /\ d \in unread[i]
    /\ composeFile[d] # Absent
    /\ unread' = [unread EXCEPT ![i] = @ \ {d}]
    /\ overlooked' = [overlooked EXCEPT ![i] = @ \cup {d}]
    /\ UNCHANGED <<setting, pc, command, current, resolved, pending, reserved, plan,
                   disk, host>>

\* A folder without a compose file is passed over.
SkipFolder(i, d) ==
    /\ pc[i] = "loading"
    /\ pending[i] = {}
    /\ d \in unread[i]
    /\ composeFile[d] = Absent
    /\ unread' = [unread EXCEPT ![i] = @ \ {d}]
    /\ UNCHANGED <<setting, pc, command, current, resolved, pending, overlooked,
                   reserved, plan, disk, host>>

LoadCompose(i, d) ==
    /\ pc[i] = "loading"
    /\ pending[i] = {}
    /\ d \in unread[i]
    /\ Parses(composeFile[d])
    /\ unread' = [unread EXCEPT ![i] = @ \ {d}]
    /\ pending' = [pending EXCEPT ![i] = FilePorts(composeFile[d])]
    /\ UNCHANGED <<setting, overlooked, pc, command, current, resolved, reserved,
                   plan, disk, host>>

LoadTornIgnored(i, d) ==
    /\ pc[i] = "loading"
    /\ pending[i] = {}
    /\ d \in unread[i]
    /\ composeFile[d] = Torn
    /\ unread' = [unread EXCEPT ![i] = @ \ {d}]
    /\ UNCHANGED <<setting, pc, command, current, resolved, pending, overlooked,
                   reserved, plan, disk, host>>

LoadTornRetries(i, d) ==
    /\ pc[i] = "loading"
    /\ pending[i] = {}
    /\ d \in unread[i]
    /\ composeFile[d] = Torn
    /\ UNCHANGED vars

\* A truncated file does not parse; DockerRuntime::new unwraps the error.
LoadTorn(i, d) ==
    /\ pc[i] = "loading"
    /\ pending[i] = {}
    /\ d \in unread[i]
    /\ composeFile[d] # Absent /\ ~Parses(composeFile[d])
    /\ pc' = [pc EXCEPT ![i] = "panicked"]
    /\ UNCHANGED <<setting, command, current, resolved, unread, pending, overlooked,
                   reserved, plan, disk, host>>

-----------------------------------------------------------------------------
(* The answers of reserve_port.  It probes the ports one after the other,   *)
(* so a port of the host that is free now may have been busy when probed.   *)

Busy == foreign \cup UNION {PortsIn(up[d]) : d \in Deployments}
MayBeBusy == Busy \cup IF setting.noisy THEN setting.hostPorts ELSE {}
Skippable(i, ps) == ps \subseteq reserved[i] \cup MayBeBusy

Usable(i, p) ==
    {q \in p .. MaxPort : q \notin reserved[i] \cup Busy /\ Skippable(i, p .. q - 1)}
RunsOut(i, p) == Skippable(i, p .. MaxPort)

ReservesNothing(i, p, q) ==
    \/ q \in Usable(i, p) /\ UNCHANGED reserved
    \/ q = NoPort /\ RunsOut(i, p) /\ ~setting.checked /\ UNCHANGED reserved

\* reserve_port(p) returns q.
ReservesPort(i, p, q) ==
    \/ /\ q \in Usable(i, p)
       /\ reserved' = [reserved EXCEPT ![i] = @ \cup {q}]
    \/ /\ q = NoPort
       /\ RunsOut(i, p)
       /\ ~setting.checked
       /\ UNCHANGED reserved

ReserveLoaded(i, p) ==
    /\ pc[i] = "loading"
    /\ p \in pending[i]
    /\ \E q \in Ports \cup {NoPort} : ReservesPort(i, p, q)
    /\ pending' = [pending EXCEPT ![i] = @ \ {p}]
    /\ UNCHANGED <<setting, pc, command, current, resolved, unread, overlooked, plan,
                   disk, host>>

\* The call that runs past the last port panics in a debug build.
ReservePanics(i) ==
    /\ setting.checked
    /\ \/ pc[i] = "loading" /\ \E p \in pending[i] : RunsOut(i, p)
       \/ pc[i] = "converting"
          /\ \E s \in MySpecs(i) : plan[i][s] = Unplanned /\ RunsOut(i, Preferred[s])
    /\ pc' = [pc EXCEPT ![i] = "panicked"]
    /\ UNCHANGED <<setting, command, current, resolved, unread, pending, overlooked,
                   reserved, plan, disk, host>>

Loaded(i) ==
    /\ pc[i] = "loading"
    /\ unread[i] = {}
    /\ pending[i] = {}
    /\ pc' = [pc EXCEPT ![i] = "converting"]
    /\ UNCHANGED <<setting, command, current, resolved, unread, pending, overlooked,
                   reserved, plan, disk, host>>
-----------------------------------------------------------------------------
(* convert_to_docker_compose_spec: a port for the spec, then its files.     *)

ConvertSpec(i, s, q) ==
    /\ pc[i] = "converting"
    /\ s \in MySpecs(i)
    /\ plan[i][s] = Unplanned
    /\ ReservesPort(i, Preferred[s], q)
    /\ plan' = [plan EXCEPT ![i][s] = q]
    /\ IF HasSecret(s)
         THEN /\ config' = [config EXCEPT ![SecretOf[s]] = Torn]
              /\ current' = [current EXCEPT ![i] = s]
              /\ pc' = [pc EXCEPT ![i] = "writing_config"]
         ELSE UNCHANGED <<config, current, pc>>
    /\ UNCHANGED <<setting, command, resolved, unread, pending, overlooked,
                   secretFile, composeFile, host>>

WriteConfig(i) ==
    /\ pc[i] = "writing_config"
    /\ config' = [config EXCEPT ![SecretOf[current[i]]] = resolved[i][current[i]]]
    /\ pc' = [pc EXCEPT ![i] = "converting"]
    /\ UNCHANGED <<setting, command, current, resolved, unread, pending, overlooked,
                   reserved, plan, secretFile, composeFile, host>>

-----------------------------------------------------------------------------
(* run: the compose file, the images, the containers.                       *)

Converted(i) == \A s \in MySpecs(i) : plan[i][s] # Unplanned

TruncateComposeIfNew(i) ==
    /\ pc[i] = "converting"
    /\ Converted(i)
    /\ IF composeFile[Target(i)] = Absent
         THEN /\ composeFile' = [composeFile EXCEPT ![Target(i)] = Torn]
              /\ pc' = [pc EXCEPT ![i] = "writing_compose"]
         ELSE /\ pc' = [pc EXCEPT ![i] = IF Dry(i) THEN "done" ELSE "pulling"]
              /\ UNCHANGED composeFile
    /\ UNCHANGED <<setting, command, current, resolved, unread, pending, overlooked,
                   reserved, plan, secretFile, config, host>>

TruncateCompose(i) ==
    /\ pc[i] = "converting"
    /\ Converted(i)
    /\ composeFile' = [composeFile EXCEPT ![Target(i)] = Torn]
    /\ pc' = [pc EXCEPT ![i] = "writing_compose"]
    /\ UNCHANGED <<setting, command, current, resolved, unread, pending, overlooked,
                   reserved, plan, secretFile, config, host>>

WriteCompose(i) ==
    /\ pc[i] = "writing_compose"
    /\ composeFile' = [composeFile EXCEPT ![Target(i)] = PortTexts(i)]
    /\ pc' = [pc EXCEPT ![i] = IF Dry(i) THEN "done" ELSE "pulling"]
    /\ UNCHANGED <<setting, command, current, resolved, unread, pending, overlooked,
                   reserved, plan, secretFile, config, host>>

PullImages(i) ==
    /\ pc[i] = "pulling"
    /\ pc' \in {[pc EXCEPT ![i] = next] : next \in {"starting", "failed"}}
    /\ UNCHANGED <<setting, command, current, resolved, unread, pending, overlooked,
                   reserved, plan, disk, host>>

\* docker-compose: "host:container", or "container" for any free host port.
HostPort(text) == IF Len(text) = 1 THEN NoPort ELSE Yaml!Number(Head(text))

\* The specs of file f whose host port is held neither outside of the deployment
\* nor by the containers of it that are kept.
Startable(d, f, kept) ==
    LET held == foreign \cup UNION {PortsIn(up[e]) : e \in Deployments \ {d}}
                        \cup PortsIn([s \in kept |-> up[d][s]])
    IN  {s \in DOMAIN f \ kept : HostPort(f[s]) \notin held}

\* docker-compose reads the file from disk and replaces the containers.  Its
\* exit status is not looked at: it may have failed at any point, so that some
\* containers go on running as they were and others are down.
ComposeUp(i) ==
    /\ pc[i] = "starting"
    /\ LET d == Target(i)
           f == composeFile[d]
       IN  IF f = Torn
             THEN UNCHANGED up
             ELSE \E kept \in SUBSET DOMAIN up[d] : \E started \in SUBSET Startable(d, f, kept) :
                    up' = [up EXCEPT ![d] = [s \in kept \cup started |->
                              IF s \in kept THEN up[d][s] ELSE HostPort(f[s])]]
    /\ pc' = [pc EXCEPT ![i] = "done"]
    /\ UNCHANGED <<setting, command, current, resolved, unread, pending, overlooked,
                   reserved, plan, disk, foreign>>

\* A crash, or an I/O error returned with `?`, between any two steps: what the
\* process had in memory is gone, its pool among it.  (The keys it resolved are
\* remembered, for KeyStable.)
Dies(i) ==
    /\ setting.deaths
    /\ Active(i)
    /\ pc' = [pc EXCEPT ![i] = "failed"]
    /\ current' = [current EXCEPT ![i] = NoSpec]
    /\ unread' = [unread EXCEPT ![i] = {}]
    /\ pending' = [pending EXCEPT ![i] = {}]
    /\ reserved' = [reserved EXCEPT ![i] = {}]
    /\ plan' = [plan EXCEPT ![i] = [s \in Specs |-> Unplanned]]
    /\ UNCHANGED <<setting, overlooked, command, resolved, disk, host>>

-----------------------------------------------------------------------------
(* The host: docker-compose down, and the ports of other processes.         *)

HostMayChange == setting.noisy \/ NoneActive

Stop(d) ==
    /\ HostMayChange
    /\ up[d] # Nothing
    /\ up' = [up EXCEPT ![d] = Nothing]
    /\ UNCHANGED <<process, disk, foreign>>

HostBinds(p) ==
    /\ HostMayChange
    /\ p \notin Busy
    /\ foreign' = foreign \cup {p}
    /\ UNCHANGED <<process, disk, up>>

HostReleases(p) ==
    /\ HostMayChange
    /\ p \in foreign
    /\ foreign' = foreign \ {p}
    /\ UNCHANGED <<process, disk, up>>

-----------------------------------------------------------------------------

Resolve(i) ==
    \/ \E s \in Specs : ReadSecret(i, s) \/ MintSecret(i, s)
    \/ TruncateSecret(i)
    \/ WriteSecret(i)
    \/ OpenRuntime(i)

Load(i) ==
    \/ \E d \in Deployments :
         SkipFolder(i, d) \/ Overlook(i, d) \/ LoadCompose(i, d) \/ LoadTorn(i, d)
    \/ \E p \in Ports : ReserveLoaded(i, p)
    \/ Loaded(i)

Convert(i) ==
    \/ \E s \in Specs, q \in Ports \cup {NoPort} : ConvertSpec(i, s, q)
    \/ WriteConfig(i)

Deploy(i) ==
    \/ TruncateCompose(i)
    \/ WriteCompose(i)
    \/ PullImages(i)
    \/ ComposeUp(i)

\* What the process does next by itself, once started.
Proceed(i) == Resolve(i) \/ Load(i) \/ ReservePanics(i) \/ Convert(i) \/ Deploy(i)

Next ==
    \/ \E i \in Invocations : Start(i) \/ Proceed(i) \/ Dies(i)
    \/ \E d \in Deployments : Stop(d)
    \/ \E p \in setting.hostPorts : HostBinds(p) \/ HostReleases(p)

\* The machine runs some process that can take its next step; which one it
\* prefers does not matter, since none has steps for ever.  Nobody has to
\* start an invocation, and the host owes nothing.
Fairness == WF_vars(\E i \in Invocations : Proceed(i))

Spec == Init /\ [][Next]_vars
FairSpec == Spec /\ Fairness

-----------------------------------------------------------------------------
(* Properties.                                                             *)

Contents == Keys \cup {Absent, Torn}

\* The variables stay in their types.
TypeOK ==
    /\ setting \in Setting
    /\ pc \in [Invocations ->
                 {"idle", "resolving", "minting", "writing_secret", "loading",
                  "converting", "writing_config", "writing_compose", "pulling",
                  "starting"} \cup Ended]
    /\ command \in [Invocations -> Commands \cup {NoCommand}]
    /\ current \in [Invocations -> Specs \cup {NoSpec}]
    /\ resolved \in [Invocations -> [Specs -> Keys \cup {Torn, Unread}]]
    /\ unread \in [Invocations -> SUBSET Deployments]
    /\ pending \in [Invocations -> SUBSET Ports]
    /\ overlooked \in [Invocations -> SUBSET Deployments]
    /\ reserved \in [Invocations -> SUBSET Ports]
    /\ plan \in [Invocations -> [Specs -> Ports \cup {NoPort, Unplanned}]]
    /\ secretFile \in [Secrets -> Contents]
    /\ config \in [Secrets -> Contents]
    /\ \A d \in Deployments :
        composeFile[d] \in {Absent, Torn} \/
        /\ DOMAIN composeFile[d] = SpecsOf(d)
        /\ \A s \in SpecsOf(d) : Yaml!DeserializePort(composeFile[d][s]) \in Yaml!Port
    /\ \A d \in Deployments :
        DOMAIN up[d] \subseteq SpecsOf(d) /\ \A s \in DOMAIN up[d] : up[d][s] \in Ports \cup {NoPort}
    /\ foreign \subseteq setting.hostPorts

Readable(d) == Parses(composeFile[d])
Planned(d, s) == Yaml!DeserializePort(composeFile[d][s]).host

\* No compose file ever maps one host port to two services, also when several
\* invocations write the same file and the host takes and releases ports.
PlanPortsDistinct ==
    \A d \in Deployments : Readable(d) =>
        \A s, t \in SpecsOf(d) :
            s # t /\ Planned(d, s) # NoPort => Planned(d, s) # Planned(d, t)

\* An invocation for d could not read the compose file of e.
Overlooks(d, e) == \E i \in Invocations : e \in overlooked[i] /\ Target(i) = d

\* Two deployments never claim the same host port in their compose files,
\* running or not, as long as the host is quiet while an invocation runs and
\* none for one of them failed to read the file of the other, which
\* load_reserved_ports passes over silently: otherwise it makes up for the pool
\* that died with the process.
HostPortsDisjoint ==
    ~setting.overlap /\ ~setting.noisy => \A d, e \in Deployments :
        /\ d # e /\ Readable(d) /\ Readable(e)
        /\ ~Overlooks(d, e) /\ ~Overlooks(e, d)
        => FilePorts(composeFile[d]) \cap FilePorts(composeFile[e]) = {}

\* No ports are handed out while a file of another deployment is truncated and
\* its ports unknown: an invocation that reads one stops before it converts.
\* Only one that could not read it at all goes on.
PlansOnKnownPorts ==
    ~setting.overlap => \A i \in Invocations :
        pc[i] \in {"converting", "writing_config", "writing_compose"} =>
            \A d \in Deployments \ {Target(i)} : composeFile[d] = Torn => d \in overlooked[i]

\* All invocations that resolve a secret of a deployment resolve it to the
\* same key, whatever crashed in between: re-running never rotates a key.
KeyStable ==
    ~setting.overlap => \A i, j \in Invocations : \A s, t \in Specs :
        /\ HasSecret(s) /\ SecretOf[s] = SecretOf[t]
        /\ resolved[i][s] \in Keys /\ resolved[j][t] \in Keys
        => resolved[i][s] = resolved[j][t]

\* Between invocations the file mounted into the containers holds the key on
\* disk, although specs of one deployment may share the file.
ConfigIsSecret ==
    ~setting.overlap /\ ~setting.deaths /\ NoneActive => \A k \in Secrets : config[k] \in {Absent, secretFile[k]}

\* What an invocation starts is what it planned: after its docker-compose, which
\* may have failed, a container of the deployment uses the port the invocation
\* reserved for it, or is one that was running and goes on as it was.
StartsWhatItPlanned ==
    [][~setting.overlap => \A i \in Invocations :
        pc[i] = "starting" /\ pc'[i] = "done" =>
            LET d == Target(i)
            IN  \A s \in DOMAIN up'[d] :
                    \/ up'[d][s] = plan[i][s]
                    \/ s \in DOMAIN up[d] /\ up'[d][s] = up[d][s]]_vars

\* Every invocation comes to an end, whatever is on disk.  (There are finitely many.)
Terminates == ~NoneActive ~> NoneActive

\* runtime.rs:61: "Read existing docker-compose.yaml files and reserve their
\* ports"; the test at 608 verifies "that ports from the fixture files are
\* reserved".  After loading, the ports of every file that parses are.
ExistingPortsReserved ==
    \A i \in Invocations : pc[i] = "converting" =>
        \A d \in Deployments : Readable(d) => FilePorts(composeFile[d]) \subseteq reserved[i]

\* main.rs:76: "Mint secrets and inline them, so runtimes only ever see content
\* or a URL": a resolved secret is a key, not a file somebody left truncated.
InlinesContent == \A i \in Invocations : \A s \in Specs : resolved[i][s] # Torn
=============================================================================
