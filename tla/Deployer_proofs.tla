-------------------------- MODULE Deployer_proofs --------------------------
(***************************************************************************)
(* For any deployments, specs and secrets, any number of ports and of      *)
(* invocations, in any setting: what the files of earlier runs are worth.  *)
(***************************************************************************)
EXTENDS Deployer, TLAPS

-----------------------------------------------------------------------------
(* The inductive invariant.                                                *)

\* What a compose file says: a host port or none for each spec, none of them twice.
Plans(d) ==
    {f \in [SpecsOf(d) -> Ports \cup {NoPort}] :
        \A s, t \in SpecsOf(d) : s # t /\ f[s] # NoPort => f[s] # f[t]}
Texts(d, f) ==
    [s \in SpecsOf(d) |-> Yaml!SerializePort([host |-> f[s], container |-> Preferred[s]])]

FilesHoldPlans ==
    /\ composeFile = [d \in Deployments |-> composeFile[d]]
    /\ \A d \in Deployments :
         composeFile[d] \in {Absent, Torn} \cup {Texts(d, f) : f \in Plans(d)}

\* What an invocation has in memory, by its stage.
MemoryInv(i) ==
    /\ pc[i] # "idle" => command[i] \in Commands
    /\ pc[i] = "idle" => overlooked[i] = {}
    /\ pc[i] \in {"minting", "writing_secret", "writing_config"} =>
         current[i] \in MySpecs(i) /\ HasSecret(current[i])
    /\ pc[i] \in {"loading", "converting", "writing_config"} => Unresolved(i) = {}
    /\ pc[i] \in {"writing_compose", "pulling", "starting"} =>
         Converted(i) /\ composeFile[Target(i)] # Absent
    /\ pc[i] \in {"idle", "resolving", "minting", "writing_secret", "loading"} =>
         \A s \in Specs : plan[i][s] = Unplanned
    /\ \A s \in Specs : plan[i][s] \in Ports =>
         plan[i][s] \in reserved[i] /\ \A t \in Specs \ {s} : plan[i][t] # plan[i][s]

BaseInv ==
    /\ TypeOK
    /\ up = [d \in Deployments |-> up[d]]
    /\ FilesHoldPlans
    /\ \A i \in Invocations : MemoryInv(i)

\* Invocations that do not overlap.
Alone == \A i, j \in Invocations : Active(i) /\ Active(j) => i = j

\* A resolved key is the one on disk; the file is empty while one is minted.
KeysOnDisk ==
    /\ \A i \in Invocations :
         /\ pc[i] = "minting" => secretFile[SecretOf[current[i]]] = Absent
         /\ pc[i] = "writing_secret" => secretFile[SecretOf[current[i]]] = Torn
    /\ \A i \in Invocations : \A s \in Specs :
         HasSecret(s) /\ resolved[i][s] \in Keys => secretFile[SecretOf[s]] = resolved[i][s]

\* Nobody dies: what is torn is being written, what is mounted is on disk.
NothingTorn ==
    /\ \A k \in Secrets : secretFile[k] = Torn =>
         \E i \in Invocations : pc[i] = "writing_secret" /\ SecretOf[current[i]] = k
    /\ \A i \in Invocations : \A s \in Specs : HasSecret(s) => resolved[i][s] # Torn
    /\ \A k \in Secrets :
         \/ config[k] = Absent
         \/ config[k] = secretFile[k] /\ secretFile[k] \in Keys
         \/ \E i \in Invocations : pc[i] = "writing_config" /\ SecretOf[current[i]] = k

\* The files an invocation has read so far are not torn.
FilesKnown ==
    \A i \in Invocations : \A d \in Deployments \ overlooked[i] :
        /\ pc[i] = "loading" => d \in unread[i] \/ composeFile[d] # Torn
        /\ pc[i] \in {"converting", "writing_config"} => composeFile[d] # Torn
        /\ pc[i] = "writing_compose" /\ d # Target(i) => composeFile[d] # Torn

\* docker-compose will read what this invocation wrote.
OwnFile ==
    \A i \in Invocations :
        pc[i] \in {"pulling", "starting"} => composeFile[Target(i)] = PortTexts(i)

SerialInv ==
    ~setting.overlap =>
      /\ Alone /\ KeysOnDisk /\ FilesKnown /\ OwnFile
      /\ ~setting.deaths => NothingTorn

\* On a quiet host a port that a file names is in the pool or in use from when
\* it was loaded, and no planned port is named by the file of another deployment,
\* unless the file could not be read.
LoadedPorts(i) ==
    \A d \in Deployments \ overlooked[i] : Readable(d) =>
        /\ pc[i] = "loading" =>
             d \in unread[i] \/ FilePorts(composeFile[d]) \subseteq reserved[i] \cup pending[i] \cup Busy
        /\ pc[i] \in {"converting", "writing_config"} =>
             FilePorts(composeFile[d]) \subseteq reserved[i] \cup Busy
        /\ pc[i] \in {"converting", "writing_config", "writing_compose"} /\ d # Target(i) =>
             \A s \in Specs : plan[i][s] \notin FilePorts(composeFile[d])

FilesApart ==
    \A d, e \in Deployments :
        /\ d # e /\ Readable(d) /\ Readable(e)
        /\ ~Overlooks(d, e) /\ ~Overlooks(e, d)
        => FilePorts(composeFile[d]) \cap FilePorts(composeFile[e]) = {}

QuietInv ==
    ~setting.overlap /\ ~setting.noisy =>
      /\ FilesApart
      /\ \A i \in Invocations : LoadedPorts(i)

IInv == BaseInv /\ SerialInv /\ QuietInv

-----------------------------------------------------------------------------
(* Files and texts.                                                        *)

\* A spec's key is told from the markers of files and of unresolved secrets.
LEMMA Markers ==
  /\ Absent \notin Keys /\ Torn \notin Keys /\ Unread \notin Keys
  /\ Absent # Torn /\ Unread # Torn /\ Unread # Absent
  /\ NoPort \notin Ports /\ Unplanned \notin Ports /\ Unplanned # NoPort
  BY ContentsAssumption, DeployerPortsAssumption DEF Keys

\* The port of a service survives its text, for docker-compose and for the next run.
LEMMA PortText ==
  ASSUME NEW p \in Ports \cup {NoPort}, NEW c \in Ports
  PROVE  LET text == Yaml!SerializePort([host |-> p, container |-> c])
         IN  /\ text \in Yaml!Text
             /\ Yaml!DeserializePort(text) = [host |-> p, container |-> c]
             /\ HostPort(text) = p
  <1> DEFINE W(n) == Yaml!Written(n)
  <1>0. \A n \in Ports : /\ W(n) \in Yaml!PortPieces /\ W(n) \in Yaml!Pieces
                        /\ Yaml!Number(W(n)) = n
    BY DEF Yaml!Written, Yaml!Number, Yaml!Pieces, Yaml!PortPieces, Yaml!Spellings
  <1> HIDE DEF W
  <1>1. CASE p = NoPort
    <2>1. Yaml!SerializePort([host |-> p, container |-> c]) = <<W(c)>>
      BY <1>1 DEF Yaml!SerializePort, W
    <2>2. <<W(c)>> \in Yaml!Text
      BY <1>0 DEF Yaml!Text
    <2>3. Yaml!DeserializePort(<<W(c)>>) = [host |-> p, container |-> c]
      BY <1>0, <1>1 DEF Yaml!DeserializePort
    <2> QED  BY <1>1, <2>1, <2>2, <2>3 DEF HostPort
  <1>2. CASE p \in Ports
    <2>1. Yaml!SerializePort([host |-> p, container |-> c]) = <<W(p), W(c)>>
      BY <1>2, Markers DEF Yaml!SerializePort, W
    <2>2. <<W(p), W(c)>> \in Yaml!Text
      BY <1>0, <1>2 DEF Yaml!Text
    <2>3. Yaml!DeserializePort(<<W(p), W(c)>>) = [host |-> p, container |-> c]
      BY <1>0, <1>2 DEF Yaml!DeserializePort
    <2>4. HostPort(<<W(p), W(c)>>) = p
      BY <1>0, <1>2 DEF HostPort
    <2> QED  BY <2>1, <2>2, <2>3, <2>4
  <1> QED  BY <1>1, <1>2

\* What load_reserved_ports and docker-compose see of a file is the plan behind it.
LEMMA FileText ==
  ASSUME NEW d \in Deployments, NEW f \in Plans(d)
  PROVE  /\ Texts(d, f) \in [SpecsOf(d) -> Yaml!Text]
         /\ Texts(d, f) \notin {Absent, Torn}
         /\ \A s \in SpecsOf(d) :
              /\ Yaml!DeserializePort(Texts(d, f)[s]) = [host |-> f[s], container |-> Preferred[s]]
              /\ HostPort(Texts(d, f)[s]) = f[s]
         /\ Parses(Texts(d, f))
         /\ FilePorts(Texts(d, f)) = {f[s] : s \in SpecsOf(d)} \ {NoPort}
  <1>1. \A s \in SpecsOf(d) : s \in Specs /\ Preferred[s] \in Ports /\ f[s] \in Ports \cup {NoPort}
    BY DeployerPortsAssumption DEF SpecsOf, Plans
  <1>2. \A s \in SpecsOf(d) :
          /\ Texts(d, f)[s] \in Yaml!Text
          /\ Yaml!DeserializePort(Texts(d, f)[s]) = [host |-> f[s], container |-> Preferred[s]]
          /\ HostPort(Texts(d, f)[s]) = f[s]
    BY <1>1, PortText DEF Texts
  <1>3. Texts(d, f) \in [SpecsOf(d) -> Yaml!Text]
    BY <1>2 DEF Texts
  <1>4. Texts(d, f) \notin {Absent, Torn}
    BY <1>3, FilesAssumption
  <1>5. \A s \in SpecsOf(d) : Yaml!DeserializePort(Texts(d, f)[s]) # Yaml!Invalid
    <2>1. \A p, c : [host |-> p, container |-> c] # Yaml!Invalid
      BY DEF Yaml!Invalid
    <2> QED  BY <1>2, <2>1
  <1>6. DOMAIN Texts(d, f) = SpecsOf(d)
    BY DEF Texts
  <1>7. FilePorts(Texts(d, f)) = {f[s] : s \in SpecsOf(d)} \ {NoPort}
    <2>1. ASSUME NEW s \in SpecsOf(d) PROVE Yaml!DeserializePort(Texts(d, f)[s]).host = f[s]
      <3>1. Yaml!DeserializePort(Texts(d, f)[s]) = [host |-> f[s], container |-> Preferred[s]]
        BY <1>2
      <3> QED  BY <3>1
    <2> QED  BY <1>6, <2>1 DEF FilePorts
  <1> QED  BY <1>2, <1>3, <1>4, <1>5, <1>6, <1>7 DEF Parses

\* A file that parses holds a plan, and there is no third kind of file.
LEMMA FileKinds ==
  ASSUME FilesHoldPlans, NEW d \in Deployments
  PROVE  /\ composeFile[d] \in {Absent, Torn} <=> ~Readable(d)
         /\ Readable(d) => \E f \in Plans(d) : composeFile[d] = Texts(d, f)
  <1>1. CASE composeFile[d] \in {Absent, Torn}
    BY <1>1 DEF Readable, Parses
  <1>2. ASSUME NEW f \in Plans(d), composeFile[d] = Texts(d, f) PROVE Readable(d) /\ composeFile[d] \notin {Absent, Torn}
    BY <1>2, FileText DEF Readable
  <1> QED  BY <1>1, <1>2 DEF FilesHoldPlans

\* What is written of a plan is well typed.
LEMMA TextTyped ==
  ASSUME NEW d \in Deployments, NEW f \in Plans(d)
  PROVE  /\ DOMAIN Texts(d, f) = SpecsOf(d)
         /\ \A s \in SpecsOf(d) : Yaml!DeserializePort(Texts(d, f)[s]) \in Yaml!Port
         /\ FilePorts(Texts(d, f)) \subseteq Ports
  <1>1. \A s \in SpecsOf(d) : s \in Specs /\ Preferred[s] \in Ports /\ f[s] \in Ports \cup {NoPort}
    BY DeployerPortsAssumption DEF SpecsOf, Plans
  <1>2. \A s \in SpecsOf(d) : [host |-> f[s], container |-> Preferred[s]] \in Yaml!Port
    BY <1>1 DEF Yaml!Port
  <1>3. DOMAIN Texts(d, f) = SpecsOf(d)
    BY DEF Texts
  <1>4. \A s \in SpecsOf(d) : Yaml!DeserializePort(Texts(d, f)[s]) \in Yaml!Port
    BY <1>2, FileText
  <1>5. FilePorts(Texts(d, f)) \subseteq Ports
    <2>1. FilePorts(Texts(d, f)) = {f[s] : s \in SpecsOf(d)} \ {NoPort}
      BY FileText
    <2> QED  BY <1>1, <2>1
  <1> QED  BY <1>3, <1>4, <1>5

\* So the type invariant has nothing more to say of files.
LEMMA FilesTyped ==
  ASSUME FilesHoldPlans, NEW d \in Deployments
  PROVE  \/ composeFile[d] \in {Absent, Torn}
         \/ /\ DOMAIN composeFile[d] = SpecsOf(d)
            /\ \A s \in SpecsOf(d) : Yaml!DeserializePort(composeFile[d][s]) \in Yaml!Port
            /\ FilePorts(composeFile[d]) \subseteq Ports
  BY TextTyped DEF FilesHoldPlans

-----------------------------------------------------------------------------
(* Types, plans and memory, in every setting.                              *)

\* An invocation that was started has a deployment.
LEMMA Targets ==
  ASSUME BaseInv, NEW i \in Invocations, pc[i] # "idle"
  PROVE  Target(i) \in Deployments /\ MySpecs(i) \subseteq Specs
  BY CommandsAssumption DEF BaseInv, MemoryInv, Target, MySpecs, SpecsOf

\* What reserve_port returns is new to the pool and free on the host.
LEMMA PortReserved ==
  ASSUME TypeOK, NEW i \in Invocations, NEW p \in Ports, NEW q, ReservesPort(i, p, q)
  PROVE  /\ q \in Ports \cup {NoPort}
         /\ reserved' \in [Invocations -> SUBSET Ports]
         /\ \A k \in Invocations : reserved[k] \subseteq reserved'[k]
         /\ \A k \in Invocations \ {i} : reserved'[k] = reserved[k]
         /\ q \in Ports => q \in reserved'[i] /\ q \notin reserved[i] \cup Busy
  <1>1. CASE q \in Usable(i, p) /\ reserved' = [reserved EXCEPT ![i] = @ \cup {q}]
    <2>1. q \in Ports /\ q \notin reserved[i] \cup Busy
      BY <1>1, DeployerPortsAssumption DEF Usable, Ports
    <2> QED  BY <1>1, <2>1 DEF TypeOK
  <1>2. CASE q = NoPort /\ UNCHANGED reserved
    BY <1>2, Markers DEF TypeOK
  <1> QED  BY <1>1, <1>2 DEF ReservesPort

LEMMA StartBase == ASSUME BaseInv, NEW i \in Invocations, Start(i) PROVE BaseInv'
  <1> USE DEF BaseInv
  <1>1. PICK c \in Commands : command' = [command EXCEPT ![i] = c]
    BY DEF Start
  <1>2. TypeOK'
    BY <1>1 DEF Start, TypeOK, disk, host
  <1>3. FilesHoldPlans' /\ up' = [e \in Deployments |-> up'[e]]
    BY DEF Start, FilesHoldPlans, disk, host
  <1>4. ASSUME NEW j \in Invocations PROVE MemoryInv(j)'
    BY <1>1 DEF Start, TypeOK, disk, MemoryInv, MySpecs, Target, Converted, Unresolved
  <1> QED  BY <1>2, <1>3, <1>4

LEMMA ReadSecretBase ==
  ASSUME BaseInv, NEW i \in Invocations, NEW s \in Specs, ReadSecret(i, s) PROVE BaseInv'
  <1> USE DEF BaseInv
  <1>2. TypeOK'
    BY NamesAssumption, Markers DEF ReadSecret, Unresolved, HasSecret, TypeOK, Contents, disk, host
  <1>3. FilesHoldPlans' /\ up' = [e \in Deployments |-> up'[e]]
    BY DEF ReadSecret, FilesHoldPlans, disk, host
  <1>4. ASSUME NEW j \in Invocations PROVE MemoryInv(j)'
    BY DEF ReadSecret, TypeOK, disk, MemoryInv, MySpecs, Target, Converted, Unresolved
  <1> QED  BY <1>2, <1>3, <1>4

LEMMA MintSecretBase ==
  ASSUME BaseInv, NEW i \in Invocations, NEW s \in Specs, MintSecret(i, s)
  PROVE  BaseInv'
  <1> USE DEF BaseInv
  <1>1. TypeOK'
    BY DEF MintSecret, TypeOK, disk, host
  <1>2. FilesHoldPlans' /\ up' = [e \in Deployments |-> up'[e]]
    BY DEF MintSecret, FilesHoldPlans, disk, host
  <1>3. ASSUME NEW j \in Invocations PROVE MemoryInv(j)'
    BY DEF MintSecret, TypeOK, disk, MemoryInv, MySpecs, Target, Converted, Unresolved
  <1> QED  BY <1>1, <1>2, <1>3

LEMMA TruncateSecretBase ==
  ASSUME BaseInv, NEW i \in Invocations, TruncateSecret(i)
  PROVE  BaseInv'
  <1> USE DEF BaseInv
  <1>1. TypeOK'
    BY DEF TruncateSecret, TypeOK, disk, host, Contents
  <1>2. FilesHoldPlans' /\ up' = [e \in Deployments |-> up'[e]]
    BY DEF TruncateSecret, FilesHoldPlans, disk, host
  <1>3. ASSUME NEW j \in Invocations PROVE MemoryInv(j)'
    BY DEF TruncateSecret, TypeOK, disk, MemoryInv, MySpecs, Target, Converted, Unresolved
  <1> QED  BY <1>1, <1>2, <1>3

LEMMA WriteSecretBase ==
  ASSUME BaseInv, NEW i \in Invocations, WriteSecret(i)
  PROVE  BaseInv'
  <1> USE DEF BaseInv
  <1>1. current[i] \in Specs /\ <<i, current[i]>> \in Keys
    BY DEF WriteSecret, MemoryInv, MySpecs, SpecsOf, Keys
  <1>2. TypeOK'
    BY <1>1 DEF WriteSecret, TypeOK, disk, host, Contents
  <1>3. FilesHoldPlans' /\ up' = [e \in Deployments |-> up'[e]]
    BY DEF WriteSecret, FilesHoldPlans, disk, host
  <1>4. ASSUME NEW j \in Invocations PROVE MemoryInv(j)'
    BY <1>1, Markers DEF WriteSecret, TypeOK, disk, MemoryInv, MySpecs, Target, Converted, Unresolved
  <1> QED  BY <1>2, <1>3, <1>4

LEMMA OpenRuntimeBase ==
  ASSUME BaseInv, NEW i \in Invocations, OpenRuntime(i)
  PROVE  BaseInv'
  <1> USE DEF BaseInv
  <1>1. TypeOK'
    BY DEF OpenRuntime, TypeOK, disk, host
  <1>2. FilesHoldPlans' /\ up' = [e \in Deployments |-> up'[e]]
    BY DEF OpenRuntime, FilesHoldPlans, disk, host
  <1>3. ASSUME NEW j \in Invocations PROVE MemoryInv(j)'
    BY DEF OpenRuntime, TypeOK, disk, MemoryInv, MySpecs, Target, Converted, Unresolved
  <1> QED  BY <1>1, <1>2, <1>3

LEMMA FolderBase ==
  ASSUME BaseInv, NEW i \in Invocations, NEW d \in Deployments,
         SkipFolder(i, d) \/ Overlook(i, d) \/ LoadTorn(i, d)
  PROVE  BaseInv'
  <1> USE DEF BaseInv
  <1>1. TypeOK'
    <2>1. CASE SkipFolder(i, d)
      BY <2>1 DEF SkipFolder, TypeOK, disk, host
    <2>2. CASE Overlook(i, d)
      BY <2>2 DEF Overlook, TypeOK, disk, host
    <2>3. CASE LoadTorn(i, d)
      BY <2>3 DEF LoadTorn, TypeOK, disk, host, Ended
    <2> QED  BY <2>1, <2>2, <2>3
  <1>2. FilesHoldPlans' /\ up' = [e \in Deployments |-> up'[e]]
    BY DEF SkipFolder, Overlook, LoadTorn, FilesHoldPlans, disk, host
  <1>3. ASSUME NEW j \in Invocations PROVE MemoryInv(j)'
    BY DEF SkipFolder, Overlook, LoadTorn, TypeOK, disk, MemoryInv, MySpecs, Target, Converted, Unresolved
  <1> QED  BY <1>1, <1>2, <1>3

LEMMA LoadComposeBase ==
  ASSUME BaseInv, NEW i \in Invocations, NEW d \in Deployments, LoadCompose(i, d)
  PROVE  BaseInv'
  <1> USE DEF BaseInv
  <1>1. FilePorts(composeFile[d]) \subseteq Ports
    BY FilesTyped DEF LoadCompose, Parses
  <1>2. TypeOK'
    BY <1>1 DEF LoadCompose, TypeOK, disk, host
  <1>3. FilesHoldPlans' /\ up' = [e \in Deployments |-> up'[e]]
    BY DEF LoadCompose, FilesHoldPlans, disk, host
  <1>4. ASSUME NEW j \in Invocations PROVE MemoryInv(j)'
    BY DEF LoadCompose, TypeOK, disk, MemoryInv, MySpecs, Target, Converted, Unresolved
  <1> QED  BY <1>2, <1>3, <1>4

LEMMA LoadedBase ==
  ASSUME BaseInv, NEW i \in Invocations, Loaded(i) \/ PullImages(i) \/ ReservePanics(i)
  PROVE  BaseInv'
  <1> USE DEF BaseInv
  <1>1. TypeOK'
    BY DEF Loaded, PullImages, ReservePanics, TypeOK, disk, host, Ended
  <1>2. FilesHoldPlans' /\ up' = [e \in Deployments |-> up'[e]]
    BY DEF Loaded, PullImages, ReservePanics, FilesHoldPlans, disk, host
  <1>3. ASSUME NEW j \in Invocations PROVE MemoryInv(j)'
    <2>1. CASE Loaded(i)
      BY <2>1 DEF Loaded, TypeOK, disk, MemoryInv, MySpecs, Target, Converted, Unresolved
    <2>2. CASE PullImages(i)
      BY <2>2 DEF PullImages, TypeOK, disk, MemoryInv, MySpecs, Target, Converted, Unresolved
    <2>3. CASE ReservePanics(i)
      BY <2>3 DEF ReservePanics, TypeOK, disk, MemoryInv, MySpecs, Target, Converted, Unresolved
    <2> QED  BY <2>1, <2>2, <2>3
  <1> QED  BY <1>1, <1>2, <1>3

LEMMA ReserveLoadedBase ==
  ASSUME BaseInv, NEW i \in Invocations, NEW p \in Ports, ReserveLoaded(i, p)
  PROVE  BaseInv'
  <1> USE DEF BaseInv
  <1>1. /\ reserved' \in [Invocations -> SUBSET Ports]
        /\ \A k \in Invocations : reserved[k] \subseteq reserved'[k]
    BY PortReserved DEF ReserveLoaded
  <1>2. TypeOK'
    BY <1>1 DEF ReserveLoaded, TypeOK, disk, host
  <1>3. FilesHoldPlans' /\ up' = [e \in Deployments |-> up'[e]]
    BY DEF ReserveLoaded, FilesHoldPlans, disk, host
  <1>4. ASSUME NEW j \in Invocations PROVE MemoryInv(j)'
    BY <1>1 DEF ReserveLoaded, TypeOK, disk, MemoryInv, MySpecs, Target, Converted, Unresolved
  <1> QED  BY <1>2, <1>3, <1>4

LEMMA WriteConfigBase ==
  ASSUME BaseInv, NEW i \in Invocations, WriteConfig(i)
  PROVE  BaseInv'
  <1> USE DEF BaseInv
  <1>1. resolved[i][current[i]] \in Keys \cup {Torn}
    BY DEF WriteConfig, TypeOK, MemoryInv, Unresolved, MySpecs, SpecsOf
  <1>2. TypeOK'
    BY <1>1 DEF WriteConfig, TypeOK, disk, host, Contents
  <1>3. FilesHoldPlans' /\ up' = [e \in Deployments |-> up'[e]]
    BY DEF WriteConfig, FilesHoldPlans, disk, host
  <1>4. ASSUME NEW j \in Invocations PROVE MemoryInv(j)'
    BY DEF WriteConfig, TypeOK, disk, MemoryInv, MySpecs, Target, Converted, Unresolved
  <1> QED  BY <1>2, <1>3, <1>4

LEMMA TruncateComposeBase ==
  ASSUME BaseInv, NEW i \in Invocations, TruncateCompose(i)
  PROVE  BaseInv'
  <1> USE DEF BaseInv
  <1>1. /\ \A j \in Invocations : pc[j] # "idle" => Target(j) \in Deployments
        /\ \A d \in Deployments : composeFile'[d] \in {Torn, composeFile[d]}
        /\ composeFile'[Target(i)] = Torn /\ pc[i] = "converting"
    BY Targets DEF TruncateCompose, FilesHoldPlans
  <1>2. TypeOK'
    BY DEF TruncateCompose, TypeOK, disk, host
  <1>3. FilesHoldPlans' /\ up' = [e \in Deployments |-> up'[e]]
    BY DEF TruncateCompose, FilesHoldPlans, disk, host, TypeOK
  <1>4. ASSUME NEW j \in Invocations PROVE MemoryInv(j)'
    BY <1>1, Markers DEF TruncateCompose, TypeOK, disk, MemoryInv, MySpecs, Target, Converted, Unresolved
  <1> QED  BY <1>2, <1>3, <1>4

LEMMA ConvertSpecBase ==
  ASSUME BaseInv, NEW i \in Invocations, NEW s \in Specs, NEW q \in Ports \cup {NoPort}, ConvertSpec(i, s, q)
  PROVE  BaseInv'
  <1> USE DEF BaseInv
  <1>1. /\ reserved' \in [Invocations -> SUBSET Ports]
        /\ \A k \in Invocations : reserved[k] \subseteq reserved'[k]
        /\ q \in Ports => q \in reserved'[i] /\ q \notin reserved[i]
    BY PortReserved, DeployerPortsAssumption DEF ConvertSpec
  <1>2. plan' \in [Invocations -> [Specs -> Ports \cup {NoPort, Unplanned}]]
    BY DEF ConvertSpec, TypeOK
  <1>3. TypeOK'
    <2>1. CASE HasSecret(s)
      <3>1. /\ config' = [config EXCEPT ![SecretOf[s]] = Torn]
            /\ current' = [current EXCEPT ![i] = s]
            /\ pc' = [pc EXCEPT ![i] = "writing_config"]
        BY <2>1 DEF ConvertSpec
      <3>2. config' \in [Secrets -> Contents]
        BY <3>1 DEF TypeOK, Contents
      <3> QED  BY <1>1, <1>2, <3>1, <3>2 DEF ConvertSpec, TypeOK, host
    <2>2. CASE ~HasSecret(s)
      BY <1>1, <1>2, <2>2 DEF ConvertSpec, TypeOK, disk, host
    <2> QED  BY <2>1, <2>2
  <1>4. FilesHoldPlans' /\ up' = [e \in Deployments |-> up'[e]]
    BY DEF ConvertSpec, FilesHoldPlans, disk, host
  <1>5. ASSUME NEW j \in Invocations PROVE MemoryInv(j)'
    BY <1>1, <1>2, Markers DEF ConvertSpec, TypeOK, disk, MemoryInv, MySpecs, Target, Converted, Unresolved
  <1> QED  BY <1>3, <1>4, <1>5

\* What is written is the plan: all specs are converted, no port is planned twice.
LEMMA PlanWritten ==
  ASSUME BaseInv, NEW i \in Invocations, pc[i] \in {"writing_compose", "pulling", "starting"}
  PROVE  LET f == [s \in MySpecs(i) |-> plan[i][s]]
         IN  f \in Plans(Target(i)) /\ PortTexts(i) = Texts(Target(i), f)
  <1> USE DEF BaseInv
  <1> DEFINE f == [s \in MySpecs(i) |-> plan[i][s]]
  <1>1. MySpecs(i) = SpecsOf(Target(i)) /\ MySpecs(i) \subseteq Specs
    BY Targets DEF MySpecs
  <1>2. \A s \in MySpecs(i) : plan[i][s] \in Ports \cup {NoPort}
    BY <1>1 DEF MemoryInv, Converted, TypeOK
  <1>3. f \in Plans(Target(i))
    BY <1>1, <1>2 DEF Plans, MemoryInv
  <1>4. PortTexts(i) = Texts(Target(i), f)
    BY <1>1 DEF PortTexts, Texts
  <1> QED  BY <1>3, <1>4

LEMMA WriteComposeBase ==
  ASSUME BaseInv, NEW i \in Invocations, WriteCompose(i)
  PROVE  BaseInv'
  <1> USE DEF BaseInv
  <1>1. \A j \in Invocations : pc[j] # "idle" => Target(j) \in Deployments
    BY Targets
  <1>2. composeFile' = [composeFile EXCEPT ![Target(i)] = PortTexts(i)] /\ Target(i) \in Deployments
    BY <1>1 DEF WriteCompose
  <1>3. PICK f \in Plans(Target(i)) : PortTexts(i) = Texts(Target(i), f)
    BY PlanWritten DEF WriteCompose
  <1>4. FilesHoldPlans'
    BY <1>2, <1>3 DEF FilesHoldPlans
  <1>5. /\ composeFile'[Target(i)] = Texts(Target(i), f)
        /\ \A d \in Deployments : d # Target(i) => composeFile'[d] = composeFile[d]
    BY <1>2, <1>3 DEF FilesHoldPlans
  <1>6. Texts(Target(i), f) # Absent
    BY <1>2, FileText
  <1>7. TypeOK'
    <2>1. \A d \in Deployments :
            composeFile'[d] \in {Absent, Torn} \/
            /\ DOMAIN composeFile'[d] = SpecsOf(d)
            /\ \A s \in SpecsOf(d) : Yaml!DeserializePort(composeFile'[d][s]) \in Yaml!Port
      BY <1>2, <1>5, TextTyped DEF TypeOK
    <2> QED  BY <2>1 DEF WriteCompose, TypeOK, host, Ended
  <1>8. up' = [e \in Deployments |-> up'[e]]
    BY DEF WriteCompose, host
  <1>9. ASSUME NEW j \in Invocations PROVE MemoryInv(j)'
    <2>1. pc[j] # "idle" /\ composeFile[Target(j)] # Absent => composeFile'[Target(j)] # Absent
      BY <1>1, <1>5, <1>6
    <2>2. composeFile'[Target(i)] # Absent
      BY <1>5, <1>6
    <2> QED  BY <2>1, <2>2 DEF WriteCompose, TypeOK, MemoryInv, MySpecs, Target, Converted, Unresolved
  <1> QED  BY <1>4, <1>7, <1>8, <1>9

LEMMA ComposeUpBase ==
  ASSUME BaseInv, NEW i \in Invocations, ComposeUp(i)
  PROVE  BaseInv'
  <1> USE DEF BaseInv
  <1>1. Target(i) \in Deployments /\ composeFile[Target(i)] # Absent
    BY Targets DEF ComposeUp, MemoryInv
  <1>2. \/ UNCHANGED up
        \/ \E g : /\ up' = [up EXCEPT ![Target(i)] = g]
                 /\ DOMAIN g \subseteq SpecsOf(Target(i))
                 /\ \A s \in DOMAIN g : g[s] \in Ports \cup {NoPort}
    <2>1. CASE composeFile[Target(i)] = Torn
      BY <2>1 DEF ComposeUp
    <2>2. CASE composeFile[Target(i)] # Torn
      <3> DEFINE d == Target(i)
                 old == up[d]
                 g(kept, started) == [s \in kept \cup started |->
                    IF s \in kept THEN old[s] ELSE HostPort(composeFile[d][s])]
      <3>1. PICK f \in Plans(d) : composeFile[d] = Texts(d, f)
        BY <1>1, <2>2 DEF FilesHoldPlans
      <3>k. PICK kept \in SUBSET DOMAIN old :
              \E started \in SUBSET Startable(d, composeFile[d], kept) :
                up' = [up EXCEPT ![d] = g(kept, started)]
        BY <2>2 DEF ComposeUp
      <3>2. PICK started \in SUBSET Startable(d, composeFile[d], kept) :
              up' = [up EXCEPT ![d] = g(kept, started)]
        BY <3>k
      <3>3. started \subseteq SpecsOf(d)
        BY <1>1, <3>1, TextTyped DEF Startable
      <3>4. /\ kept \subseteq SpecsOf(d)
            /\ \A s \in kept : old[s] \in Ports \cup {NoPort}
        BY <1>1 DEF TypeOK
      <3>5. \A s \in started : HostPort(composeFile[d][s]) \in Ports \cup {NoPort}
        <4>1. \A s \in SpecsOf(d) : HostPort(Texts(d, f)[s]) = f[s]
          BY <1>1, FileText
        <4>2. \A s \in SpecsOf(d) : f[s] \in Ports \cup {NoPort}
          BY DEF Plans
        <4> QED  BY <3>1, <3>3, <4>1, <4>2
      <3>6. /\ DOMAIN g(kept, started) \subseteq SpecsOf(d)
            /\ \A s \in DOMAIN g(kept, started) : g(kept, started)[s] \in Ports \cup {NoPort}
        BY <3>3, <3>4, <3>5
      <3> QED  BY <3>2, <3>6
    <2> QED  BY <2>1, <2>2
  <1>3. /\ up' = [e \in Deployments |-> up'[e]]
        /\ \A d \in Deployments :
             /\ DOMAIN up'[d] \subseteq SpecsOf(d)
             /\ \A s \in DOMAIN up'[d] : up'[d][s] \in Ports \cup {NoPort}
    <2>1. CASE UNCHANGED up
      BY <2>1 DEF TypeOK
    <2>2. ASSUME NEW g, up' = [up EXCEPT ![Target(i)] = g],
                 DOMAIN g \subseteq SpecsOf(Target(i)),
                 \A s \in DOMAIN g : g[s] \in Ports \cup {NoPort}
          PROVE  /\ up' = [e \in Deployments |-> up'[e]]
                 /\ \A d \in Deployments :
                      /\ DOMAIN up'[d] \subseteq SpecsOf(d)
                      /\ \A s \in DOMAIN up'[d] : up'[d][s] \in Ports \cup {NoPort}
      <3>1. up'[Target(i)] = g /\ \A d \in Deployments \ {Target(i)} : up'[d] = up[d]
        BY <1>1, <2>2
      <3>2. up' = [e \in Deployments |-> up'[e]]
        BY <2>2
      <3> QED  BY <2>2, <3>1, <3>2 DEF TypeOK
    <2> QED  BY <1>2, <2>1, <2>2
  <1>4. TypeOK'
    BY <1>3 DEF ComposeUp, TypeOK, disk, Ended
  <1>5. FilesHoldPlans'
    BY DEF ComposeUp, FilesHoldPlans, disk
  <1>6. ASSUME NEW j \in Invocations PROVE MemoryInv(j)'
    BY DEF ComposeUp, TypeOK, disk, MemoryInv, MySpecs, Target, Converted, Unresolved
  <1> QED  BY <1>3, <1>4, <1>5, <1>6

LEMMA DiesBase ==
  ASSUME BaseInv, NEW i \in Invocations, Dies(i)
  PROVE  BaseInv'
  <1> USE DEF BaseInv
  <1>1. plan' = [plan EXCEPT ![i] = [s \in Specs |-> Unplanned]]
    BY DEF Dies
  <1>2. TypeOK'
    BY <1>1 DEF Dies, TypeOK, disk, host, Ended
  <1>3. FilesHoldPlans' /\ up' = [e \in Deployments |-> up'[e]]
    BY DEF Dies, FilesHoldPlans, disk, host
  <1>4. ASSUME NEW j \in Invocations PROVE MemoryInv(j)'
    <2>1. CASE j = i
      <3>1. pc'[i] = "failed" /\ \A s \in Specs : plan'[i][s] = Unplanned
        BY <1>1 DEF Dies, TypeOK
      <3>2. command'[i] \in Commands
        BY DEF Dies, Active, MemoryInv
      <3> QED  BY <2>1, <3>1, <3>2, Markers DEF MemoryInv
    <2>2. CASE j # i
      BY <1>1, <2>2 DEF Dies, TypeOK, disk, MemoryInv, MySpecs, Target, Converted, Unresolved
    <2> QED  BY <2>1, <2>2
  <1> QED  BY <1>2, <1>3, <1>4

LEMMA HostBase ==
  ASSUME BaseInv, \/ \E d \in Deployments : Stop(d)
                  \/ \E p \in setting.hostPorts : HostBinds(p) \/ HostReleases(p)
                  \/ UNCHANGED vars
  PROVE  BaseInv'
  <1> USE DEF BaseInv
  <1>1. UNCHANGED <<process, disk>>
    BY DEF Stop, HostBinds, HostReleases, vars
  <1>2. /\ up' = [e \in Deployments |-> up'[e]]
        /\ \A d \in Deployments : up'[d] \in {Nothing, up[d]}
    BY DEF Stop, HostBinds, HostReleases, vars, host
  <1>3. foreign' \subseteq setting'.hostPorts
    BY DEF Stop, HostBinds, HostReleases, vars, process, host, TypeOK
  <1>4. DOMAIN Nothing = {}
    BY DEF Nothing
  <1>5. TypeOK'
    BY <1>1, <1>2, <1>3, <1>4 DEF TypeOK, process, disk
  <1>6. FilesHoldPlans'
    BY <1>1 DEF FilesHoldPlans, disk
  <1>7. ASSUME NEW j \in Invocations PROVE MemoryInv(j)'
    BY <1>1 DEF process, disk, MemoryInv, MySpecs, Target, Converted, Unresolved
  <1> QED  BY <1>2, <1>5, <1>6, <1>7

-----------------------------------------------------------------------------
(* Invocations that do not overlap.                                        *)

Inactive == {"idle"} \cup Ended

\* While one invocation moves the others do not.
LEMMA OneMoves ==
  ASSUME TypeOK, Alone, NEW i \in Invocations, pc[i] \notin Inactive,
         pc' = pc \/ \E stage : pc' = [pc EXCEPT ![i] = stage]
  PROVE  /\ Alone'
         /\ \A j \in Invocations \ {i} : pc[j] \in Inactive /\ pc'[j] \in Inactive
  <1>1. Active(i)
    BY DEF Active, Inactive
  <1>2. \A j \in Invocations \ {i} : pc[j] \in Inactive /\ pc'[j] = pc[j]
    BY <1>1 DEF Alone, Active, Inactive, TypeOK
  <1> QED  BY <1>2 DEF Alone, Active, Inactive

\* A secret of a spec is a file.
LEMMA SecretNames == \A s \in Specs : HasSecret(s) => SecretOf[s] \in Secrets
  BY NamesAssumption DEF HasSecret

\* When nobody dies, files are whole except while they are written.
Settled ==
    \A k \in Secrets :
      /\ secretFile[k] # Torn
      /\ config[k] = Absent \/ (config[k] = secretFile[k] /\ secretFile[k] \in Keys)

LEMMA NobodyWrites ==
  ASSUME NothingTorn, NEW i \in Invocations, pc[i] \notin {"writing_secret", "writing_config"},
         \A j \in Invocations \ {i} : pc[j] \in Inactive
  PROVE  Settled
  <1>1. \A j \in Invocations : pc[j] \notin {"writing_secret", "writing_config"}
    BY DEF Inactive, Ended
  <1>2. \A k \in Secrets : secretFile[k] # Torn
    BY <1>1 DEF NothingTorn
  <1>3. \A k \in Secrets : config[k] = Absent \/ (config[k] = secretFile[k] /\ secretFile[k] \in Keys)
    BY <1>1 DEF NothingTorn
  <1> QED  BY <1>2, <1>3 DEF Settled

LEMMA StaysSettled ==
  ASSUME NothingTorn, Settled, UNCHANGED <<resolved, secretFile, config>>
  PROVE  NothingTorn'
  BY DEF NothingTorn, Settled

\* The texts an invocation writes depend on its command line and its plan.
LEMMA SameTexts ==
  ASSUME NEW i \in Invocations, UNCHANGED <<command, plan>>
  PROVE  PortTexts(i)' = PortTexts(i)
  BY DEF PortTexts, MySpecs, Target

LEMMA ReadSecretSerial ==
  ASSUME BaseInv, SerialInv, NEW i \in Invocations, NEW s \in Specs, ReadSecret(i, s)
  PROVE  SerialInv'
  <1> SUFFICES ASSUME ~setting.overlap
               PROVE  /\ Alone' /\ KeysOnDisk' /\ FilesKnown' /\ OwnFile'
                      /\ ~setting.deaths => NothingTorn'
    BY DEF ReadSecret, SerialInv
  <1> USE DEF BaseInv, SerialInv
  <1>1. /\ Alone'
        /\ \A j \in Invocations \ {i} : pc[j] \in Inactive /\ pc'[j] \in Inactive
    BY OneMoves DEF ReadSecret, Inactive, Ended
  <1>2. KeysOnDisk'
    BY <1>1 DEF ReadSecret, Inactive, Ended, TypeOK, KeysOnDisk, disk
  <1>3. FilesKnown'
    BY <1>1 DEF ReadSecret, Inactive, Ended, TypeOK, FilesKnown, disk, Target
  <1>4. OwnFile'
    BY <1>1 DEF ReadSecret, Inactive, Ended, TypeOK, OwnFile, disk, Target
  <1>5. ~setting.deaths => NothingTorn'
    <2>1. ASSUME ~setting.deaths PROVE secretFile[SecretOf[s]] # Torn /\ Settled
      BY <1>1, <2>1, SecretNames, NobodyWrites DEF ReadSecret, Unresolved, Settled
    <2> QED  BY <2>1 DEF ReadSecret, TypeOK, NothingTorn, Settled, disk
  <1> QED  BY <1>1, <1>2, <1>3, <1>4, <1>5

LEMMA MintSecretSerial ==
  ASSUME BaseInv, SerialInv, NEW i \in Invocations, NEW s \in Specs, MintSecret(i, s)
  PROVE  SerialInv'
  <1> SUFFICES ASSUME ~setting.overlap
               PROVE  /\ Alone' /\ KeysOnDisk' /\ FilesKnown' /\ OwnFile'
                      /\ ~setting.deaths => NothingTorn'
    BY DEF MintSecret, SerialInv
  <1> USE DEF BaseInv, SerialInv
  <1>1. /\ Alone'
        /\ \A j \in Invocations \ {i} : pc[j] \in Inactive /\ pc'[j] \in Inactive
    BY OneMoves DEF MintSecret, Inactive, Ended
  <1>2. KeysOnDisk'
    BY <1>1 DEF MintSecret, Inactive, Ended, TypeOK, KeysOnDisk, disk
  <1>3. FilesKnown'
    BY <1>1 DEF MintSecret, Inactive, Ended, TypeOK, FilesKnown, disk, Target
  <1>4. OwnFile'
    BY <1>1 DEF MintSecret, Inactive, Ended, TypeOK, OwnFile, disk, Target
  <1>5. ~setting.deaths => NothingTorn'
    BY <1>1, NobodyWrites, StaysSettled DEF MintSecret, disk
  <1> QED  BY <1>1, <1>2, <1>3, <1>4, <1>5

LEMMA TruncateSecretSerial ==
  ASSUME BaseInv, SerialInv, NEW i \in Invocations, TruncateSecret(i)
  PROVE  SerialInv'
  <1> SUFFICES ASSUME ~setting.overlap
               PROVE  /\ Alone' /\ KeysOnDisk' /\ FilesKnown' /\ OwnFile'
                      /\ ~setting.deaths => NothingTorn'
    BY DEF TruncateSecret, SerialInv
  <1> USE DEF BaseInv, SerialInv
  <1>1. /\ Alone'
        /\ \A j \in Invocations \ {i} : pc[j] \in Inactive /\ pc'[j] \in Inactive
    BY OneMoves DEF TruncateSecret, Inactive, Ended
  <1>2. /\ current[i] \in Specs /\ SecretOf[current[i]] \in Secrets
        /\ \A s \in Specs : HasSecret(s) => SecretOf[s] \in Secrets
    BY SecretNames DEF TruncateSecret, MemoryInv, MySpecs, SpecsOf
  <1>3. KeysOnDisk'
    <2>1. /\ secretFile[SecretOf[current[i]]] = Absent
          /\ secretFile' = [secretFile EXCEPT ![SecretOf[current[i]]] = Torn]
          /\ pc'[i] = "writing_secret"
          /\ UNCHANGED <<current, resolved>>
      BY DEF TruncateSecret, KeysOnDisk, TypeOK
    <2>2. ASSUME NEW j \in Invocations, NEW s \in Specs, HasSecret(s), resolved[j][s] \in Keys
          PROVE  secretFile'[SecretOf[s]] = resolved[j][s]
      <3>1. secretFile[SecretOf[s]] \in Keys /\ secretFile[SecretOf[s]] = resolved[j][s]
        BY <2>2 DEF KeysOnDisk
      <3> QED  BY <1>2, <2>1, <2>2, <3>1, Markers DEF TypeOK
    <2> QED  BY <1>1, <1>2, <2>1, <2>2 DEF KeysOnDisk, TypeOK, Inactive, Ended
  <1>4. FilesKnown'
    BY <1>1 DEF TruncateSecret, Inactive, Ended, TypeOK, FilesKnown, disk, Target
  <1>5. OwnFile'
    BY <1>1 DEF TruncateSecret, Inactive, Ended, TypeOK, OwnFile, disk, Target
  <1>6. ~setting.deaths => NothingTorn'
    <2>1. ASSUME ~setting.deaths PROVE Settled
      BY <1>1, <2>1, NobodyWrites DEF TruncateSecret
    <2>2. secretFile[SecretOf[current[i]]] = Absent
      BY DEF TruncateSecret, KeysOnDisk
    <2> QED  BY <1>2, <2>1, <2>2, Markers DEF TruncateSecret, TypeOK, NothingTorn, Settled
  <1> QED  BY <1>1, <1>3, <1>4, <1>5, <1>6

LEMMA WriteSecretSerial ==
  ASSUME BaseInv, SerialInv, NEW i \in Invocations, WriteSecret(i)
  PROVE  SerialInv'
  <1> SUFFICES ASSUME ~setting.overlap
               PROVE  /\ Alone' /\ KeysOnDisk' /\ FilesKnown' /\ OwnFile'
                      /\ ~setting.deaths => NothingTorn'
    BY DEF WriteSecret, SerialInv
  <1> USE DEF BaseInv, SerialInv
  <1>1. /\ Alone'
        /\ \A j \in Invocations \ {i} : pc[j] \in Inactive /\ pc'[j] \in Inactive
    BY OneMoves DEF WriteSecret, Inactive, Ended
  <1>2. /\ current[i] \in Specs /\ SecretOf[current[i]] \in Secrets
        /\ \A s \in Specs : HasSecret(s) => SecretOf[s] \in Secrets
    BY SecretNames DEF WriteSecret, MemoryInv, MySpecs, SpecsOf
  <1>3. KeysOnDisk'
    <2>1. \A s \in Specs : \A j \in Invocations :
            HasSecret(s) /\ SecretOf[s] = SecretOf[current[i]] => resolved[j][s] \notin Keys
      BY Markers DEF WriteSecret, KeysOnDisk
    <2>2. <<i, current[i]>> \in Keys
      BY <1>2 DEF Keys
    <2>3. /\ secretFile' = [secretFile EXCEPT ![SecretOf[current[i]]] = <<i, current[i]>>]
          /\ resolved' = [resolved EXCEPT ![i][current[i]] = <<i, current[i]>>]
          /\ pc'[i] = "resolving"
      BY DEF WriteSecret, TypeOK
    <2>4. ASSUME NEW j \in Invocations, NEW s \in Specs, HasSecret(s), resolved'[j][s] \in Keys
          PROVE  secretFile'[SecretOf[s]] = resolved'[j][s]
      <3>1. CASE SecretOf[s] = SecretOf[current[i]]
        BY <1>2, <2>1, <2>3, <2>4, <3>1 DEF TypeOK
      <3>2. CASE SecretOf[s] # SecretOf[current[i]]
        BY <1>2, <2>3, <2>4, <3>2 DEF TypeOK, KeysOnDisk
      <3> QED  BY <3>1, <3>2
    <2> QED  BY <1>1, <2>3, <2>4 DEF KeysOnDisk, Inactive, Ended
  <1>4. FilesKnown'
    BY <1>1 DEF WriteSecret, Inactive, Ended, TypeOK, FilesKnown, disk, Target
  <1>5. OwnFile'
    BY <1>1 DEF WriteSecret, Inactive, Ended, TypeOK, OwnFile, disk, Target
  <1>6. ~setting.deaths => NothingTorn'
    <2> SUFFICES ASSUME ~setting.deaths PROVE NothingTorn'
      OBVIOUS
    <2>writer. \A j \in Invocations : pc[j] \in {"writing_secret", "writing_config"} => j = i
      BY <1>1 DEF Inactive, Ended
    <2>1. <<i, current[i]>> \in Keys /\ <<i, current[i]>> # Torn
      BY <1>2, Markers DEF Keys
    <2>2. secretFile' = [secretFile EXCEPT ![SecretOf[current[i]]] = <<i, current[i]>>]
      BY DEF WriteSecret
    <2>3. \A k \in Secrets : secretFile'[k] # Torn
      <3> SUFFICES ASSUME NEW k \in Secrets PROVE secretFile'[k] # Torn
        OBVIOUS
      <3>1. CASE k = SecretOf[current[i]]
        BY <2>1, <2>2, <3>1 DEF TypeOK
      <3>2. CASE k # SecretOf[current[i]]
        BY <2>writer, <2>2, <3>2 DEF NothingTorn, TypeOK
      <3> QED  BY <3>1, <3>2
    <2>4. \A j \in Invocations : \A s \in Specs : HasSecret(s) => resolved'[j][s] # Torn
      BY <1>2, <2>1 DEF WriteSecret, NothingTorn, TypeOK
    <2>5. \A k \in Secrets :
            config[k] = Absent \/ (config[k] = secretFile[k] /\ secretFile[k] \in Keys)
      <3>1. pc[i] = "writing_secret"
        BY DEF WriteSecret
      <3> QED  BY <2>writer, <3>1 DEF NothingTorn
    <2>6. secretFile[SecretOf[current[i]]] = Torn
      BY DEF WriteSecret, KeysOnDisk
    <2>7. \A k \in Secrets :
            config'[k] = Absent \/ (config'[k] = secretFile'[k] /\ secretFile'[k] \in Keys)
      BY <2>2, <2>5, <2>6, Markers DEF WriteSecret, TypeOK
    <2> QED  BY <2>3, <2>4, <2>7 DEF NothingTorn
  <1> QED  BY <1>1, <1>3, <1>4, <1>5, <1>6

LEMMA OpenRuntimeSerial ==
  ASSUME BaseInv, SerialInv, NEW i \in Invocations, OpenRuntime(i)
  PROVE  SerialInv'
  <1> SUFFICES ASSUME ~setting.overlap
               PROVE  /\ Alone' /\ KeysOnDisk' /\ FilesKnown' /\ OwnFile'
                      /\ ~setting.deaths => NothingTorn'
    BY DEF OpenRuntime, SerialInv
  <1> USE DEF BaseInv, SerialInv
  <1>1. /\ Alone'
        /\ \A j \in Invocations \ {i} : pc[j] \in Inactive /\ pc'[j] \in Inactive
    BY OneMoves DEF OpenRuntime, Inactive, Ended
  <1>2. KeysOnDisk'
    BY <1>1 DEF OpenRuntime, Inactive, Ended, TypeOK, KeysOnDisk, disk
  <1>3. FilesKnown'
    BY <1>1 DEF OpenRuntime, Inactive, Ended, TypeOK, FilesKnown, disk, Target
  <1>4. OwnFile'
    BY <1>1 DEF OpenRuntime, Inactive, Ended, TypeOK, OwnFile, disk, Target
  <1>5. ~setting.deaths => NothingTorn'
    BY <1>1, NobodyWrites, StaysSettled DEF OpenRuntime, disk
  <1> QED  BY <1>1, <1>2, <1>3, <1>4, <1>5

LEMMA FolderSerial ==
  ASSUME BaseInv, SerialInv, NEW i \in Invocations, NEW d \in Deployments,
         SkipFolder(i, d) \/ Overlook(i, d) \/ LoadTorn(i, d) \/ LoadCompose(i, d)
  PROVE  SerialInv'
  <1> SUFFICES ASSUME ~setting.overlap
               PROVE  /\ Alone' /\ KeysOnDisk' /\ FilesKnown' /\ OwnFile'
                      /\ ~setting.deaths => NothingTorn'
    BY DEF SkipFolder, Overlook, LoadTorn, LoadCompose, SerialInv
  <1> USE DEF BaseInv, SerialInv
  <1>1. /\ Alone'
        /\ \A j \in Invocations \ {i} : pc[j] \in Inactive /\ pc'[j] \in Inactive
    BY OneMoves DEF SkipFolder, Overlook, LoadTorn, LoadCompose, Inactive, Ended
  <1>2. KeysOnDisk'
    BY <1>1 DEF SkipFolder, Overlook, LoadTorn, LoadCompose, Inactive, Ended, TypeOK, KeysOnDisk, disk
  <1>3. FilesKnown'
    <2>1. \A e \in Deployments : composeFile'[e] = composeFile[e] /\ Target(i)' = Target(i)
      BY DEF SkipFolder, Overlook, LoadTorn, LoadCompose, disk, Target
    <2>2. pc[i] = "loading" /\ pc'[i] \in {"loading", "panicked"}
      BY DEF SkipFolder, Overlook, LoadTorn, LoadCompose, TypeOK
    <2>3. pc'[i] = "loading" =>
            unread'[i] = unread[i] \ {d} /\ (d \in overlooked'[i] \/ composeFile[d] # Torn)
      BY Markers DEF SkipFolder, Overlook, LoadTorn, LoadCompose, Parses, TypeOK
    <2>4. \A j \in Invocations : overlooked[j] \subseteq overlooked'[j]
      <3>1. UNCHANGED overlooked \/ overlooked' = [overlooked EXCEPT ![i] = @ \cup {d}]
        BY DEF SkipFolder, Overlook, LoadTorn, LoadCompose
      <3> QED  BY <3>1 DEF TypeOK
    <2> QED  BY <1>1, <2>1, <2>2, <2>3, <2>4 DEF FilesKnown, Inactive, Ended
  <1>4. OwnFile'
    BY <1>1 DEF SkipFolder, Overlook, LoadTorn, LoadCompose, Inactive, Ended, TypeOK, OwnFile, disk, Target
  <1>5. ~setting.deaths => NothingTorn'
    BY <1>1, NobodyWrites, StaysSettled DEF SkipFolder, Overlook, LoadTorn, LoadCompose, disk
  <1> QED  BY <1>1, <1>2, <1>3, <1>4, <1>5

LEMMA LoadedSerial ==
  ASSUME BaseInv, SerialInv, NEW i \in Invocations, Loaded(i) \/ ReservePanics(i)
  PROVE  SerialInv'
  <1> SUFFICES ASSUME ~setting.overlap
               PROVE  /\ Alone' /\ KeysOnDisk' /\ FilesKnown' /\ OwnFile'
                      /\ ~setting.deaths => NothingTorn'
    BY DEF Loaded, ReservePanics, SerialInv
  <1> USE DEF BaseInv, SerialInv
  <1>1. /\ Alone'
        /\ \A j \in Invocations \ {i} : pc[j] \in Inactive /\ pc'[j] \in Inactive
    BY OneMoves DEF Loaded, ReservePanics, Inactive, Ended
  <1>2. KeysOnDisk'
    <2>1. /\ UNCHANGED <<secretFile, resolved, current>>
          /\ pc'[i] \in {"converting", "panicked"}
      BY DEF Loaded, ReservePanics, TypeOK, disk
    <2> QED  BY <1>1, <2>1 DEF KeysOnDisk, Inactive, Ended
  <1>3. FilesKnown'
    BY <1>1 DEF Loaded, ReservePanics, Inactive, Ended, TypeOK, FilesKnown, disk, Target
  <1>4. OwnFile'
    BY <1>1 DEF Loaded, ReservePanics, Inactive, Ended, TypeOK, OwnFile, disk, Target
  <1>5. ~setting.deaths => NothingTorn'
    BY <1>1, NobodyWrites, StaysSettled DEF Loaded, ReservePanics, disk
  <1> QED  BY <1>1, <1>2, <1>3, <1>4, <1>5

LEMMA PullImagesSerial ==
  ASSUME BaseInv, SerialInv, NEW i \in Invocations, PullImages(i)
  PROVE  SerialInv'
  <1> SUFFICES ASSUME ~setting.overlap
               PROVE  /\ Alone' /\ KeysOnDisk' /\ FilesKnown' /\ OwnFile'
                      /\ ~setting.deaths => NothingTorn'
    BY DEF PullImages, SerialInv
  <1> USE DEF BaseInv, SerialInv
  <1>1. /\ Alone'
        /\ \A j \in Invocations \ {i} : pc[j] \in Inactive /\ pc'[j] \in Inactive
    BY OneMoves DEF PullImages, Inactive, Ended
  <1>2. KeysOnDisk'
    BY <1>1 DEF PullImages, Inactive, Ended, TypeOK, KeysOnDisk, disk
  <1>3. FilesKnown'
    BY <1>1 DEF PullImages, Inactive, Ended, TypeOK, FilesKnown, disk, Target
  <1>4. OwnFile'
    BY <1>1, SameTexts DEF PullImages, Inactive, Ended, TypeOK, OwnFile, disk, Target
  <1>5. ~setting.deaths => NothingTorn'
    BY <1>1, NobodyWrites, StaysSettled DEF PullImages, disk
  <1> QED  BY <1>1, <1>2, <1>3, <1>4, <1>5

LEMMA ReserveLoadedSerial ==
  ASSUME BaseInv, SerialInv, NEW i \in Invocations, NEW p \in Ports, ReserveLoaded(i, p)
  PROVE  SerialInv'
  <1> SUFFICES ASSUME ~setting.overlap
               PROVE  /\ Alone' /\ KeysOnDisk' /\ FilesKnown' /\ OwnFile'
                      /\ ~setting.deaths => NothingTorn'
    BY DEF ReserveLoaded, SerialInv
  <1> USE DEF BaseInv, SerialInv
  <1>1. /\ Alone'
        /\ \A j \in Invocations \ {i} : pc[j] \in Inactive /\ pc'[j] \in Inactive
    BY OneMoves DEF ReserveLoaded, Inactive, Ended
  <1>2. KeysOnDisk'
    BY <1>1 DEF ReserveLoaded, Inactive, Ended, TypeOK, KeysOnDisk, disk
  <1>3. FilesKnown'
    BY <1>1 DEF ReserveLoaded, Inactive, Ended, TypeOK, FilesKnown, disk, Target
  <1>4. OwnFile'
    BY <1>1 DEF ReserveLoaded, Inactive, Ended, TypeOK, OwnFile, disk, Target
  <1>5. ~setting.deaths => NothingTorn'
    BY <1>1, NobodyWrites, StaysSettled DEF ReserveLoaded, disk
  <1> QED  BY <1>1, <1>2, <1>3, <1>4, <1>5

LEMMA WriteConfigSerial ==
  ASSUME BaseInv, SerialInv, NEW i \in Invocations, WriteConfig(i)
  PROVE  SerialInv'
  <1> SUFFICES ASSUME ~setting.overlap
               PROVE  /\ Alone' /\ KeysOnDisk' /\ FilesKnown' /\ OwnFile'
                      /\ ~setting.deaths => NothingTorn'
    BY DEF WriteConfig, SerialInv
  <1> USE DEF BaseInv, SerialInv
  <1>1. /\ Alone'
        /\ \A j \in Invocations \ {i} : pc[j] \in Inactive /\ pc'[j] \in Inactive
    BY OneMoves DEF WriteConfig, Inactive, Ended
  <1>2. /\ current[i] \in Specs /\ HasSecret(current[i]) /\ SecretOf[current[i]] \in Secrets
        /\ resolved[i][current[i]] \in Keys \cup {Torn}
    BY SecretNames DEF WriteConfig, MemoryInv, Unresolved, MySpecs, SpecsOf, TypeOK
  <1>3. KeysOnDisk'
    BY <1>1 DEF WriteConfig, Inactive, Ended, TypeOK, KeysOnDisk, disk
  <1>4. FilesKnown'
    BY <1>1 DEF WriteConfig, Inactive, Ended, TypeOK, FilesKnown, disk, Target
  <1>5. OwnFile'
    BY <1>1 DEF WriteConfig, Inactive, Ended, TypeOK, OwnFile, disk, Target
  <1>6. ~setting.deaths => NothingTorn'
    <2> SUFFICES ASSUME ~setting.deaths PROVE NothingTorn'
      OBVIOUS
    <2>writer. \A j \in Invocations : pc[j] \in {"writing_secret", "writing_config"} => j = i
      BY <1>1 DEF Inactive, Ended
    <2>1. /\ resolved[i][current[i]] \in Keys
          /\ secretFile[SecretOf[current[i]]] = resolved[i][current[i]]
      BY <1>2 DEF NothingTorn, KeysOnDisk
    <2>2. config' = [config EXCEPT ![SecretOf[current[i]]] = resolved[i][current[i]]]
      BY DEF WriteConfig
    <2>3. \A k \in Secrets :
            config'[k] = Absent \/ (config'[k] = secretFile[k] /\ secretFile[k] \in Keys)
      <3> SUFFICES ASSUME NEW k \in Secrets
                   PROVE  config'[k] = Absent \/ (config'[k] = secretFile[k] /\ secretFile[k] \in Keys)
        OBVIOUS
      <3>1. CASE k = SecretOf[current[i]]
        BY <1>2, <2>1, <2>2, <3>1 DEF TypeOK
      <3>2. CASE k # SecretOf[current[i]]
        BY <2>writer, <2>2, <3>2 DEF NothingTorn, TypeOK
      <3> QED  BY <3>1, <3>2
    <2>4. \A k \in Secrets : secretFile[k] # Torn
      BY <2>writer DEF WriteConfig, NothingTorn
    <2> QED  BY <2>3, <2>4 DEF WriteConfig, NothingTorn
  <1> QED  BY <1>1, <1>3, <1>4, <1>5, <1>6

LEMMA TruncateComposeSerial ==
  ASSUME BaseInv, SerialInv, NEW i \in Invocations, TruncateCompose(i)
  PROVE  SerialInv'
  <1> SUFFICES ASSUME ~setting.overlap
               PROVE  /\ Alone' /\ KeysOnDisk' /\ FilesKnown' /\ OwnFile'
                      /\ ~setting.deaths => NothingTorn'
    BY DEF TruncateCompose, SerialInv
  <1> USE DEF BaseInv, SerialInv
  <1>1. /\ Alone'
        /\ \A j \in Invocations \ {i} : pc[j] \in Inactive /\ pc'[j] \in Inactive
    BY OneMoves DEF TruncateCompose, Inactive, Ended
  <1>2. KeysOnDisk'
    BY <1>1 DEF TruncateCompose, Inactive, Ended, TypeOK, KeysOnDisk, disk
  <1>3. FilesKnown'
    <2>1. \A e \in Deployments \ {Target(i)} : composeFile'[e] = composeFile[e]
      BY DEF TruncateCompose, FilesHoldPlans
    <2>2. /\ pc[i] = "converting" /\ pc'[i] = "writing_compose" /\ Target(i)' = Target(i)
          /\ overlooked' = overlooked
      BY DEF TruncateCompose, TypeOK, Target
    <2> QED  BY <1>1, <2>1, <2>2 DEF FilesKnown, Inactive, Ended
  <1>4. OwnFile'
    BY <1>1 DEF TruncateCompose, Inactive, Ended, TypeOK, OwnFile, disk, Target
  <1>5. ~setting.deaths => NothingTorn'
    BY <1>1, NobodyWrites, StaysSettled DEF TruncateCompose, disk
  <1> QED  BY <1>1, <1>2, <1>3, <1>4, <1>5

LEMMA ConvertSpecSerial ==
  ASSUME BaseInv, SerialInv, NEW i \in Invocations, NEW s \in Specs, NEW q \in Ports \cup {NoPort}, ConvertSpec(i, s, q)
  PROVE  SerialInv'
  <1> SUFFICES ASSUME ~setting.overlap
               PROVE  /\ Alone' /\ KeysOnDisk' /\ FilesKnown' /\ OwnFile'
                      /\ ~setting.deaths => NothingTorn'
    BY DEF ConvertSpec, SerialInv
  <1> USE DEF BaseInv, SerialInv
  <1>1. /\ Alone'
        /\ \A j \in Invocations \ {i} : pc[j] \in Inactive /\ pc'[j] \in Inactive
    BY OneMoves DEF ConvertSpec, Inactive, Ended
  <1>2. KeysOnDisk'
    BY <1>1 DEF ConvertSpec, Inactive, Ended, TypeOK, KeysOnDisk, disk
  <1>3. FilesKnown'
    BY <1>1 DEF ConvertSpec, Inactive, Ended, TypeOK, FilesKnown, disk, Target
  <1>4. OwnFile'
    BY <1>1 DEF ConvertSpec, Inactive, Ended, TypeOK, OwnFile, disk, Target
  <1>5. ~setting.deaths => NothingTorn'
    <2> SUFFICES ASSUME ~setting.deaths PROVE NothingTorn'
      OBVIOUS
    <2>1. Settled /\ UNCHANGED <<resolved, secretFile>>
      BY <1>1, NobodyWrites DEF ConvertSpec
    <2>2. CASE HasSecret(s)
      <3>1. /\ config' = [config EXCEPT ![SecretOf[s]] = Torn]
            /\ pc'[i] = "writing_config" /\ current'[i] = s
        BY <2>2 DEF ConvertSpec, TypeOK
      <3>2. \A k \in Secrets : k = SecretOf[current'[i]] \/ config'[k] = config[k]
        BY <3>1 DEF TypeOK
      <3> QED  BY <2>1, <3>1, <3>2 DEF NothingTorn, Settled
    <2>3. CASE ~HasSecret(s)
      BY <2>1, <2>3, StaysSettled DEF ConvertSpec
    <2> QED  BY <2>2, <2>3
  <1> QED  BY <1>1, <1>2, <1>3, <1>4, <1>5

LEMMA WriteComposeSerial ==
  ASSUME BaseInv, SerialInv, NEW i \in Invocations, WriteCompose(i)
  PROVE  SerialInv'
  <1> SUFFICES ASSUME ~setting.overlap
               PROVE  /\ Alone' /\ KeysOnDisk' /\ FilesKnown' /\ OwnFile'
                      /\ ~setting.deaths => NothingTorn'
    BY DEF WriteCompose, SerialInv
  <1> USE DEF BaseInv, SerialInv
  <1>1. /\ Alone'
        /\ \A j \in Invocations \ {i} : pc[j] \in Inactive /\ pc'[j] \in Inactive
    BY OneMoves DEF WriteCompose, Inactive, Ended
  <1>2. KeysOnDisk'
    BY <1>1 DEF WriteCompose, Inactive, Ended, TypeOK, KeysOnDisk, disk
  <1>3. FilesKnown'
    BY <1>1 DEF WriteCompose, Inactive, Ended, TypeOK, FilesKnown, disk, Target
  <1>4. OwnFile'
    <2>1. composeFile'[Target(i)] = PortTexts(i) /\ PortTexts(i)' = PortTexts(i)
      BY Targets, SameTexts DEF WriteCompose, FilesHoldPlans
    <2> QED  BY <1>1, <2>1 DEF WriteCompose, OwnFile, Target, Inactive, Ended
  <1>5. ~setting.deaths => NothingTorn'
    BY <1>1, NobodyWrites, StaysSettled DEF WriteCompose, disk
  <1> QED  BY <1>1, <1>2, <1>3, <1>4, <1>5

LEMMA ComposeUpSerial ==
  ASSUME BaseInv, SerialInv, NEW i \in Invocations, ComposeUp(i)
  PROVE  SerialInv'
  <1> SUFFICES ASSUME ~setting.overlap
               PROVE  /\ Alone' /\ KeysOnDisk' /\ FilesKnown' /\ OwnFile'
                      /\ ~setting.deaths => NothingTorn'
    BY DEF ComposeUp, SerialInv
  <1> USE DEF BaseInv, SerialInv
  <1>1. /\ Alone'
        /\ \A j \in Invocations \ {i} : pc[j] \in Inactive /\ pc'[j] \in Inactive
    BY OneMoves DEF ComposeUp, Inactive, Ended
  <1>2. KeysOnDisk'
    BY <1>1 DEF ComposeUp, Inactive, Ended, TypeOK, KeysOnDisk, disk
  <1>3. FilesKnown'
    BY <1>1 DEF ComposeUp, Inactive, Ended, TypeOK, FilesKnown, disk, Target
  <1>4. OwnFile'
    BY <1>1 DEF ComposeUp, Inactive, Ended, TypeOK, OwnFile, disk, Target
  <1>5. ~setting.deaths => NothingTorn'
    BY <1>1, NobodyWrites, StaysSettled DEF ComposeUp, disk
  <1> QED  BY <1>1, <1>2, <1>3, <1>4, <1>5

LEMMA DiesSerial ==
  ASSUME BaseInv, SerialInv, NEW i \in Invocations, Dies(i)
  PROVE  SerialInv'
  <1> SUFFICES ASSUME ~setting.overlap
               PROVE  /\ Alone' /\ KeysOnDisk' /\ FilesKnown' /\ OwnFile'
                      /\ ~setting.deaths => NothingTorn'
    BY DEF Dies, SerialInv
  <1> USE DEF BaseInv, SerialInv
  <1>1. /\ Alone'
        /\ \A j \in Invocations \ {i} : pc[j] \in Inactive /\ pc'[j] \in Inactive
    BY OneMoves DEF Dies, Active, Inactive
  <1>2. KeysOnDisk'
    BY <1>1 DEF Dies, Inactive, Ended, TypeOK, KeysOnDisk, disk
  <1>3. FilesKnown'
    BY <1>1 DEF Dies, Inactive, Ended, TypeOK, FilesKnown, disk, Target
  <1>4. OwnFile'
    BY <1>1 DEF Dies, Inactive, Ended, TypeOK, OwnFile, disk, Target
  <1>5. ~setting.deaths => NothingTorn'
    BY DEF Dies
  <1> QED  BY <1>1, <1>2, <1>3, <1>4, <1>5

\* A process starts when no other is at work, and knows nothing yet.
LEMMA StartSerial ==
  ASSUME BaseInv, SerialInv, NEW i \in Invocations, Start(i)
  PROVE  SerialInv'
  <1> SUFFICES ASSUME ~setting.overlap
               PROVE  /\ Alone' /\ KeysOnDisk' /\ FilesKnown' /\ OwnFile'
                      /\ ~setting.deaths => NothingTorn'
    BY DEF Start, SerialInv
  <1> USE DEF BaseInv, SerialInv
  <1>1. \A j \in Invocations :
          pc[j] \in Inactive /\ pc'[j] \in {"resolving"} \cup Inactive /\ (j # i => pc'[j] = pc[j])
    BY DEF Start, NoneActive, Active, Inactive, TypeOK
  <1>2. Alone'
    BY <1>1 DEF Alone, Active, Inactive
  <1>3. KeysOnDisk'
    BY <1>1 DEF Start, Inactive, Ended, KeysOnDisk, disk
  <1>4. FilesKnown'
    BY <1>1 DEF Inactive, Ended, FilesKnown
  <1>5. OwnFile'
    BY <1>1 DEF Inactive, Ended, OwnFile
  <1>6. ~setting.deaths => NothingTorn'
    BY <1>1, NobodyWrites, StaysSettled DEF Start, Inactive, Ended, disk
  <1> QED  BY <1>2, <1>3, <1>4, <1>5, <1>6

LEMMA HostSerial ==
  ASSUME SerialInv, UNCHANGED <<process, disk>>
  PROVE  SerialInv'
  <1>1. Alone' = Alone /\ KeysOnDisk' = KeysOnDisk
    BY DEF Alone, Active, KeysOnDisk, process, disk
  <1>2. FilesKnown' = FilesKnown
    BY DEF FilesKnown, Target, process, disk
  <1>3. OwnFile' = OwnFile
    BY DEF OwnFile, PortTexts, MySpecs, Target, process, disk
  <1>4. NothingTorn' = NothingTorn
    BY DEF NothingTorn, process, disk
  <1> QED  BY <1>1, <1>2, <1>3, <1>4 DEF SerialInv, process

-----------------------------------------------------------------------------
(* Ports of different deployments, on a quiet host.                        *)

Planning == {"loading", "converting", "writing_config", "writing_compose"}

\* What was overlooked is not forgotten.
LEMMA OverlooksStays ==
  ASSUME \A j \in Invocations : overlooked[j] \subseteq overlooked'[j],
         \A j \in Invocations : overlooked[j] # {} => command'[j] = command[j],
         NEW d, NEW e, Overlooks(d, e)
  PROVE  Overlooks(d, e)'
  BY DEF Overlooks, Target

\* Files that nobody touches stay apart.
LEMMA FilesStayApart ==
  ASSUME FilesApart, UNCHANGED composeFile,
         \A j \in Invocations : overlooked[j] \subseteq overlooked'[j],
         \A j \in Invocations : overlooked[j] # {} => command'[j] = command[j]
  PROVE  FilesApart' /\ \A d \in Deployments : Readable(d)' = Readable(d)
  <1>1. \A d, e \in Deployments : Overlooks(d, e) => Overlooks(d, e)'
    BY OverlooksStays
  <1> QED  BY <1>1 DEF FilesApart, Readable

\* Without anybody at work on ports there is nothing more to say.
LEMMA NobodyPlans ==
  ASSUME QuietInv, UNCHANGED <<setting, composeFile, overlooked>>,
         \A j \in Invocations : overlooked[j] # {} => command'[j] = command[j],
         \A j \in Invocations : pc'[j] \notin Planning
  PROVE  QuietInv'
  <1>1. ~setting.overlap /\ ~setting.noisy => FilesApart'
    BY FilesStayApart DEF QuietInv
  <1> QED  BY <1>1 DEF QuietInv, LoadedPorts, Planning

\* Otherwise it is enough to look at the one who is.
LEMMA OnePlans ==
  ASSUME BaseInv, SerialInv, NEW i \in Invocations, pc[i] \notin Inactive,
         pc' = pc \/ \E stage : pc' = [pc EXCEPT ![i] = stage],
         UNCHANGED setting,
         ~setting.overlap /\ ~setting.noisy => FilesApart' /\ LoadedPorts(i)'
  PROVE  QuietInv'
  <1> SUFFICES ASSUME ~setting.overlap, ~setting.noisy, NEW j \in Invocations
               PROVE  FilesApart' /\ LoadedPorts(j)'
    BY DEF QuietInv
  <1>1. CASE j = i
    BY <1>1
  <1>2. CASE j # i
    <2>1. pc'[j] \in Inactive
      BY <1>2, OneMoves DEF BaseInv, SerialInv
    <2> QED  BY <2>1 DEF LoadedPorts, Inactive, Ended
  <1> QED  BY <1>1, <1>2

\* Resolving, pulling, starting and dying do not concern ports.
LEMMA OtherStagesQuiet ==
  ASSUME BaseInv, SerialInv, QuietInv, NEW i \in Invocations,
         \/ \E s \in Specs : ReadSecret(i, s) \/ MintSecret(i, s)
         \/ TruncateSecret(i) \/ WriteSecret(i)
         \/ \E d \in Deployments : LoadTorn(i, d)
         \/ ReservePanics(i) \/ PullImages(i) \/ ComposeUp(i) \/ Dies(i)
  PROVE  QuietInv'
  <1>1. /\ pc[i] \notin Inactive
        /\ pc' = pc \/ \E stage : pc' = [pc EXCEPT ![i] = stage]
        /\ UNCHANGED <<setting, composeFile, command, overlooked>>
    BY DEF ReadSecret, MintSecret, TruncateSecret, WriteSecret, LoadTorn, ReservePanics, PullImages,
           ComposeUp, Dies, Active, Inactive, Ended, disk
  <1>2. pc'[i] \notin Planning
    BY DEF ReadSecret, MintSecret, TruncateSecret, WriteSecret, LoadTorn, ReservePanics, PullImages,
           ComposeUp, Dies, BaseInv, TypeOK, Planning
  <1>3. ~setting.overlap /\ ~setting.noisy => FilesApart' /\ LoadedPorts(i)'
    BY <1>1, <1>2, FilesStayApart DEF QuietInv, LoadedPorts, Planning
  <1> QED  BY <1>1, <1>3, OnePlans

LEMMA StartQuiet ==
  ASSUME BaseInv, QuietInv, NEW i \in Invocations, Start(i)
  PROVE  QuietInv'
  <1> SUFFICES ASSUME ~setting.overlap, ~setting.noisy PROVE QuietInv'
    BY DEF QuietInv, Start
  <1>1. \A j \in Invocations : pc'[j] \in {"resolving"} \cup Inactive
    BY DEF Start, NoneActive, Active, Inactive, BaseInv, TypeOK
  <1>2. /\ UNCHANGED <<setting, composeFile, overlooked>>
        /\ \A j \in Invocations : pc'[j] \notin Planning
    BY <1>1 DEF Start, disk, Planning, Inactive, Ended
  <1>3. \A j \in Invocations : overlooked[j] # {} => command'[j] = command[j]
    BY DEF Start, BaseInv, TypeOK, MemoryInv
  <1> QED  BY <1>2, <1>3, NobodyPlans

LEMMA HostQuiet ==
  ASSUME BaseInv, QuietInv, \/ \E d \in Deployments : Stop(d)
                            \/ \E p \in setting.hostPorts : HostBinds(p) \/ HostReleases(p)
  PROVE  QuietInv'
  <1>1. UNCHANGED <<process, disk>> /\ HostMayChange
    BY DEF Stop, HostBinds, HostReleases
  <1> SUFFICES ASSUME ~setting.overlap, ~setting.noisy PROVE QuietInv'
    BY <1>1 DEF QuietInv, process
  <1>2. \A j \in Invocations : pc'[j] \notin Planning
    BY <1>1 DEF HostMayChange, NoneActive, Active, process, Planning, Ended
  <1> QED  BY <1>1, <1>2, NobodyPlans DEF process, disk

\* Steps of the one who plans, that leave the files and the host alone.
LEMMA OpenRuntimeQuiet ==
  ASSUME BaseInv, SerialInv, QuietInv, NEW i \in Invocations, OpenRuntime(i)
  PROVE  QuietInv'
  <1>1. pc[i] \notin Inactive /\ UNCHANGED <<setting, composeFile, command, overlooked>>
    BY DEF OpenRuntime, Inactive, Ended, disk
  <1>2. pc'[i] = "loading" /\ unread'[i] = Deployments
    BY DEF OpenRuntime, BaseInv, TypeOK
  <1>3. ~setting.overlap /\ ~setting.noisy => FilesApart' /\ LoadedPorts(i)'
    BY <1>1, <1>2, FilesStayApart DEF QuietInv, LoadedPorts
  <1> QED  BY <1>1, <1>3, OnePlans DEF OpenRuntime

LEMMA FolderQuiet ==
  ASSUME BaseInv, SerialInv, QuietInv, NEW i \in Invocations, NEW d \in Deployments,
         SkipFolder(i, d) \/ Overlook(i, d) \/ LoadCompose(i, d)
  PROVE  QuietInv'
  <1>1. /\ pc[i] = "loading" /\ pc' = pc /\ pending[i] = {}
        /\ UNCHANGED <<setting, composeFile, command, reserved, foreign, up>>
        /\ unread' = [unread EXCEPT ![i] = @ \ {d}]
    BY DEF SkipFolder, Overlook, LoadCompose, disk, host
  <1>2. d \notin overlooked'[i] /\ Readable(d) => FilePorts(composeFile[d]) \subseteq pending'[i]
    BY DEF SkipFolder, Overlook, LoadCompose, BaseInv, TypeOK, Readable, Parses
  <1>3. /\ Busy' = Busy /\ unread'[i] = unread[i] \ {d}
        /\ \A j \in Invocations : overlooked[j] \subseteq overlooked'[j]
    BY <1>1 DEF SkipFolder, Overlook, LoadCompose, Busy, BaseInv, TypeOK
  <1>4. ASSUME ~setting.overlap, ~setting.noisy PROVE FilesApart' /\ LoadedPorts(i)'
    <2>1. FilesApart' /\ \A e \in Deployments : Readable(e)' = Readable(e)
      BY <1>1, <1>3, <1>4, FilesStayApart DEF QuietInv
    <2>2. ASSUME NEW e \in Deployments \ overlooked'[i], Readable(e), e \notin unread'[i]
          PROVE  FilePorts(composeFile[e]) \subseteq reserved[i] \cup pending'[i] \cup Busy
      BY <1>1, <1>2, <1>3, <1>4, <2>2 DEF QuietInv, LoadedPorts
    <2> QED  BY <1>1, <1>3, <2>1, <2>2 DEF LoadedPorts
  <1> QED  BY <1>1, <1>4, OnePlans DEF Inactive, Ended

\* On a quiet host a port is passed over only if it is in the pool or in use, so
\* a port of a file that is passed to reserve_port is in one of them afterwards.
LEMMA ReserveLoadedQuiet ==
  ASSUME BaseInv, SerialInv, QuietInv, NEW i \in Invocations, NEW p \in Ports, ReserveLoaded(i, p)
  PROVE  QuietInv'
  <1>1. /\ pc[i] = "loading" /\ pc' = pc
        /\ UNCHANGED <<setting, composeFile, command, overlooked, unread, foreign, up>>
        /\ pending' = [pending EXCEPT ![i] = @ \ {p}]
    BY DEF ReserveLoaded, disk, host
  <1>2. PICK q \in Ports \cup {NoPort} : ReservesPort(i, p, q)
    BY DEF ReserveLoaded
  <1>3. reserved[i] \subseteq reserved'[i]
    BY <1>2, PortReserved DEF BaseInv
  <1>4. Busy' = Busy /\ pending'[i] = pending[i] \ {p}
    BY <1>1 DEF Busy, BaseInv, TypeOK
  <1>5. ASSUME ~setting.noisy PROVE p \in reserved'[i] \cup Busy
    <2>1. MayBeBusy = Busy
      BY <1>5 DEF MayBeBusy
    <2>2. CASE q \in Usable(i, p) /\ reserved' = [reserved EXCEPT ![i] = @ \cup {q}]
      <3>1. q \in p .. MaxPort /\ p .. q - 1 \subseteq reserved[i] \cup Busy
        BY <2>1, <2>2 DEF Usable, Skippable
      <3>2. CASE q = p
        BY <2>2, <3>2 DEF BaseInv, TypeOK
      <3>3. CASE q # p
        <4>1. p \in p .. q - 1
          BY <3>1, <3>3, DeployerPortsAssumption DEF Ports
        <4> QED  BY <1>3, <3>1, <4>1
      <3> QED  BY <3>2, <3>3
    <2>3. CASE RunsOut(i, p)
      <3>1. p \in p .. MaxPort
        BY DeployerPortsAssumption DEF Ports
      <3> QED  BY <1>3, <2>1, <2>3, <3>1 DEF RunsOut, Skippable
    <2> QED  BY <1>2, <2>2, <2>3 DEF ReservesPort
  <1>6. ASSUME ~setting.overlap, ~setting.noisy PROVE FilesApart' /\ LoadedPorts(i)'
    <2>1. FilesApart' /\ \A e \in Deployments : Readable(e)' = Readable(e)
      BY <1>1, <1>6, FilesStayApart DEF QuietInv
    <2>2. ASSUME NEW e \in Deployments \ overlooked[i], Readable(e), e \notin unread[i]
          PROVE  FilePorts(composeFile[e]) \subseteq reserved'[i] \cup pending'[i] \cup Busy
      <3>1. FilePorts(composeFile[e]) \subseteq reserved[i] \cup pending[i] \cup Busy
        BY <1>1, <1>6, <2>2 DEF QuietInv, LoadedPorts
      <3> QED  BY <1>3, <1>4, <1>5, <1>6, <3>1
    <2> QED  BY <1>1, <1>4, <2>1, <2>2 DEF LoadedPorts
  <1> QED  BY <1>1, <1>6, OnePlans DEF Inactive, Ended

\* When all files are read their ports are in the pool or in use; nothing is planned yet.
LEMMA LoadedQuiet ==
  ASSUME BaseInv, SerialInv, QuietInv, NEW i \in Invocations, Loaded(i)
  PROVE  QuietInv'
  <1>1. /\ pc[i] = "loading" /\ pc'[i] = "converting" /\ pc' = [pc EXCEPT ![i] = "converting"]
        /\ unread[i] = {} /\ pending[i] = {}
        /\ UNCHANGED <<setting, composeFile, reserved, plan, foreign, up, command, overlooked>>
    BY DEF Loaded, disk, host, BaseInv, TypeOK
  <1>2. Busy' = Busy
    BY <1>1 DEF Busy
  <1>3. ASSUME NEW d \in Deployments, Readable(d), NEW s \in Specs
        PROVE  plan[i][s] \notin FilePorts(composeFile[d])
    <2>1. plan[i][s] = Unplanned
      BY <1>1 DEF BaseInv, MemoryInv
    <2>2. FilePorts(composeFile[d]) \subseteq Ports
      BY <1>3, FilesTyped DEF Readable, Parses, BaseInv
    <2> QED  BY <2>1, <2>2, Markers
  <1>4. ASSUME ~setting.overlap, ~setting.noisy PROVE FilesApart' /\ LoadedPorts(i)'
    <2>1. FilesApart' /\ \A e \in Deployments : Readable(e)' = Readable(e)
      BY <1>1, <1>4, FilesStayApart DEF QuietInv
    <2>2. \A e \in Deployments \ overlooked[i] :
            Readable(e) => FilePorts(composeFile[e]) \subseteq reserved[i] \cup Busy
      BY <1>1, <1>4 DEF QuietInv, LoadedPorts
    <2> QED  BY <1>1, <1>2, <1>3, <2>1, <2>2 DEF LoadedPorts
  <1> QED  BY <1>1, <1>4, OnePlans DEF Inactive, Ended

\* A planned port is neither in the pool nor in use, so no file read earlier names it.
LEMMA ConvertSpecQuiet ==
  ASSUME BaseInv, SerialInv, QuietInv, NEW i \in Invocations,
         NEW s \in Specs, NEW q \in Ports \cup {NoPort}, ConvertSpec(i, s, q)
  PROVE  QuietInv'
  <1>1. /\ pc[i] = "converting" /\ pc'[i] \in {"converting", "writing_config"}
        /\ pc' = pc \/ pc' = [pc EXCEPT ![i] = "writing_config"]
        /\ UNCHANGED <<setting, composeFile, foreign, up, command, overlooked>>
        /\ plan' = [plan EXCEPT ![i][s] = q]
    BY DEF ConvertSpec, host, BaseInv, TypeOK
  <1>2. Busy' = Busy
    BY <1>1 DEF Busy
  <1>3. reserved[i] \subseteq reserved'[i] /\ (q \in Ports => q \notin reserved[i] \cup Busy)
    BY PortReserved, DeployerPortsAssumption DEF ConvertSpec, BaseInv
  <1>4. ASSUME ~setting.overlap, ~setting.noisy PROVE FilesApart' /\ LoadedPorts(i)'
    <2>1. FilesApart' /\ \A e \in Deployments : Readable(e)' = Readable(e)
      BY <1>1, <1>4, FilesStayApart DEF QuietInv
    <2>2. ASSUME NEW e \in Deployments \ overlooked[i], Readable(e)
          PROVE  FilePorts(composeFile[e]) \subseteq reserved[i] \cup Busy
      BY <1>1, <1>4, <2>2 DEF QuietInv, LoadedPorts
    <2>3. ASSUME NEW e \in Deployments \ overlooked[i], Readable(e), e # Target(i), NEW t \in Specs
          PROVE  plan'[i][t] \notin FilePorts(composeFile[e])
      <3>1. CASE t = s
        <4>1. plan'[i][t] = q
          BY <1>1, <3>1 DEF BaseInv, TypeOK
        <4>2. FilePorts(composeFile[e]) \subseteq Ports
          BY <2>3, FilesTyped DEF Readable, Parses, BaseInv
        <4> QED  BY <1>3, <2>2, <2>3, <4>1, <4>2, Markers
      <3>2. CASE t # s
        <4>1. plan'[i][t] = plan[i][t]
          BY <1>1, <3>2 DEF BaseInv, TypeOK
        <4> QED  BY <1>1, <1>4, <2>3, <4>1 DEF QuietInv, LoadedPorts
      <3> QED  BY <3>1, <3>2
    <2>4. Target(i)' = Target(i)
      BY <1>1 DEF Target
    <2> QED  BY <1>1, <1>2, <1>3, <2>1, <2>2, <2>3, <2>4 DEF LoadedPorts
  <1> QED  BY <1>1, <1>4, OnePlans DEF Inactive, Ended

LEMMA WriteConfigQuiet ==
  ASSUME BaseInv, SerialInv, QuietInv, NEW i \in Invocations, WriteConfig(i)
  PROVE  QuietInv'
  <1>1. /\ pc[i] = "writing_config" /\ pc'[i] = "converting" /\ pc' = [pc EXCEPT ![i] = "converting"]
        /\ UNCHANGED <<setting, composeFile, reserved, plan, foreign, up, command, overlooked>>
    BY DEF WriteConfig, host, BaseInv, TypeOK
  <1>2. Busy' = Busy /\ Target(i)' = Target(i)
    BY <1>1 DEF Busy, Target
  <1>3. ASSUME ~setting.overlap, ~setting.noisy PROVE FilesApart' /\ LoadedPorts(i)'
    <2>1. FilesApart' /\ \A e \in Deployments : Readable(e)' = Readable(e)
      BY <1>1, <1>3, FilesStayApart DEF QuietInv
    <2> QED  BY <1>1, <1>2, <1>3, <2>1 DEF QuietInv, LoadedPorts
  <1> QED  BY <1>1, <1>3, OnePlans DEF Inactive, Ended

\* The file is emptied: the other files stay as they are and apart.
LEMMA TruncateComposeQuiet ==
  ASSUME BaseInv, SerialInv, QuietInv, NEW i \in Invocations, TruncateCompose(i)
  PROVE  QuietInv'
  <1>1. /\ pc[i] = "converting" /\ pc'[i] = "writing_compose" /\ pc' = [pc EXCEPT ![i] = "writing_compose"]
        /\ UNCHANGED <<setting, plan, command, overlooked>>
        /\ composeFile' = [composeFile EXCEPT ![Target(i)] = Torn]
    BY DEF TruncateCompose, BaseInv, TypeOK
  <1>2. /\ \A d \in Deployments : Readable(d)' => Readable(d) /\ composeFile'[d] = composeFile[d]
        /\ Target(i)' = Target(i)
        /\ \A d, e \in Deployments : Overlooks(d, e)' = Overlooks(d, e)
    BY <1>1 DEF Readable, Parses, Target, Overlooks, BaseInv, FilesHoldPlans
  <1>3. ASSUME ~setting.overlap, ~setting.noisy PROVE FilesApart' /\ LoadedPorts(i)'
    <2>1. FilesApart'
      BY <1>2, <1>3 DEF QuietInv, FilesApart
    <2>2. ASSUME NEW d \in Deployments \ overlooked[i], Readable(d)', d # Target(i), NEW s \in Specs
          PROVE  plan'[i][s] \notin FilePorts(composeFile'[d])
      BY <1>1, <1>2, <1>3, <2>2 DEF QuietInv, LoadedPorts
    <2> QED  BY <1>1, <1>2, <2>1, <2>2 DEF LoadedPorts
  <1> QED  BY <1>1, <1>3, OnePlans DEF Inactive, Ended

\* The file is filled with planned ports, which no other file names.
LEMMA WriteComposeQuiet ==
  ASSUME BaseInv, SerialInv, QuietInv, NEW i \in Invocations, WriteCompose(i)
  PROVE  QuietInv'
  <1>1. /\ pc[i] = "writing_compose" /\ pc'[i] \notin Planning
        /\ \E stage : pc' = [pc EXCEPT ![i] = stage]
        /\ UNCHANGED <<setting, command, overlooked>>
        /\ composeFile' = [composeFile EXCEPT ![Target(i)] = PortTexts(i)]
    BY DEF WriteCompose, BaseInv, TypeOK, Planning
  <1>2. Target(i) \in Deployments /\ MySpecs(i) \subseteq Specs /\ MySpecs(i) = SpecsOf(Target(i))
    BY <1>1, Targets DEF MySpecs
  <1>3. /\ composeFile'[Target(i)] = PortTexts(i)
        /\ \A d \in Deployments \ {Target(i)} : composeFile'[d] = composeFile[d] /\ Readable(d)' = Readable(d)
    BY <1>1, <1>2 DEF Readable, BaseInv, FilesHoldPlans
  <1>4. FilePorts(PortTexts(i)) \subseteq {plan[i][s] : s \in Specs}
    <2> DEFINE f == [s \in MySpecs(i) |-> plan[i][s]]
    <2>1. f \in Plans(Target(i)) /\ PortTexts(i) = Texts(Target(i), f)
      BY <1>1, PlanWritten
    <2>2. FilePorts(PortTexts(i)) = {f[s] : s \in SpecsOf(Target(i))} \ {NoPort}
      BY <1>2, <2>1, FileText
    <2> QED  BY <1>2, <2>2
  <1>5. ASSUME ~setting.overlap, ~setting.noisy PROVE FilesApart' /\ LoadedPorts(i)'
    <2>0. /\ \A d, e \in Deployments : Overlooks(d, e)' = Overlooks(d, e)
          /\ \A d \in Deployments : ~Overlooks(Target(i), d) => d \notin overlooked[i]
      BY <1>1 DEF Overlooks, Target
    <2>1. ASSUME NEW d \in Deployments \ {Target(i)}, Readable(d), ~Overlooks(Target(i), d)
          PROVE  FilePorts(composeFile[d]) \cap FilePorts(PortTexts(i)) = {}
      <3>1. \A s \in Specs : plan[i][s] \notin FilePorts(composeFile[d])
        BY <1>1, <1>5, <2>0, <2>1 DEF QuietInv, LoadedPorts
      <3> QED  BY <1>4, <3>1
    <2>2. ASSUME NEW d \in Deployments, NEW e \in Deployments, d # e, Readable(d)', Readable(e)',
                 ~Overlooks(d, e)', ~Overlooks(e, d)'
          PROVE  FilePorts(composeFile'[d]) \cap FilePorts(composeFile'[e]) = {}
      <3>1. CASE d = Target(i)
        BY <1>3, <2>0, <2>1, <2>2, <3>1
      <3>2. CASE e = Target(i)
        BY <1>3, <2>0, <2>1, <2>2, <3>2
      <3>3. CASE d # Target(i) /\ e # Target(i)
        BY <1>3, <1>5, <2>0, <2>2, <3>3 DEF QuietInv, FilesApart
      <3> QED  BY <3>1, <3>2, <3>3
    <2> QED  BY <1>1, <2>2 DEF FilesApart, LoadedPorts, Planning
  <1> QED  BY <1>1, <1>5, OnePlans DEF Inactive, Ended

-----------------------------------------------------------------------------
(* The theorems.                                                           *)

LEMMA InitInv == Init => IInv
  <1> SUFFICES ASSUME Init PROVE IInv
    OBVIOUS
  <1>1. DOMAIN Nothing = {}
    BY DEF Nothing
  <1>2. TypeOK
    BY <1>1, SettingsAssumption DEF Init, TypeOK, Contents
  <1>3. FilesHoldPlans /\ up = [d \in Deployments |-> up[d]]
    BY DEF Init, FilesHoldPlans
  <1>4. \A i \in Invocations : MemoryInv(i)
    BY Markers DEF Init, MemoryInv
  <1>5. SerialInv
    BY Markers DEF Init, SerialInv, Alone, Active, KeysOnDisk, FilesKnown, OwnFile, NothingTorn
  <1>6. QuietInv
    <2>1. \A d \in Deployments : ~Readable(d)
      BY DEF Init, Readable, Parses
    <2> QED  BY <2>1 DEF QuietInv, FilesApart, LoadedPorts
  <1> QED  BY <1>2, <1>3, <1>4, <1>5, <1>6 DEF IInv, BaseInv

LEMMA StutterInv == ASSUME IInv, UNCHANGED vars PROVE IInv'
  <1>1. BaseInv' /\ SerialInv'
    BY HostBase, HostSerial DEF IInv, vars
  <1>2. QuietInv'
    BY DEF IInv, QuietInv, FilesApart, LoadedPorts, Overlooks, Readable, Busy, Target, vars, process,
           disk, host
  <1> QED  BY <1>1, <1>2 DEF IInv

LEMMA StepInv == ASSUME IInv, [Next]_vars PROVE IInv'
  <1> USE DEF IInv
  <1>1. ASSUME NEW i \in Invocations, Start(i) PROVE IInv'
    BY <1>1, StartBase, StartSerial, StartQuiet
  <1>2. ASSUME NEW i \in Invocations, Resolve(i) PROVE IInv'
    <2>1. ASSUME NEW s \in Specs, ReadSecret(i, s) PROVE IInv'
      BY <2>1, ReadSecretBase, ReadSecretSerial, OtherStagesQuiet
    <2>2. ASSUME NEW s \in Specs, MintSecret(i, s) PROVE IInv'
      BY <2>2, MintSecretBase, MintSecretSerial, OtherStagesQuiet
    <2>3. CASE TruncateSecret(i)
      BY <2>3, TruncateSecretBase, TruncateSecretSerial, OtherStagesQuiet
    <2>4. CASE WriteSecret(i)
      BY <2>4, WriteSecretBase, WriteSecretSerial, OtherStagesQuiet
    <2>5. CASE OpenRuntime(i)
      BY <2>5, OpenRuntimeBase, OpenRuntimeSerial, OpenRuntimeQuiet
    <2> QED  BY <1>2, <2>1, <2>2, <2>3, <2>4, <2>5 DEF Resolve
  <1>3. ASSUME NEW i \in Invocations, Load(i) PROVE IInv'
    <2>1. ASSUME NEW d \in Deployments, SkipFolder(i, d) PROVE IInv'
      BY <2>1, FolderBase, FolderSerial, FolderQuiet
    <2>o. ASSUME NEW d \in Deployments, Overlook(i, d) PROVE IInv'
      BY <2>o, FolderBase, FolderSerial, FolderQuiet
    <2>2. ASSUME NEW d \in Deployments, LoadCompose(i, d) PROVE IInv'
      BY <2>2, LoadComposeBase, FolderSerial, FolderQuiet
    <2>3. ASSUME NEW d \in Deployments, LoadTorn(i, d) PROVE IInv'
      BY <2>3, FolderBase, FolderSerial, OtherStagesQuiet
    <2>4. ASSUME NEW p \in Ports, ReserveLoaded(i, p) PROVE IInv'
      BY <2>4, ReserveLoadedBase, ReserveLoadedSerial, ReserveLoadedQuiet
    <2>5. CASE Loaded(i)
      BY <2>5, LoadedBase, LoadedSerial, LoadedQuiet
    <2> QED  BY <1>3, <2>1, <2>o, <2>2, <2>3, <2>4, <2>5 DEF Load
  <1>4. ASSUME NEW i \in Invocations, ReservePanics(i) PROVE IInv'
    BY <1>4, LoadedBase, LoadedSerial, OtherStagesQuiet
  <1>5. ASSUME NEW i \in Invocations, Convert(i) PROVE IInv'
    <2>1. ASSUME NEW s \in Specs, NEW q \in Ports \cup {NoPort}, ConvertSpec(i, s, q) PROVE IInv'
      BY <2>1, ConvertSpecBase, ConvertSpecSerial, ConvertSpecQuiet
    <2>2. CASE WriteConfig(i)
      BY <2>2, WriteConfigBase, WriteConfigSerial, WriteConfigQuiet
    <2> QED  BY <1>5, <2>1, <2>2 DEF Convert
  <1>6. ASSUME NEW i \in Invocations, Deploy(i) PROVE IInv'
    <2>1. CASE TruncateCompose(i)
      BY <2>1, TruncateComposeBase, TruncateComposeSerial, TruncateComposeQuiet
    <2>2. CASE WriteCompose(i)
      BY <2>2, WriteComposeBase, WriteComposeSerial, WriteComposeQuiet
    <2>3. CASE PullImages(i)
      BY <2>3, LoadedBase, PullImagesSerial, OtherStagesQuiet
    <2>4. CASE ComposeUp(i)
      BY <2>4, ComposeUpBase, ComposeUpSerial, OtherStagesQuiet
    <2> QED  BY <1>6, <2>1, <2>2, <2>3, <2>4 DEF Deploy
  <1>7. ASSUME NEW i \in Invocations, Dies(i) PROVE IInv'
    BY <1>7, DiesBase, DiesSerial, OtherStagesQuiet
  <1>8. CASE \/ \E d \in Deployments : Stop(d)
             \/ \E p \in setting.hostPorts : HostBinds(p) \/ HostReleases(p)
    <2>1. UNCHANGED <<process, disk>>
      BY <1>8 DEF Stop, HostBinds, HostReleases
    <2> QED  BY <1>8, <2>1, HostBase, HostSerial, HostQuiet
  <1>9. CASE UNCHANGED vars
    BY <1>9, StutterInv
  <1> QED  BY <1>1, <1>2, <1>3, <1>4, <1>5, <1>6, <1>7, <1>8, <1>9 DEF Next, Proceed

LEMMA Invariance == Spec => []IInv
  BY InitInv, StepInv, PTL DEF Spec

\* Whatever the invocations, the host and the crashes do, memory and files keep
\* their types: a compose file is missing, torn, or parses for all its services.
THEOREM TypeCorrect == Spec => []TypeOK
  <1>1. IInv => TypeOK
    BY DEF IInv, BaseInv
  <1> QED  BY <1>1, Invariance, PTL

\* reserve_port never gives an invocation the same port twice, so the file it
\* writes maps no host port to two services, even when others write the file too.
THEOREM FilesHaveDistinctPorts == Spec => []PlanPortsDistinct
  <1>1. IInv => PlanPortsDistinct
    <2> SUFFICES ASSUME IInv, NEW d \in Deployments, Readable(d),
                        NEW s \in SpecsOf(d), NEW t \in SpecsOf(d), s # t, Planned(d, s) # NoPort
                 PROVE  Planned(d, s) # Planned(d, t)
      BY DEF PlanPortsDistinct
    <2>1. PICK f \in Plans(d) : composeFile[d] = Texts(d, f)
      BY FileKinds DEF IInv, BaseInv
    <2>2. ASSUME NEW u \in SpecsOf(d) PROVE Planned(d, u) = f[u]
      <3>1. Yaml!DeserializePort(composeFile[d][u]) = [host |-> f[u], container |-> Preferred[u]]
        BY <2>1, FileText
      <3> QED  BY <3>1 DEF Planned
    <2> QED  BY <2>2 DEF Plans
  <1> QED  BY <1>1, Invariance, PTL

\* load_reserved_ports makes up for the pool that died with the last process:
\* on a quiet host no port is claimed by the files of two deployments, unless an
\* invocation for one of them could not read the file of the other.
THEOREM DeploymentsStayApart == Spec => []HostPortsDisjoint
  <1>1. IInv => HostPortsDisjoint
    BY DEF IInv, QuietInv, FilesApart, HostPortsDisjoint
  <1> QED  BY <1>1, Invariance, PTL

\* DockerRuntime::new panics on a truncated file that it can read before any port
\* is handed out.
THEOREM PlansAreInformed == Spec => []PlansOnKnownPorts
  <1>1. IInv => PlansOnKnownPorts
    BY DEF IInv, SerialInv, FilesKnown, PlansOnKnownPorts
  <1> QED  BY <1>1, Invariance, PTL

\* secret() mints only where no file is: a key once resolved is never rotated.
THEOREM KeysNeverRotate == Spec => []KeyStable
  <1>1. IInv => KeyStable
    BY DEF IInv, SerialInv, KeysOnDisk, KeyStable, HasSecret
  <1> QED  BY <1>1, Invariance, PTL

\* The copy mounted into the containers holds the key that is on disk.
THEOREM ContainersHoldTheKey == Spec => []ConfigIsSecret
  <1>1. IInv => ConfigIsSecret
    BY DEF IInv, SerialInv, NothingTorn, ConfigIsSecret, NoneActive, Active, Ended
  <1> QED  BY <1>1, Invariance, PTL

\* docker-compose starts the containers from the file this invocation wrote, so
\* those it starts use the ports it reserved; those it does not touch keep theirs.
THEOREM StartedAsPlanned == Spec => StartsWhatItPlanned
  <1>1. ASSUME IInv, [Next]_vars, ~setting.overlap, NEW i \in Invocations,
               pc[i] = "starting", pc'[i] = "done"
        PROVE  \A s \in DOMAIN up'[Target(i)] :
                  \/ up'[Target(i)][s] = plan[i][s]
                  \/ s \in DOMAIN up[Target(i)] /\ up'[Target(i)][s] = up[Target(i)][s]
    <2> USE DEF IInv
    <2>1. ComposeUp(i)
      <3>1. ASSUME NEW j \in Invocations \ {i} PROVE ~(Start(j) \/ Proceed(j) \/ Dies(j))
        BY <1>1 DEF BaseInv, TypeOK, Start, Proceed, Resolve, ReadSecret, MintSecret, TruncateSecret,
                    WriteSecret, OpenRuntime, Load, SkipFolder, Overlook, LoadCompose, LoadTorn, ReserveLoaded, Loaded,
                    ReservePanics, Convert, ConvertSpec, WriteConfig, Deploy, TruncateCompose, WriteCompose,
                    PullImages, ComposeUp, Dies
      <3>2. ~Start(i) /\ ~Dies(i)
        BY <1>1 DEF BaseInv, TypeOK, Start, Dies
      <3>3. Proceed(i) => ComposeUp(i)
        BY <1>1 DEF Proceed, Resolve, ReadSecret, MintSecret, TruncateSecret,
                    WriteSecret, OpenRuntime, Load, SkipFolder, Overlook, LoadCompose, LoadTorn, ReserveLoaded, Loaded,
                    ReservePanics, Convert, ConvertSpec, WriteConfig, Deploy, TruncateCompose, WriteCompose,
                    PullImages
      <3>4. ~UNCHANGED pc
        BY <1>1
      <3> QED  BY <1>1, <3>1, <3>2, <3>3, <3>4 DEF Next, Stop, HostBinds, HostReleases, process, vars
    <2>2. Target(i) \in Deployments /\ up = [d \in Deployments |-> up[d]]
      BY <1>1, Targets DEF BaseInv
    <2>3. PICK f \in Plans(Target(i)) :
            /\ composeFile[Target(i)] = Texts(Target(i), f)
            /\ \A s \in MySpecs(i) : f[s] = plan[i][s]
      BY <1>1, PlanWritten DEF SerialInv, OwnFile
    <2>4. /\ composeFile[Target(i)] # Torn
          /\ DOMAIN composeFile[Target(i)] = MySpecs(i)
          /\ \A s \in MySpecs(i) : HostPort(composeFile[Target(i)][s]) = plan[i][s]
      <3>1. /\ composeFile[Target(i)] # Torn
            /\ \A s \in SpecsOf(Target(i)) : HostPort(composeFile[Target(i)][s]) = f[s]
        <4>1. /\ Texts(Target(i), f) \notin {Absent, Torn}
              /\ \A s \in SpecsOf(Target(i)) : HostPort(Texts(Target(i), f)[s]) = f[s]
          BY <2>2, FileText
        <4> QED  BY <2>3, <4>1
      <3>2. DOMAIN composeFile[Target(i)] = SpecsOf(Target(i))
        BY <2>2, <2>3, TextTyped
      <3> QED  BY <2>3, <3>1, <3>2 DEF MySpecs
    <2> DEFINE d == Target(i)
    <2>k. PICK kept \in SUBSET DOMAIN up[d] :
            \E started \in SUBSET Startable(d, composeFile[d], kept) :
              up' = [up EXCEPT ![d] = [s \in kept \cup started |->
                        IF s \in kept THEN up[d][s] ELSE HostPort(composeFile[d][s])]]
      BY <2>1, <2>4 DEF ComposeUp
    <2>5. PICK started \in SUBSET Startable(d, composeFile[d], kept) :
            up' = [up EXCEPT ![d] = [s \in kept \cup started |->
                      IF s \in kept THEN up[d][s] ELSE HostPort(composeFile[d][s])]]
      BY <2>k
    <2>6. up'[d] = [s \in kept \cup started |->
                      IF s \in kept THEN up[d][s] ELSE HostPort(composeFile[d][s])]
      BY <2>2, <2>5
    <2>7. started \subseteq MySpecs(i)
      BY <2>4, <2>5 DEF Startable
    <2> QED  BY <2>4, <2>6, <2>7
  <1>2. ASSUME IInv, [Next]_vars
        PROVE  [~setting.overlap => \A i \in Invocations :
                  pc[i] = "starting" /\ pc'[i] = "done" =>
                      \A s \in DOMAIN up'[Target(i)] :
                          \/ up'[Target(i)][s] = plan[i][s]
                          \/ s \in DOMAIN up[Target(i)] /\ up'[Target(i)][s] = up[Target(i)][s]]_vars
    BY <1>1, <1>2
  <1> QED  BY <1>2, Invariance, PTL DEF Spec, StartsWhatItPlanned
=============================================================================
