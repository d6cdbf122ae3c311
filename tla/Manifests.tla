------------------------------ MODULE Manifests ------------------------------
(***************************************************************************)
(* The spec crate: builders, pods, the babel sidecar and references        *)
(* between services, as operators.  A manifest maps pod names to pods, a   *)
(* pod maps spec names to specs.                                           *)
(*                                                                         *)
(* A name is the sequence of its parts, which the code joins with dashes:  *)
(* <<"el", "node">> is "el-node".  So two different pairs of names can     *)
(* give one service name, as in the code.  A path is the sequence of its   *)
(* components.  Of a spec we keep what binds it to other specs: the ports  *)
(* it exposes, the arguments that refer to ports, volumes and artifacts,   *)
(* and its babel extension; arguments that are plain text are left out.    *)
(***************************************************************************)
EXTENDS Naturals, Sequences, FiniteSets

Port(name, port) == [name |-> name, port |-> port]
Volume(name, path) == [name |-> name, path |-> path]

PortArg(name, preferred) == [kind |-> "port", name |-> name, preferred |-> preferred]
Ref(name, port) == [kind |-> "ref", name |-> name, port |-> port]

\* A source is inline content, a URL to fetch, the shared token or a secret
\* that is minted once.
File(name, path, source) == [name |-> name, path |-> path, source |-> source]
Inline(content) == [kind |-> "inline", content |-> content]
Remote(url) == [kind |-> "remote", content |-> url]
Jwt == [kind |-> "jwt", content |-> <<>>]
Generated(key) == [kind |-> "generated", content |-> key]

\* What a builder starts from.
Builder == [args |-> <<>>, ports |-> <<>>, volumes |-> <<>>, artifacts |-> <<>>,
            babel |-> {}]

\* The ports an argument list declares, each at the position of its argument.
DeclaredPorts(args) ==
    [i \in {j \in DOMAIN args : args[j].kind = "port"} |-> Port(args[i].name, args[i].preferred)]

BuildExplicitPortsWin(b) == [b EXCEPT !.ports = IF @ = <<>> THEN DeclaredPorts(b.args) ELSE @]

\* The ports named in arguments come after those given explicitly.  What counts is the
\* order of the positions; some are free.
Build(b) ==
    LET given == b.ports
        declared == DeclaredPorts(b.args)
    IN [b EXCEPT !.ports = [i \in DOMAIN given \cup {Len(given) + j : j \in DOMAIN declared} |->
                              IF i \in DOMAIN given THEN given[i] ELSE declared[i - Len(given)]]]

\* The sidecar: it serves its own metrics and asks the service it is told of.
BabelSpec(babel) ==
    Build([Builder EXCEPT !.args = <<babel.rpcUrl>>, !.ports = <<Port("metrics", 3000)>>])

Babel(nodeType, rpcUrl) == [nodeType |-> nodeType, rpcUrl |-> rpcUrl]

BabelName(spec) == spec \o <<"babel">>

\* add_spec: every spec with the extension gets a sidecar next to it in the
\* pod, which replaces a spec that already has the sidecar's name.
WithSidecars(pod) ==
    LET carriers == {s \in DOMAIN pod : pod[s].babel # {}}
        sidecars == {BabelName(s) : s \in carriers}
        Sidecar(n) == BabelSpec(CHOOSE b \in UNION {pod[s].babel : s \in
                                    {c \in carriers : BabelName(c) = n}} : TRUE)
    IN [n \in DOMAIN pod \cup sidecars |-> IF n \in sidecars THEN Sidecar(n) ELSE pod[n]]

AddSpec(manifest, name, pod) ==
    [p \in DOMAIN manifest \cup {name} |->
        IF p = name THEN WithSidecars(pod) ELSE manifest[p]]

NewManifest == [p \in {} |-> {}]
OneSpec(name, spec) == [n \in {name} |-> spec]

\* The specs of a manifest, as pairs of a pod's and a spec's name.
SpecsIn(manifest) == UNION {{p} \X DOMAIN manifest[p] : p \in DOMAIN manifest}
SpecAt(manifest, at) == manifest[at[1]][at[2]]

ServiceName(at) == at[1] \o at[2]

Unresolved == [name |-> <<>>, port |-> 0]

\* The first of some positions of a sequence, if there is one.
FirstOf(positions) == {i \in positions : \A j \in positions : i <= j}

\* resolve_ref: the first port of that name of the service of that name.  The
\* manifest is a HashMap: which of two services with one name is met first is
\* not determined, hence the set of answers; Unresolved is the error.
AnswersAt(manifest, at, ref) ==
    LET ports == SpecAt(manifest, at).ports
        hits == {i \in DOMAIN ports : ports[i].name = ref.port}
    IN IF hits = {} THEN {Unresolved}
       ELSE {[name |-> ref.name, port |-> ports[i].port] : i \in FirstOf(hits)}

ResolveRef(manifest, ref) ==
    LET named == {at \in SpecsIn(manifest) : ServiceName(at) = ref.name}
    IN IF named = {} THEN {Unresolved} ELSE UNION {AnswersAt(manifest, at, ref) : at \in named}
=============================================================================
