------------------------------- MODULE Catalog -------------------------------
(***************************************************************************)
(* The catalog: for each module the manifest of its deployment.  Images,   *)
(* tags and plain arguments are left out; a chain stands for every         *)
(* argument, URL and file content that is chosen by it, and the content of *)
(* a file is a name for it together with that chain.                       *)
(***************************************************************************)
EXTENDS Manifests

DataVolume == Volume("data", <<"data">>)
InData(path) == <<"data">> \o path

-----------------------------------------------------------------------------
(* catalog/ethereum                                                        *)

JwtFile == File("jwt", InData(<<"jwt_secret">>), Jwt)

Reth(chain) ==
    [Builder EXCEPT
        !.args = <<PortArg("authrpc", 8551), PortArg("http", 8545)>>,
        !.ports = <<Port("metrics", 9090)>>,
        !.volumes = <<DataVolume>>,
        !.artifacts = <<JwtFile>>,
        !.babel = {Babel("ethereum", Ref(<<"el", "node">>, "http"))}]

Lighthouse(chain) ==
    [Builder EXCEPT
        !.args = <<Ref(<<"el", "node">>, "authrpc"), PortArg("http", 5052)>>,
        !.volumes = <<DataVolume>>,
        !.artifacts = <<JwtFile>>,
        !.babel = {Babel("ethereum_beacon", Ref(<<"cl", "node">>, "http"))}]

\* Prysm names its data directory in an argument and declares no volume.
Prysm(chain) ==
    [Builder EXCEPT
        !.args = <<Ref(<<"el", "node">>, "authrpc"), PortArg("http", 5052),
                   PortArg("metrics", 8080)>>,
        !.artifacts = <<JwtFile>>,
        !.babel = {Babel("ethereum_beacon", Ref(<<"cl", "node">>, "http"))}]

EthereumManifest(chain, clNode) ==
    LET el == AddSpec(NewManifest, <<"el">>, OneSpec(<<"node">>, Build(Reth(chain))))
        client == IF clNode = "prysm" THEN Prysm(chain) ELSE Lighthouse(chain)
    IN AddSpec(el, <<"cl">>, OneSpec(<<"node">>, Build(client)))

-----------------------------------------------------------------------------
(* catalog/polygon                                                         *)

\* The genesis file is that of amoy whatever the chain.
Heimdall(chain) ==
    LET Conf(file) == InData(<<"heimdall", "config", file>>)
    IN [Builder EXCEPT
        !.args = <<PortArg("http", 1317)>>,
        !.volumes = <<DataVolume>>,
        !.artifacts = <<
            File("genesis", Conf("genesis.json"), Remote(<<"genesis", "amoy">>)),
            File("client.toml", Conf("client.toml"), Inline(<<"client", chain>>)),
            File("app.toml", Conf("app.toml"), Inline(<<"app", "any">>)),
            File("config.toml", Conf("config.toml"), Inline(<<"config", "any">>)),
            File("node_key.json", Conf("node_key.json"), Generated(<<"key", "node">>)),
            File("priv_validator_key.json", Conf("priv_validator_key.json"),
                 Generated(<<"key", "validator">>)),
            File("priv_validator_state.json",
                 InData(<<"heimdall", "data", "priv_validator_state.json">>),
                 Inline(<<"state", "any">>))>>,
        !.babel = {Babel("cosmos", Ref(<<"heimdall", "node">>, "http"))}]

Bor(chain) ==
    [Builder EXCEPT
        !.volumes = <<DataVolume>>,
        !.artifacts = <<
            File("config", InData(<<"config.toml">>), Inline(<<"bor config", chain>>)),
            File("genesis.json", InData(<<"genesis.json">>), Remote(<<"bor genesis", chain>>))>>]

PolygonManifest(chain) ==
    LET heimdall == AddSpec(NewManifest, <<"heimdall">>,
                            OneSpec(<<"node">>, Build(Heimdall(chain))))
    IN AddSpec(heimdall, <<"bor">>, OneSpec(<<"bor">>, Build(Bor(chain))))

-----------------------------------------------------------------------------
(* catalog/berachain                                                       *)

BeaconKit(chain) ==
    [Builder EXCEPT
        !.args = <<PortArg("http", 1317)>>,
        !.volumes = <<DataVolume>>,
        !.artifacts = <<
            File("genesis", InData(<<"genesis.json">>), Remote(<<"genesis", chain>>)),
            File("kzg-trusted-setup", InData(<<"kzg-trusted-setup.json">>), Remote(<<"kzg", chain>>)),
            File("config", InData(<<"config.toml">>), Inline(<<"beacon config", "any">>)),
            File("app", InData(<<"app.toml">>), Inline(<<"beacon app", "any">>))>>,
        !.babel = {Babel("cosmos", Ref(<<"beaconkit", "node">>, "http"))}]

BeraRethBabelOfBeaconKit == Babel("ethereum", Ref(<<"beaconkit", "node">>, "http"))

BeraRethBabel == Babel("ethereum", Ref(<<"berareth", "reth">>, "http"))

BeraReth(chain) ==
    [Builder EXCEPT
        !.args = <<PortArg("http", 8545)>>,
        !.volumes = <<DataVolume>>,
        !.artifacts = <<
            File("eth-genesis", InData(<<"eth-genesis.json">>), Remote(<<"eth genesis", chain>>))>>,
        !.babel = {BeraRethBabel}]

BerachainManifest(chain) ==
    LET beaconkit == AddSpec(NewManifest, <<"beaconkit">>,
                             OneSpec(<<"node">>, Build(BeaconKit(chain))))
    IN AddSpec(beaconkit, <<"berareth">>, OneSpec(<<"reth">>, Build(BeraReth(chain))))

-----------------------------------------------------------------------------
(* catalog/tempo                                                           *)

Tempo(chain) ==
    [Builder EXCEPT
        !.args = <<PortArg("http", 8545), PortArg("ws", 8546), PortArg("metrics", 9000)>>,
        !.volumes = <<DataVolume>>,
        !.babel = {Babel("ethereum", Ref(<<"tempo", "node">>, "http"))}]

TempoManifest(chain) ==
    AddSpec(NewManifest, <<"tempo">>, OneSpec(<<"node">>, Build(Tempo(chain))))

-----------------------------------------------------------------------------
(* catalog::apply.  An input names the module, the chain and, for ethereum, *)
(* the consensus client.                                                    *)

Modules == {"ethereum", "polygon", "berachain", "tempo"}

ChainsOf(module) ==
    CASE module = "ethereum" -> {"mainnet", "sepolia"}
      [] module = "polygon" -> {"mainnet", "amoy"}
      [] module = "berachain" -> {"mainnet", "bepolia"}
      [] module = "tempo" -> {"mainnet"}

ManifestFor(module, chain, clNode) ==
    CASE module = "ethereum" -> EthereumManifest(chain, clNode)
      [] module = "polygon" -> PolygonManifest(chain)
      [] module = "berachain" -> BerachainManifest(chain)
      [] module = "tempo" -> TempoManifest(chain)

\* Deployment::apply passes Default::default() for the chain, so the chain of
\* the input is not looked at; in all four modules the default is mainnet.
Apply(input) == ManifestFor(input.module, "mainnet", input.clNode)
=============================================================================
