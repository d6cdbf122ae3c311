----------------------------- MODULE MCWatcher -----------------------------
(***************************************************************************)
(* Two deployments, one's name a prefix of the other's: el with the        *)
(* service el-node and its init service, whose container has no label, and *)
(* el-rs with the service el-rs-a.  A container that bears the name of a   *)
(* service is started by hand; docker-compose names its own after the      *)
(* deployment and the service, with a number at the end.                   *)
(***************************************************************************)
EXTENDS Watcher, SequencesExt

MCDeployments == {<<"el">>, <<"el", "rs">>}
MCServices ==
    (<<"el">> :> {<<"el", "node">>, <<"el", "node", "init", "genesis">>}) @@
    (<<"el", "rs">> :> {<<"el", "rs", "a">>})
ComposeContainers == {<<"el", "el", "node", "1">>}
MCContainers == {<<"el", "node">>, <<"el", "rs", "a">>} \cup ComposeContainers
MCNames == MCContainers \cup UNION {MCServices[d] : d \in MCDeployments}
MCStartsWith == [n \in MCNames |-> {d \in MCDeployments : IsPrefix(d, n)}]
=============================================================================
