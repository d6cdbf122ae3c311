----------------------------- MODULE MCDeployer -----------------------------
(***************************************************************************)
(* Two deployments that prefer the same port: alpha has two specs that     *)
(* mount the same generated key, beta one spec without files.              *)
(***************************************************************************)
EXTENDS Deployer

CONSTANTS alpha, beta,          \* deployments
          node, sentry, probe,  \* specs
          key                   \* a secret

MCDeployments == {alpha, beta}
MCSpecs == {node, sentry, probe}
MCDeploymentOf == [s \in MCSpecs |-> IF s = probe THEN beta ELSE alpha]
MCPreferred == [s \in MCSpecs |-> 1]
MCSecretOf == [s \in MCSpecs |-> IF s = probe THEN NoSecret ELSE key]
AllCommands == [deployment : MCDeployments, dry : BOOLEAN]
FewCommands == AllCommands \ {[deployment |-> alpha, dry |-> TRUE]}

Calm == [overlap |-> FALSE, noisy |-> FALSE, deaths |-> FALSE, unreadable |-> FALSE,
         checked |-> FALSE, hostPorts |-> {}, runs |-> 2]
CalmOnly == {Calm}
CrashesOnly == {[Calm EXCEPT !.deaths = TRUE]}
Mixed == {[Calm EXCEPT !.noisy = TRUE, !.hostPorts = {2}],
          [Calm EXCEPT !.overlap = TRUE, !.checked = TRUE],
          [Calm EXCEPT !.deaths = TRUE, !.hostPorts = {1}],
          [Calm EXCEPT !.deaths = TRUE, !.unreadable = TRUE],
          [Calm EXCEPT !.deaths = TRUE, !.runs = 3]}
=============================================================================
