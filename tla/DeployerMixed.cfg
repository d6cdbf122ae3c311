SPECIFICATION FairSpec
CONSTANTS
    alpha = alpha
    beta = beta
    node = node
    sentry = sentry
    probe = probe
    key = key
    Deployments <- MCDeployments
    MaxInvocations = 3
    Specs <- MCSpecs
    DeploymentOf <- MCDeploymentOf
    Preferred <- MCPreferred
    SecretOf <- MCSecretOf
    Secrets = {key}
    NoSecret = NoSecret
    MaxPort = 4
    Commands <- FewCommands
    NoCommand = NoCommand
    NoPort = NoPort
    Absent = Absent
    Torn = Torn
    Unread = Unread
    Unplanned = Unplanned
    NoSpec = NoSpec
    Settings <- Mixed
INVARIANTS TypeOK PlanPortsDistinct HostPortsDisjoint ConfigIsSecret PlansOnKnownPorts KeyStable
PROPERTIES StartsWhatItPlanned Terminates
CHECK_DEADLOCK FALSE
