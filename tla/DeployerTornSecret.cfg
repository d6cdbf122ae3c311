SPECIFICATION Spec
CONSTANTS
    alpha = alpha
    beta = beta
    node = node
    sentry = sentry
    probe = probe
    key = key
    Deployments <- MCDeployments
    MaxInvocations = 2
    Specs <- MCSpecs
    DeploymentOf <- MCDeploymentOf
    Preferred <- MCPreferred
    SecretOf <- MCSecretOf
    Secrets = {key}
    NoSecret = NoSecret
    MaxPort = 4
    Commands <- AllCommands
    NoCommand = NoCommand
    NoPort = NoPort
    Absent = Absent
    Torn = Torn
    Unread = Unread
    Unplanned = Unplanned
    NoSpec = NoSpec
    Settings <- CrashesOnly
INVARIANTS InlinesContent
CHECK_DEADLOCK FALSE
