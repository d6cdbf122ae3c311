SPECIFICATION Spec
CONSTANTS
    c1 = c1
    c2 = c2
    MaxPort = 3
    Callers <- MCCallers
    HostPorts <- MCHostPorts
    Builds = {TRUE}
    MaxCalls = 2
    NoPort = NoPort
    NoCaller = NoCaller
INVARIANTS NeverPanics
