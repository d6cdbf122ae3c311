SPECIFICATION FairSpec
CONSTANTS
    NodeTypes = {"ethereum", "ethereum_beacon", "cosmos"}
    MaxPeers = 1
    MaxBlock <- MCMaxBlock
    NodeStates <- MCNodeStates
    NoStatus = NoStatus
INVARIANTS TypeOK MetricsMatchCache
PROPERTIES ViewSpec SettlesReady SettlesNotReady
