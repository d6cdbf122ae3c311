SPECIFICATION FairSpec
CONSTANTS
    NodeTypes = {"cosmos"}
    MaxPeers = 1
    MaxBlock <- MCMaxBlock
    NodeStates <- MCNodeStates
    NoStatus = NoStatus
PROPERTIES DeadNodeNotHealthy
