SPECIFICATION FairSpec
CONSTANTS
    NodeTypes = {"ethereum"}
    MaxPeers = 1
    MaxBlock <- MCMaxBlock
    NodeStates <- MCNodeStates
    NoStatus = NoStatus
INVARIANTS SyncingGaugeTruthful
