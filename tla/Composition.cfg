SPECIFICATION FairSpec
CONSTANTS
    Inputs <- AllInputs
    Longer <- LongerNames
    MaxUps = 2
INVARIANTS
    TypeOK
    CatalogConverts
    RefsReachable
    SidecarWatchesItsCarrier
    NothingOverwritten
    BindsHoldContent
PROPERTIES
    StartsProvisioned
    EverythingStarts
CHECK_DEADLOCK FALSE
