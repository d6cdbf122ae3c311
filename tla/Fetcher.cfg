CONSTANTS
    Subscribers = {"s1"}
    Capacity = 2
    Versions = {"good", "other"}
    Good = "good"
    Size = 4
    Entries <- MCEntries
    Pipe = 2
    MaxRuns = 2
SPECIFICATION FairSpec
INVARIANTS TypeOK NothingLostOnTheWay CheckedSuccess UncheckedSuccess
           OnlyGoodUnpacked ProgressOnlyGrows FinishedMeansWritten
PROPERTIES GoodFileIsKept RunsEnd
CHECK_DEADLOCK FALSE
