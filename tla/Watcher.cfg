SPECIFICATION Spec
CONSTANTS
    Deployments <- MCDeployments
    Services <- MCServices
    Containers <- MCContainers
    Names <- MCNames
    StartsWith <- MCStartsWith
    ExitCodes = {0, 1}
    NoCode = NoCode
    Pending = Pending
    Running = Running
    None = None
    Empty = Empty
    MaxEvents = 3
    MaxRuns = 2
INVARIANTS TypeOK CaughtUp
PROPERTIES BoardSpec EventsAreHandled
CHECK_DEADLOCK FALSE
