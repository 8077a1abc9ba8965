SPECIFICATION FairSpec
CONSTANTS
    Handlers = {h1, h2}
\* The process ends.
CHECK_DEADLOCK FALSE
INVARIANTS
    TypeOK
    GracefulMeansComplete
    FailureHasCause
    NothingLeftOpen
    NoNilClient
    HandlersKeepConnections
    CheckStopsFirst
    HandlersHaveClients
    ServedOnlyWhenMonitored
PROPERTIES
    StopsWhenAsked
