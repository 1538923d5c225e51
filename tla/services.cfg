\* Each of the services beside the reconciler, by itself.  All may stop: the process
\* exits for good, a job is over, the bounds are used up.
SPECIFICATION Spec
CONSTANTS
    None = None
    Configs <- MCConfigs
    Columns <- MCColumns
    Containers <- MCContainers
    InitSecrets <- MCInitSecrets
    Patches <- MCPatches
    ContainerLogs <- MCContainerLogs
    Requests <- MCRequests
    Catalogs <- MCCatalogs
    PriceLists <- MCPriceLists
    ExchangeRates <- MCExchangeRates
    Specs <- MCSpecs
    Jobs = {j1, j2}
    Addresses = {a1}
    MaxStarts = 2
    MaxFailures = 1
    MaxPasses = 1
    MaxChanges = 1
    MaxAttempts = 3
    MaxHours = 3
    MaxSyncs = 4
INVARIANTS
    TypeOK
    SafeExit
    PricedBeforeServing
    StartsComplete
    OneReading
    NonRootHonoured
    OneLog
    ServedIsOwn
    CheapestCharged
    EstimateBounds
    StaysInReport
PROPERTIES
    ShutdownCompletes
    ChangesSeen
    SamplesForgotten
CHECK_DEADLOCK FALSE
