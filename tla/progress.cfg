\* One job with no fault and no DELETE, the provider refusing any number of calls.
CONSTANTS
    Jobs = {j1}
    Names = {"a/b-c"}
    Titles <- MCTitles
    TitleOf <- MCTitleOf
    VolumeRequests = {"no", "unsized", "sized"}
    Volumes = {v1, v2}
    Servers = {m1, m2}
    None = None
    MaxFaults = 0
    MaxDeletes = 0
    ScanEnabled = FALSE
SPECIFICATION FairSpec
INVARIANTS
    ViewsAgree
PROPERTIES
    Implements
    EventuallyArchived
    OutcomeStands
