\* One job, one lost response or crash.
CONSTANTS
    Jobs = {j1}
    Names = {"a/b-c"}
    Titles <- MCTitles
    TitleOf <- MCTitleOf
    VolumeRequests = {"no", "sized"}
    Volumes = {v1}
    Servers = {m1}
    None = None
    MaxFaults = 1
    MaxDeletes = 0
    ScanEnabled = FALSE
SPECIFICATION FairSpec
PROPERTIES
    EventuallyArchived
