\* The orphan scan beside one job, with a fault and a DELETE.
CONSTANTS
    Jobs = {j1}
    Names = {"a/b-c"}
    Titles <- MCTitles
    TitleOf <- MCTitleOf
    VolumeRequests = {"sized"}
    Volumes = {v1}
    Servers = {m1}
    None = None
    MaxFaults = 1
    MaxDeletes = 1
    ScanEnabled = TRUE
SPECIFICATION FairScanSpec
PROPERTIES
    OrphansReclaimed
