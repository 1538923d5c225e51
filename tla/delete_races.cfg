\* A DELETE request beside the tick.
CONSTANTS
    Jobs = {j1}
    Names = {"a/b-c"}
    Titles <- MCTitles
    TitleOf <- MCTitleOf
    VolumeRequests = {"no", "sized"}
    Volumes = {v1}
    Servers = {m1}
    None = None
    MaxFaults = 0
    MaxDeletes = 1
    ScanEnabled = FALSE
SPECIFICATION Spec
PROPERTIES
    OutcomeStands
