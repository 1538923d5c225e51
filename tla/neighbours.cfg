\* Two jobs at once, with or without the same name, and a fault.
CONSTANTS
    Jobs = {j1, j2}
    Names = {"a/b-c", "a-b/c", "x/y"}
    Titles <- MCTitles
    TitleOf <- MCTitleOf
    VolumeRequests = {"sized"}
    Volumes = {v1}
    Servers = {m1}
    None = None
    MaxFaults = 1
    MaxDeletes = 0
    ScanEnabled = FALSE
SPECIFICATION Spec
SYMMETRY Symmetry
INVARIANTS
    NoSharing
    SshReachesOwnWorker
