\* A job is deleted and created again under the same name.
CONSTANTS
    Jobs = {j1, j2}
    Names = {"a/b-c"}
    Titles <- MCTitles
    TitleOf <- MCTitleOf
    VolumeRequests = {"no"}
    Volumes = {v1}
    Servers = {m1}
    None = None
    MaxFaults = 0
    MaxDeletes = 1
    ScanEnabled = FALSE
SPECIFICATION Spec
SYMMETRY Symmetry
INVARIANTS
    EarnedSuccess
