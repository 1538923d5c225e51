\* One job through crashes, lost responses and DELETE requests.
CONSTANTS
    Jobs = {j1}
    Names = {"a/b-c"}
    Titles <- MCTitles
    TitleOf <- MCTitleOf
    VolumeRequests = {"no", "unsized", "sized"}
    Volumes = {v1, v2}
    Servers = {m1, m2}
    None = None
    MaxFaults = 2
    MaxDeletes = 2
    ScanEnabled = FALSE
SPECIFICATION Spec
SYMMETRY CloudSymmetry
INVARIANTS
    TypeOK
    SnapshotCoherent
    CleanupComplete
    RunsProvisioned
    EarnedSuccess
    DryRunTouchesNothing
PROPERTIES
    NothingAttachedAtDelete
