SPECIFICATION FairSpec
CONSTANTS
    CronJobs = {c1, c2}
    CronNames = {n}
    Clients = {q1, q2}
    Schedules = {"s"}
    Fires <- MCFires
    Deadlines = {1}
    Unset = Unset
    SpecsSent <- MCSpecsSent
    PatchesSent <- MCPatchesSent
    MaxTime = 4
    MaxRequests = 3
    MaxRunDeletes = 1
    MaxMishaps = 1
INVARIANTS
    TypeOK
    ForbidHolds
PROPERTIES
    RunsOnce
    RunsAreDue
    InstantsRun
