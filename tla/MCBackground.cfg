SPECIFICATION Spec
CONSTANTS
    p1 = p1
    p2 = p2
    a1 = a1
    a2 = a2
    None = None
    Jobs <- MCJobs
    Workers <- MCWorkers
    Replicas <- MCReplicas
    Host <- MCHost
    Archives <- MCArchives
    MaxEntries = 3
    Stale = 0
    Hours = 1
    Docs <- MCDocs
    Rows <- MCRows
    Alike <- MCAlike
    Scanners <- MCReplicas
    Agents <- MCAgents
    Admins <- MCAdmins
    At <- MCAt
    Patches <- MCPatches
    MaxWrites = 2
    MaxFaults = 1
    Parts <- MCParts
INVARIANTS
    TypeOK
    RunOnce
    Accounted
    OnePending
    NoDangling
    AppliesLive
    ServesValid
    SparesLive
PROPERTIES
    FinalStays
    StaysDismissed
    Drained
    CatchesUp
CHECK_DEADLOCK FALSE
