SPECIFICATION Spec
CONSTANTS
    Slots = {s1, s2}
    Messages = {"m1", "m2"}
    Score <- MCScore
    Policies = {p1, p2}
    Schedules = {c1, c2}
    MaxRuns = 1
    None = None
    Gone = Gone
    SpfDepth = 2
    LookupLimit = 10
    Evidence <- MCEvidence
    Samples <- MCSamples
    Network <- MCNetwork
    Worlds <- MCWorlds
    ReportRequests = 4
    PolicyRequests = 4
    ScheduleRequests = 4
    Edits = 2
INVARIANTS
    ScoresFair
    NetworkClaimsSound
    RecordsConsistent
PROPERTY
    DueGetsItsTurn
CHECK_DEADLOCK FALSE
