SPECIFICATION Spec
CONSTANTS
    a = a
    b = b
    c = c
    Recipients = {a, b, c}
    Domains = {{a}, {b, c}}
    SampleSize = 2
    Risks = {1, 2}
    Percent = 0
    AutoRelease = TRUE
    Batch = 1
    MaxMishaps = 1
    Accounts = {a1}
    Providers = {p1}
    ProviderOf <- OneProvider
    Gap = 2
    Base = 1
    Unit = 1
    MaxCool = 2
    Lease = 1
    MinDelay = 1
    MaxDelay = 1
    LongWait = 2
    StartVolume = 1
    Ramp = 1
    MaxVolume = 2
    MaxAge = 1
    MaxFails = 2
    MaxDsn = 1
    MaxUpsets = 1
INVARIANT StagedByRisk
INVARIANT RecordsFollowMail
CHECK_DEADLOCK FALSE
INVARIANT HaltTakesEffect
PROPERTY PaceKept
INVARIANT NeverStranded
PROPERTY AdvancesOnItsOwn
