SPECIFICATION TickingSpec
CONSTANTS
    a = a
    b = b
    Recipients = {a, b}
    Domains = {{a}, {b}}
    SampleSize = 1
    Risks = {1, 2}
    Percent = 0
    AutoRelease = TRUE
    Batch = 1
    MaxMishaps = 0
PROPERTY AdvancesOnItsOwn
CHECK_DEADLOCK FALSE
