SPECIFICATION RetrySpec
CONSTANTS
    NoTunnel = NoTunnel
    IdleCap = 1
    Threshold = 2
    CounterMax = 2
    MaxFaults = 1
    Workers = {w1}
    Tunnels = {t1}
    Views <- FixedView
PROPERTY RecoversAfterOutage
