SPECIFICATION LiveSpec
CONSTANTS
    NoTunnel = NoTunnel
    IdleCap = 3
    Threshold = 2
    CounterMax = 2
    MaxFaults = 2
    Workers = {w1, w2}
    Tunnels = {t1}
    Views <- OneTunnelViews
INVARIANT TypeOK
INVARIANT HealthFollowsStreak
INVARIANT InflightNeverOverstated
PROPERTY PoolConverges
