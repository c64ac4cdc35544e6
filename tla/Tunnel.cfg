SPECIFICATION TunnelSpec
CONSTANTS
    Off = Off
    Keys = {k1, k2}
    Conns = {1, 2, 3}
    PerClient = 0
    MaxEdits = 1
    MaxRcpts = 2
    MaxBody = 2
    RcptLists <- SomeRcpts
    Bodies <- SomeBodies
    MaxMessages = 2
    NumRcpts = 2
    Racers = {t1, t2}
    NumMx = 2
    NumControls = 2
    NullSender = FALSE
    Kinds = {"validating", "accept_all", "throttling"}
    ThrottleAfter = 2
    HostRefusals <- PolicyTexts
    Rcpts = {r1, r2}
    Tunnels = {t1, t2}
    DomainOf <- SameDomain
    MxCount = 2
    Policy = "retry"
    MaxRequests = 2
    MaxCrashes = 1
INVARIANTS
    DeliveryTruthful
    ProbeTruthful
PROPERTIES
    EdgeServes
    SubmissionFaithful
CHECK_DEADLOCK FALSE
INVARIANT SentWasDelivered
PROPERTY AttemptsJustified
PROPERTY ImplementsAtLeastOnce
PROPERTY SubmissionAnswered
