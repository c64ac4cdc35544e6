SPECIFICATION DeliverySpec
CONSTANTS
    Rcpts = {r1, r2}
    Tunnels = {t1, t2}
    DomainOf <- SameDomain
    MxCount = 1
    Policy = "accept_partial"
    MaxRequests = 1
    MaxCrashes = 0
INVARIANT AcceptedHasDelivery
CHECK_DEADLOCK FALSE
