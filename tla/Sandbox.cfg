SPECIFICATION Spec
CONSTANTS
    Scenarios <- MCScenarios
    Rows = {1, 2}
    Slots = {1, 2}
    Pool <- MCPool
    AreaOf <- MCAreaOf
    CallRows = {1}
    Documents <- MCDocuments
    MaxFollows = 1
    EndpointRows = {1, 2, 3}
    Peers = {"x"}
    Urls = {"u"}
    MaxRetries = 2
    Page = 1
    MaxRestarts = 1
INVARIANTS
    CallsOrdered
PROPERTIES
    NumbersFaithful
    MessagesFaithful
    SandboxSettles
CHECK_DEADLOCK FALSE
