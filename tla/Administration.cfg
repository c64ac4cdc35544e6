SPECIFICATION AdministrationSpec
CONSTANTS
    Slots = {s1, s2}
    Boxes = {"b1", "b2"}
    Domains = {"d1", "d2"}
    DomainOf <- MCDomainOf
    Admin = "admin"
    Users = {"admin", "user"}
    MaxMailboxes = 1
    Free = Free
    Aliases = {"a1", "a2"}
    Tunnels = {"t1", "t2"}
    MaxRevision = 2
    Owners = {"u1", "u2"}
    Prints = {"f1", "f2"}
    Relays = {"r1"}
    SpfRecords <- MCSpfRecords
    Budget <- MCBudget
    MaxRestarts = 1
    People = {a, b}
    Handlers = {s1, s2}
    Keys = {k1, k2}
    Scopes = {"keys", "send"}
    Inboxes = {m1, m2}
    MaxAttempts = 2
    MaxRequests = 4
    MaxVersion = 3
SYMMETRY Symmetries
CHECK_DEADLOCK FALSE
INVARIANTS
    MailboxesConsistent
    FilesCurrent
    KeysSound
    VerifiedMeansValid
 
INVARIANT GrantsContained
INVARIANT AdminRemains
