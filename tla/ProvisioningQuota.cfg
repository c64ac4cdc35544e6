SPECIFICATION Spec
CONSTANTS
    Slots = {s1, s2}
    Boxes = {"b1", "b2", "b3"}
    Domains = {"d1", "d2"}
    DomainOf <- MCDomainOf
    Admin = "admin"
    Users = {"admin", "user"}
    MaxMailboxes = 1
    Free = Free
    Aliases = {"a1", "a2"}
    Tunnels = {"t1", "t2"}
    MaxRevision = 2
    Owners = {"u1", "u2"}
    Prints = {"f1", "f2"}
    Relays = {"r1"}
    SpfRecords <- MCSpfRecords
    Budget <- MCBudget
    MaxRestarts = 1
SYMMETRY Symmetry
CHECK_DEADLOCK FALSE
INVARIANT QuotaCoversAll
