SPECIFICATION Spec
CONSTANTS
    Slots = {s1, s2}
    Unset = Unset
    Gone = Gone
    NoPattern = NoPattern
    Clients = {c1}
    Mailboxes = {m1, m2}
    Listeners = {l1, l2}
    QueueSize = 1
    MaxEvents = 3
    MaxOpens = 2
    Page = 2
    MaxMsgs = 3
    MaxFaults = 2
    Worlds <- MCWorlds
    Submitted <- MCSubmitted
    DomainOf <- MCDomainOf
    Accepting = {"A"}
    Existing = {"b1", "a2"}
    Estimate <- MCEstimate
    DomainSlots = 2
    AddressSlots = 2
    TargetRate = 50
    Users = {"u1", "u2"}
    Notifications <- MCNotifications
    MinObservations = 2
    Known <- MCKnown
    Reports <- MCReports
    MaxMail = 3
    Unlisted = {2}
    RuleIds = {r1, r2}
    Owners = {"u1", "u2"}
    Shapes <- MCShapes
    Existent <- MCExistent
    Changes <- MCChanges
    MaxRefusals = 1
    Requested <- MCRequested
INVARIANTS
    EventsDelivered
    VerdictsSupported
    BatchFaithful
    SuppressedWhenDue
    MailKept
    ForwardingComplete
PROPERTY
    BouncesRead
CHECK_DEADLOCK FALSE
