SPECIFICATION AccountsSpec
CONSTANTS
    People = {a}
    Handlers = {h1, h2}
    Keys = {k1, k2}
    Scopes = {"keys", "send"}
    Inboxes = {m1, m2}
    MaxAttempts = 2
    MaxRequests = 2
    MaxVersion = 2
CHECK_DEADLOCK FALSE
INVARIANT PasswordsRevoke
SYMMETRY AccountSymmetry
