CONSTANTS
    Connected = TRUE
    Replies = {"ok", "error"}
    MaxCalls = 3
    MaxRequests = 1
    MaxNest = 1
SPECIFICATION Spec
INVARIANT BlocksUntilDone
