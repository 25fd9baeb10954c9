CONSTANTS
    Connected = TRUE
    Replies = {"ok", "error"}
    MaxCalls = 2
    MaxRequests = 2
    MaxNest = 1
SPECIFICATION Spec
INVARIANT CountMeansPending
