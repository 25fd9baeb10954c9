CONSTANTS
    Connected = TRUE
    Replies = {"ok", "error"}
    MaxCalls = 2
    MaxRequests = 2
    MaxNest = 1
SPECIFICATION FairSpec
INVARIANTS TypeOK RequestCount PendingExact NoRequestOutlives NoStaleIdle WalkComplete EnsureWorks
PROPERTIES KeepsPromise FuncRuns
