CONSTANTS
    Locals = {a}
    Foreign = {f}
    Names = {g, h}
    Overtaking = TRUE
    Copies = 2
    MaxLeaked = 2
    NoGid = NoGid
    Null = Null
    Dangling = Dangling
SPECIFICATION Spec
INVARIANT NoGhostMember
