CONSTANTS
    Locals = {a}
    Foreign = {f}
    Names = {g, h}
    Overtaking = FALSE
    Copies = 2
    MaxLeaked = 2
    NoGid = NoGid
    Null = Null
    Dangling = Dangling
SPECIFICATION Spec
INVARIANTS TypeOK CacheExact NoGhostMember DefaultAlive
PROPERTY ForeignKept
