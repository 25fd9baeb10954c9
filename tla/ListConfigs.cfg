CONSTANTS
    Names = {"/a", "b"}
    Absolute = {"/a"}
    Texts = {"b"}
    MaxLength = 2
    Users = {"u"}
    Passwords = {"p", "q"}
    MaxChanges = 2
    Null = Null
SPECIFICATION Spec
INVARIANT TypeOK
PROPERTY KeepsPromise
CHECK_DEADLOCK FALSE
