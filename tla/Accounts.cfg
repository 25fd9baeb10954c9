CONSTANTS
    Logins = {a, b}
    Uids = {0, 1}
    SelfUid = 1
    Values = {v, w}
    Passwords = {p}
    Objects = {o1, o2, o3}
    MaxChanges = 2
    Null = Null
SPECIFICATION Spec
INVARIANTS TypeOK SelfCurrent
PROPERTY AccountKept
