SPECIFICATION Spec
CONSTANTS
    Users = {}
    Roles = {r1}
    DefaultRole = r1
    Authorities = {a1, a2}
    Parent <- OneChild
    Browsers = {}
    MaxChanges = 3
    None = None
INVARIANT
    NoOrphanAuthority
CHECK_DEADLOCK FALSE
