SPECIFICATION Spec
CONSTANTS
    Users = {u1}
    Roles = {r1}
    DefaultRole = r1
    Authorities = {a1}
    Parent <- NoParents
    Browsers = {b1, b2}
    MaxChanges = 3
    None = None
INVARIANTS
    TypeOK
    FreshRights
    SessionHasCopy
SYMMETRY Symmetry
CHECK_DEADLOCK FALSE
