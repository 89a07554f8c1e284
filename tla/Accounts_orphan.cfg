CONSTANTS
    Users = {u1}
    Sessions = {s1, s2}
    Tokens = {t1}
    Requests = {r1, r2}
    Importers = {}
    MaxVersion = 4
    Grace = 0
    Handlers = {"register", "signin", "delete"}
    NoUser = NoUser
    NoSession = NoSession
SPECIFICATION Spec
CHECK_DEADLOCK FALSE
INVARIANT
    NoSessionOfDeletedUser
