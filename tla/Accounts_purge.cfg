CONSTANTS
    Users = {u1}
    Sessions = {s1, s2}
    Tokens = {t1}
    Requests = {r1}
    Importers = {u1}
    MaxVersion = 4
    Grace = 1
    Handlers = {"register", "signin", "delete"}
    NoUser = NoUser
    NoSession = NoSession
SPECIFICATION PurgeSpec
CHECK_DEADLOCK FALSE
PROPERTY
    DeletedAreRemoved
