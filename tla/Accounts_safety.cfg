\* Two requests at a time on one address, which two rows may have in turn;
\* every handler, a purge one tick after the deletion.
CONSTANTS
    Users = {u1, u2}
    Sessions = {s1, s2}
    Tokens = {t1, t2}
    Requests = {r1, r2}
    Importers = {}
    MaxVersion = 4
    Grace = 0
    Handlers = {"register", "google", "signin", "logout", "activate", "resend",
                "forgot", "reset", "change", "delete", "update", "expiry"}
    NoUser = NoUser
    NoSession = NoSession
SPECIFICATION Spec
SYMMETRY IdSymmetry
CHECK_DEADLOCK FALSE
INVARIANTS
    GrantsFollowVerification
    PasswordChangeCutsOff
    GooglePasswordless
PROPERTIES
    EmailStaysVerified
    EditsKept
    EditsOnlyLiveAccounts
