\* A mail and a farewell to one address, an event, two workers, every fault.
CONSTANTS
    Mails = {m1, m2}
    Farewells = {m2}
    Events = {e1}
    Pollers = {p1}
    Workers = {w1, w2}
    MaxReceives = 2
    MaxAttempts = 2
    Faults = {"db", "mail", "sqs", "crash"}
    MaxFaults = 2
    Nothing = Nothing
SPECIFICATION FairSpec
CHECK_DEADLOCK FALSE
INVARIANTS
    LateMailsBounded
    NoEventLost
    SuppressedForCause
PROPERTIES
    EventTakesEffect
