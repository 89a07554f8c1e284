\* Calls of both kinds; up to three password checks at once.
CONSTANTS
    Clients = {c1, c2, c3}
    Limit = 2
    Window = 2
    Horizon = 7
SPECIFICATION Spec
CHECK_DEADLOCK FALSE
INVARIANTS
    BurstBound
    GuessBound
PROPERTIES
    FullStaysFull
    ImplementsFixedWindow
