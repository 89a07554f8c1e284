\* Two processes and an admin request, through two days of three hours.
CONSTANTS
    Procs = {p1, p2}
    Admins = {a1}
    Users = {u1}
    LastDay = 1
    LastHour = 2
    DailyHour = 1
    SweepHours = {0, 2}
    Faults = {"db", "crash", "slow"}
SPECIFICATION Spec
SYMMETRY ProcSymmetry
CHECK_DEADLOCK FALSE
INVARIANTS
    RemindedOnce
    EveryoneReminded
    NoMissedSweep
PROPERTIES
    SweepOncePerHour
