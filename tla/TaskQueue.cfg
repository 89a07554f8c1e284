\* Two worker processes, a task every handler accepts and one none accepts,
\* with every disruption.
CONSTANTS
    Procs = {p1, p2}
    Tasks = {mail, junk}
    Unhandled = {junk}
    MaxAttempts = 2
    Disruptions = {"shutdown", "timeout", "crash", "db"}
    NoTask = NoTask
SPECIFICATION FairSpec
INVARIANTS
    ExclusiveClaim
    StrandedOnlyByInterruption
PROPERTIES
    BackoffRespected
    ImplementsRetryQueue
    EveryTaskSettles
    ShutdownCompletes
