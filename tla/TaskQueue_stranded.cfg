\* A graceful shutdown at the wrong moment leaves a row processing for ever.
CONSTANTS
    Procs = {p1}
    Tasks = {mail}
    Unhandled = {}
    MaxAttempts = 3
    Disruptions = {"shutdown"}
    NoTask = NoTask
SPECIFICATION FairSpec
PROPERTY FailedTaskRetried
