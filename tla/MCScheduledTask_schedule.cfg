CONSTANTS
    t1 = t1
    Task = {t1}
    Cron = {t1}
    Forbid = {t1}
    Dispatcher = {d1, d2}
    Request = {q}
    Execution <- MCExecution
    Runner = {r1}
    None = None
    Attempts = 2
    MaxTime = 1
    MaxEvents = 2
    Happens <- MCHappens
SPECIFICATION FairSpec
INVARIANTS
    TypeOK
    OncePerOccurrence
PROPERTIES
    CancelledIsNotCalled
    ExecutionsEnd
CHECK_DEADLOCK FALSE
