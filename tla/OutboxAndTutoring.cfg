SPECIFICATION BothSpec
CONSTANTS
    Events = {e1, e2}
    Daemons = {d1, d2}
    Flushers = {f1}
    Splitting = {e2}
    NoWorker = NoWorker
    NoClaim = NoClaim
    Batch = 2
    MaxRetries = 2
    MaxClaims = 5
    Faults = 2
    MaxRequest = 3
    Need <- Needs
    Threads = {t1, t2}
    PolicyMode = "active"
    NoExecution = NoExecution
    MaxFaults = 1
INVARIANT TypeOK
INVARIANT TutoringTypeOK
INVARIANT EveryTurnSafe
INVARIANT PolicyBound
PROPERTY ClaimRespected
PROPERTY DeliveredOnce
PROPERTY EventsSettle
PROPERTY SessionSettles
CHECK_DEADLOCK FALSE
