SPECIFICATION Spec
CONSTANTS
    w1 = w1
    w2 = w2
    Workers <- OneWorker
    Sources = {1, 2}
    QuestionSources = {2}
    MaxVersions = 2
    MaxJobs = 2
    MaxChanges = 1
    MaxCrashes = 1
    MaxStalls = 0
INVARIANT TypeOK
PROPERTY SettledJobsKept
PROPERTY NothingDropped
PROPERTY JobsSettle
CHECK_DEADLOCK FALSE
