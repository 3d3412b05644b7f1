SPECIFICATION Spec
CONSTANTS
    w1 = w1
    w2 = w2
    Workers <- TwoWorkers
    Sources = {1, 2}
    QuestionSources = {2}
    MaxVersions = 1
    MaxJobs = 2
    MaxChanges = 0
    MaxCrashes = 0
    MaxStalls = 1
SYMMETRY WorkerSymmetry
PROPERTY PublishesOnce
CHECK_DEADLOCK FALSE
