SPECIFICATION Spec
CONSTANTS
    Callers = {c1, c2}
    Contents = {k1, k2}
    Seeds = {s1, s2, s3}
    ValidSeeds = {s1, s2}
    Reviews = {r1}
    Batches = 2
    Settings <- Configurations
    MaxCourses = 2
    MaxKills = 1
    Nothing = Nothing
    Migrators = {m1, m2}
    RowCount = 3
    Parent <- SecondRefersToFirst
    Versions = {1, 2}
    Absent = Absent
    MaxRuns = 3
    MaxDeaths = 1
    MaxWrites = 1
    Vendors = {"sqlite", "postgresql"}
    ca = ca
    cb = cb
    a1 = a1
    a2 = a2
    Classes = {ca, cb}
    Attempts = {a1, a2}
    ClassOf <- OnePerClass
    Uploads = {u1}
    Stuck = {a1}
    PurgeOrder <- StoreOrder
    BatchLimit = 2
    MaxSubmits = 2
    MaxRosterCalls = 2
    MaxErasureFaults = 1
CHECK_DEADLOCK FALSE
PROPERTY ReadyIndexImmutable
