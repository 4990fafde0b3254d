CONSTANTS
    Client = client
    Driver = driver
    Stoppers = {stopper}
    Processes = {client, driver, stopper}
    Absent = absent
    Earlier = earlier
    LeftBehind <- EarlierSnapshots
    SlowHolders = TRUE
    WritesFail = TRUE
    QueueLength = 2
    MaxIterations = 1
SPECIFICATION Spec
INVARIANTS
    SerialUnlessRobbed
    CompletedIsEarned
    RecordsEveryResult
PROPERTIES
    OutcomeIsWriteOnce
    InterruptEndsRun
CHECK_DEADLOCK FALSE
