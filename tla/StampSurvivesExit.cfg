CONSTANTS
    Client = client
    Driver = driver
    Stoppers = {}
    Processes = {client, driver}
    Absent = absent
    Earlier = earlier
    LeftBehind = {}
    SlowHolders = FALSE
    WritesFail = FALSE
    QueueLength = 2
    MaxIterations = 1
SPECIFICATION Spec
INVARIANT
    StampSurvivesExit
CHECK_DEADLOCK FALSE
