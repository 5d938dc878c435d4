CONSTANTS
    Service = {s1, s2, s3}
    MaxJobs = 6
    UpdRuns = 2
    UpdRestarts = 1
    UpdLost = 1
    UpdAnswers = 1
    PgButtons = {"deploy", "toggle"}
    PgDeployments = 2
    PgMoves = 2
    PgFaults = 1
SPECIFICATION MCSpec
INVARIANTS
    UpdateIsTold
    PageIsSound
PROPERTIES
    ImplementsLanes
    EveryJobRuns
    PollingEnds
    PolledLogsSettle
CHECK_DEADLOCK FALSE
