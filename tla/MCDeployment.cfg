CONSTANTS
    Service = {s1}
    MaxJobs = 2
    Request = {r1, r2}
    LaunchMode = {"server"}
    MaxRestarts = 1
SPECIFICATION Spec
ACTION_CONSTRAINT FaultsApart
INVARIANTS
    RowsAreSound
    RunningIsNewestSuccess
    ContainerNameFree
    CaddyCurrentWhenQuiet
PROPERTIES
    OutcomeIsFinal
SYMMETRY RequestSymmetry
CHECK_DEADLOCK FALSE
