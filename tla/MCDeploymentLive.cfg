CONSTANTS
    Service = {s1}
    MaxJobs = 2
    Request = {r1}
    LaunchMode = {"server"}
    MaxRestarts = 0
SPECIFICATION FairSpec
PROPERTIES
    EveryDeploymentEnds
CHECK_DEADLOCK FALSE
