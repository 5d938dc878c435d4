CONSTANTS
    Service = {s1}
    MaxJobs = 1
    Request = {r1}
    LaunchMode = {"static"}
    MaxRestarts = 0
SPECIFICATION Spec
INVARIANTS
    ActivatedStaticServes
CHECK_DEADLOCK FALSE
