CONSTANTS
    Service = {s1}
    MaxJobs = 2
    Request = {r1, r2}
    LaunchMode = {"server"}
    MaxRestarts = 0
SPECIFICATION Spec
INVARIANTS
    InactiveHasNoContainer
SYMMETRY RequestSymmetry
CHECK_DEADLOCK FALSE
