CONSTANTS
    UpdRuns = 1
    UpdRestarts = 0
    UpdLost = 0
    UpdAnswers = 1
SPECIFICATION UpdSpec
INVARIANTS
    ShownCompleteIsComplete
CHECK_DEADLOCK FALSE
