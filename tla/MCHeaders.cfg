CONSTANTS
    MAX_INT = 268435456
    INITIAL_TARGET = 16777215
    MAX_FUTURE_SECONDS = 2
    RETARGET_INTERVAL = 2
    TARGET_SPACING = 2
    BITCOIN_CASH_RETARGET_ALGORITHM_HEIGHT = 2
    RETARGET_SMA_WINDOW = 2
    NUM_COUNTS_FOR_MEDIAN_TMESTAMP = 3
    Steps <- MCSteps
    MaxHeight = 6
    MaxBranches = 2
    MaxTime = 12
SPECIFICATION Spec
CHECK_DEADLOCK FALSE
INVARIANTS
    AdjustmentIsBounded
    MedianGrows
