CONSTANTS
    Workers = {w1, w2}
    Calls <- MCCalls
    LowCalls <- MCLowCalls
    RF_C <- MCRF_C
    NULL = NULL
    Junk = Junk
    MaxLaunches = 2
    MaxOutputs = 2
SYMMETRY Symmetry
SPECIFICATION Spec
INVARIANTS WrongLimitsNeedARace WrongDirNeedsARace OutputsApart
\* After the last launch there is nothing left to do.
CHECK_DEADLOCK FALSE
