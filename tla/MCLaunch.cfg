CONSTANTS
    Calls <- MCCalls
    RF_C <- MCRF_C
    Leftover <- MCLeftover
    Garbage <- MCGarbage
    Blocking <- MCBlocking
    ResourceLimits <- MCLimits
    Unset = Unset
    SECOND = 2
    PAGESIZE = 4096
    Tests = 2
    MaxTime = 2
    MaxFaults = 3
    MaxCounted = 2
SPECIFICATION FairSpec
INVARIANTS NoForbiddenCall CondemnedWithCause LimitsDecideFirst 
PROPERTIES LaunchReturns ProgramEnds
\* After the last test case, or when NOJ has crashed, there is nothing left to do.
CHECK_DEADLOCK FALSE
