CONSTANTS
    Workers = {w1, w2}
    PIPE_CAPACITY = 2
    MaxOutput = 3
    MaxDescriptors = 5
SPECIFICATION FairSpec
INVARIANTS DiagnosticsWhole
PROPERTIES CompileReturns
\* Two workers whose compilers fill their pipes wait for good.
CHECK_DEADLOCK FALSE
