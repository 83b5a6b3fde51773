CONSTANTS
    right = right
    half = half
    rejected = rejected
    Submissions <- MCSubmissions
    Compilable <- MCCompilable
    Outputs <- MCOutputs
    Expected <- MCExpected
    Prints <- MCPrints
    MaxTests = 3
    Absent = Absent
    MaxFailures = 2
SPECIFICATION Spec
INVARIANTS RunsOwnProgram AcceptIsEarned RightIsAccepted
\* Every submission is judged once.
CHECK_DEADLOCK FALSE
