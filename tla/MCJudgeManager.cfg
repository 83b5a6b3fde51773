CONSTANTS
    s1 = s1
    s2 = s2
    s3 = s3
    p1 = p1
    p2 = p2
    Workers = {w1, w2, w3}
    Main = main
    Submissions = {s1, s2, s3}
    Problems = {p1, p2}
    Connections = {c1, c2}
    ProblemOf <- MCProblemOf
    LanguageOf <- MCLanguageOf
    NoOne = NoOne
    NULL = NULL
SPECIFICATION Spec
SYMMETRY Symmetry
INVARIANTS JudgeAtHand PermitsConserved ConnectionAtHand InOnePlace
PROPERTIES WorkDirsExclusive ProblemLoadedOnce
