CONSTANTS
    ConfigFiles <- MCFiles
    Workers <- MCWorkers
    main = main
    w1 = w1
    w2 = w2
    NoOne = NoOne
    Missing = Missing
    WORD = 8
SPECIFICATION FairSpec
INVARIANTS NumbersAreOwn SoundUntilExit
PROPERTIES ChildEnds ExitEnds
\* The process ends.
CHECK_DEADLOCK FALSE
